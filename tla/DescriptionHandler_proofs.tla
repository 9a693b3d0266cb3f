---------------------- MODULE DescriptionHandler_proofs ---------------------
(***************************************************************************)
(* Proofs about DescriptionHandler: whatever calls the reader makes, in    *)
(* whatever order, the two stacks of the handler go together, and the      *)
(* devices it builds are a forest without a dangling pointer; and a        *)
(* document with plain texts is read to its end.                           *)
(***************************************************************************)
EXTENDS DescriptionHandler, SequenceTheorems, FiniteSetTheorems, TLAPS

\* The embedded devices among the open elements.
Embedded(stack) ==
  {i \in 2 .. Len(stack) : stack[i] = "DeviceElement" /\ stack[i - 1] = "DeviceListElement"}

\* What may be open in what: the first two are at the bottom, and only there.
Nests(stack) ==
  \A i \in DOMAIN stack :
    /\ stack[i] = "TopLevel" <=> i = 1
    /\ stack[i] = "RootElement" <=> i = 2
    /\ stack[i] = "DeviceElement" => stack[i - 1] \in {"RootElement", "DeviceListElement"}

Nesting == Nests(mStatusStack)

\* The devices that are open are different ones, and the outermost one is the
\* device that the handler started with: the only one that becomes rootDevice.
DevicesNest ==
  /\ \A i, j \in DOMAIN mDeviceStack : mDeviceStack[i] = mDeviceStack[j] => i = j
  /\ \A i \in DOMAIN mDeviceStack : mDeviceStack[i] # mCurrentDevice
  /\ IF mDeviceStack = <<>> THEN mCurrentDevice = 1 ELSE mDeviceStack[1] = 1
  /\ rootDevice \in {0, 1}

OpenDevices == {mCurrentDevice} \cup {mDeviceStack[i] : i \in DOMAIN mDeviceStack}

\* A heap is a forest.  Open devices are in no list; those that are have been
\* told of their parent and of the RootDevice.
IsForest(heap, open) ==
  /\ \A c, p \in DOMAIN heap :
       (\E i \in DOMAIN heap[p].devices : heap[p].devices[i] = c) <=> heap[c].parent = p
  /\ \A d \in DOMAIN heap :
       /\ \A i \in DOMAIN heap[d].devices : heap[d].devices[i] \in DOMAIN heap
       /\ heap[d].parent \in DOMAIN heap \cup {0}
       /\ d \in open => heap[d].parent = 0
       /\ heap[d].parent # 0 => heap[d].inRootDevice

\* No service is in the list of a device that is not its own.
AtHome(heap) ==
  \A d \in DOMAIN heap : \A i \in DOMAIN heap[d].services : heap[d].services[i].device = d

Forest ==
  /\ IsForest(device, OpenDevices)
  /\ AtHome(device)
  /\ rootDevice # 0 => device[rootDevice].inRootDevice

HandlerInv == HandlerTypeOK /\ Nesting /\ StacksAgree /\ DevicesNest /\ Forest

-----------------------------------------------------------------------------
(***************************************************************************)
(* The stacks.                                                             *)
(***************************************************************************)

\* A stack that is not empty is its top on what is below it.
LEMMA FrontLast ==
  ASSUME NEW S, NEW s \in Seq(S), s # <<>>
  PROVE  /\ Len(s) \in Nat \ {0} /\ DOMAIN s = 1 .. Len(s)
         /\ Front(s) \in Seq(S) /\ Len(Front(s)) = Len(s) - 1
         /\ DOMAIN Front(s) = 1 .. Len(s) - 1
         /\ \A i \in 1 .. Len(s) - 1 : Front(s)[i] = s[i]
         /\ Last(s) = s[Len(s)] /\ Last(s) \in S
<1>1. Len(s) \in Nat \ {0} /\ DOMAIN s = 1 .. Len(s) /\ \A i \in 1 .. Len(s) : s[i] \in S
  BY EmptySeq, LenProperties
<1>2. Front(s) \in Seq(S) /\ Len(Front(s)) = Len(s) - 1
  BY <1>1, SubSeqProperties DEF Front
<1>3. \A i \in 1 .. Len(s) - 1 : Front(s)[i] = s[i]
  BY <1>1, SubSeqProperties DEF Front
<1> QED
  BY <1>1, <1>2, <1>3 DEF Last

LEMMA AppendLast ==
  ASSUME NEW S, NEW s \in Seq(S), NEW x \in S
  PROVE  /\ Len(s) \in Nat /\ DOMAIN s = 1 .. Len(s)
         /\ Append(s, x) \in Seq(S) /\ Len(Append(s, x)) = Len(s) + 1
         /\ DOMAIN Append(s, x) = 1 .. Len(s) + 1
         /\ \A i \in 1 .. Len(s) : Append(s, x)[i] = s[i]
         /\ Append(s, x)[Len(s) + 1] = x
  BY AppendProperties, LenProperties

\* A push and a pop count embedded devices as they should.
LEMMA EmbeddedFinite ==
  ASSUME NEW s \in Seq(Statuses)
  PROVE  IsFiniteSet(Embedded(s)) /\ Cardinality(Embedded(s)) \in Nat
<1>1. IsFiniteSet(2 .. Len(s)) /\ Embedded(s) \subseteq 2 .. Len(s)
  BY LenProperties, FS_Interval DEF Embedded
<1> QED
  BY <1>1, FS_Subset, FS_CardinalityType

LEMMA EmbeddedPush ==
  ASSUME NEW s \in Seq(Statuses), s # <<>>, NEW x \in Statuses
  PROVE  Cardinality(Embedded(Append(s, x))) =
           IF x = "DeviceElement" /\ Last(s) = "DeviceListElement"
           THEN Cardinality(Embedded(s)) + 1 ELSE Cardinality(Embedded(s))
<1> DEFINE n == Len(s)
           t == Append(s, x)
<1>1. n \in Nat \ {0} /\ Last(s) = s[n]
  BY FrontLast
<1>2. Len(t) = n + 1 /\ t[n + 1] = x /\ \A i \in 1 .. n : t[i] = s[i]
  BY AppendLast
<1> HIDE DEF n, t
<1>3. Embedded(t) = IF x = "DeviceElement" /\ Last(s) = "DeviceListElement"
                    THEN Embedded(s) \cup {n + 1} ELSE Embedded(s)
  <2>1. \A i : i \in 2 .. n + 1 <=> i \in 2 .. n \/ i = n + 1
    BY <1>1
  <2>2. \A i \in 2 .. n : t[i] = s[i] /\ t[i - 1] = s[i - 1]
    BY <1>1, <1>2
  <2>3. \A i : i \in Embedded(s) <=>
                 i \in 2 .. n /\ s[i] = "DeviceElement" /\ s[i - 1] = "DeviceListElement"
    BY DEF Embedded, n
  <2>4. \A i : i \in Embedded(t) <=>
                 i \in 2 .. n + 1 /\ t[i] = "DeviceElement" /\ t[i - 1] = "DeviceListElement"
    BY <1>2 DEF Embedded
  <2>5. n + 1 \in Embedded(t) <=> x = "DeviceElement" /\ Last(s) = "DeviceListElement"
    <3>1. (n + 1) - 1 = n /\ n \in 1 .. n
      BY <1>1
    <3>2. t[(n + 1) - 1] = Last(s)
      BY <3>1, <1>1, <1>2
    <3> QED
      BY <3>2, <1>2, <2>1, <2>4
  <2>6. \A i : i \in Embedded(t) <=> i \in Embedded(s) \/ (i = n + 1 /\ n + 1 \in Embedded(t))
    BY <2>1, <2>2, <2>3, <2>4
  <2> QED
    BY <2>5, <2>6
<1>4. n + 1 \notin Embedded(s)
  BY <1>1 DEF Embedded, n
<1>5. IsFiniteSet(Embedded(s))
  BY EmbeddedFinite
<1>6. Cardinality(Embedded(s) \cup {n + 1}) = Cardinality(Embedded(s)) + 1
  BY <1>4, <1>5, FS_AddElement
<1> QED
  BY <1>3, <1>6 DEF t

LEMMA EmbeddedPop ==
  ASSUME NEW s \in Seq(Statuses), s # <<>>
  PROVE  Cardinality(Embedded(Front(s))) =
           IF Last(s) = "DeviceElement" /\ Len(s) > 1 /\ Last(Front(s)) = "DeviceListElement"
           THEN Cardinality(Embedded(s)) - 1 ELSE Cardinality(Embedded(s))
<1> DEFINE n == Len(s)
           t == Front(s)
<1>1. /\ n \in Nat \ {0} /\ Len(t) = n - 1 /\ Last(s) = s[n]
      /\ \A i \in 1 .. n - 1 : t[i] = s[i]
  BY FrontLast
<1>2. n > 1 => Last(t) = s[n - 1]
  BY <1>1 DEF Last
<1> HIDE DEF n, t
<1>3. Embedded(t) = Embedded(s) \ {n}
  <2>1. \A i : i \in 2 .. n - 1 <=> i \in 2 .. n /\ i # n
    BY <1>1
  <2>2. \A i \in 2 .. n - 1 : t[i] = s[i] /\ t[i - 1] = s[i - 1]
    BY <1>1
  <2>3. \A i : i \in Embedded(s) <=>
                 i \in 2 .. n /\ s[i] = "DeviceElement" /\ s[i - 1] = "DeviceListElement"
    BY DEF Embedded, n
  <2>4. \A i : i \in Embedded(t) <=>
                 i \in 2 .. n - 1 /\ t[i] = "DeviceElement" /\ t[i - 1] = "DeviceListElement"
    BY <1>1 DEF Embedded
  <2> QED
    BY <2>1, <2>2, <2>3, <2>4
<1>4. n \in Embedded(s) <=> s[n] = "DeviceElement" /\ n > 1 /\ s[n - 1] = "DeviceListElement"
  BY <1>1 DEF Embedded, n
<1>5. IsFiniteSet(Embedded(s))
  BY EmbeddedFinite
<1>6. Cardinality(Embedded(s) \ {n}) =
        IF n \in Embedded(s) THEN Cardinality(Embedded(s)) - 1 ELSE Cardinality(Embedded(s))
  BY <1>5, FS_RemoveElement
<1> QED
  BY <1>1, <1>2, <1>3, <1>4, <1>6 DEF t, n

LEMMA NestsAt ==
  ASSUME NEW s, Nests(s), NEW i \in DOMAIN s
  PROVE  /\ s[i] = "TopLevel" <=> i = 1
         /\ s[i] = "RootElement" <=> i = 2
         /\ s[i] = "DeviceElement" => s[i - 1] \in {"RootElement", "DeviceListElement"}
  BY DEF Nests

LEMMA NestsPush ==
  ASSUME NEW s \in Seq(Statuses), s # <<>>, Nests(s), NEW x \in Statuses \ {"TopLevel"},
         x = "RootElement" <=> Last(s) = "TopLevel",
         x = "DeviceElement" => Last(s) \in {"RootElement", "DeviceListElement"}
  PROVE  Append(s, x) \in Seq(Statuses) /\ Nests(Append(s, x))
<1> DEFINE n == Len(s)
           t == Append(s, x)
<1>1. n \in Nat \ {0} /\ Last(s) = s[n] /\ DOMAIN s = 1 .. n
  BY FrontLast
<1>2. /\ t \in Seq(Statuses) /\ DOMAIN t = 1 .. n + 1 /\ t[n + 1] = x
      /\ \A i \in 1 .. n : t[i] = s[i]
  BY AppendLast
<1> HIDE DEF n, t
<1>3. ASSUME NEW i \in DOMAIN t
      PROVE  /\ t[i] = "TopLevel" <=> i = 1
             /\ t[i] = "RootElement" <=> i = 2
             /\ t[i] = "DeviceElement" => t[i - 1] \in {"RootElement", "DeviceListElement"}
  <2>1. CASE i \in 1 .. n
    <3>1. t[i] = s[i] /\ (i # 1 => t[i - 1] = s[i - 1])
      BY <1>1, <1>2, <2>1
    <3>2. /\ s[i] = "TopLevel" <=> i = 1
          /\ s[i] = "RootElement" <=> i = 2
          /\ s[i] = "DeviceElement" => s[i - 1] \in {"RootElement", "DeviceListElement"}
      BY <1>1, <2>1, NestsAt
    <3> QED
      BY <3>1, <3>2
  <2>2. CASE i = n + 1
    <3>1. s[n] = "TopLevel" <=> n = 1
      BY <1>1 DEF Nests
    <3>2. t[i - 1] = s[n]
      BY <1>1, <1>2, <2>2
    <3> QED
      BY <1>1, <1>2, <2>2, <3>1, <3>2
  <2> QED
    BY <1>1, <1>2, <2>1, <2>2
<1> QED
  BY <1>2, <1>3 DEF Nests, t

LEMMA NestsPop ==
  ASSUME NEW s \in Seq(Statuses), s # <<>>, Nests(s)
  PROVE  Front(s) \in Seq(Statuses) /\ Nests(Front(s))
<1> DEFINE n == Len(s)
           t == Front(s)
<1>1. /\ n \in Nat \ {0} /\ DOMAIN s = 1 .. n
      /\ t \in Seq(Statuses) /\ DOMAIN t = 1 .. n - 1 /\ \A i \in 1 .. n - 1 : t[i] = s[i]
  BY FrontLast
<1> HIDE DEF n, t
<1>2. ASSUME NEW i \in DOMAIN t
      PROVE  /\ t[i] = "TopLevel" <=> i = 1
             /\ t[i] = "RootElement" <=> i = 2
             /\ t[i] = "DeviceElement" => t[i - 1] \in {"RootElement", "DeviceListElement"}
  <2>1. i \in 1 .. n /\ t[i] = s[i]
    BY <1>1
  <2>2. i # 1 => t[i - 1] = s[i - 1]
    BY <1>1
  <2>3. i = 1 => s[i] = "TopLevel"
    BY <1>1, <2>1 DEF Nests
  <2> QED
    BY <1>1, <2>1, <2>2, <2>3 DEF Nests
<1> QED
  BY <1>1, <1>2 DEF Nests, t

\* A device that is open is in the root element, with nothing else open below
\* it, or embedded.
LEMMA DeviceOnTop ==
  ASSUME NEW s \in Seq(Statuses), s # <<>>, Nests(s), Last(s) = "DeviceElement"
  PROVE  /\ Len(s) > 1 /\ Last(Front(s)) \in {"RootElement", "DeviceListElement"}
         /\ Last(Front(s)) = "RootElement" => Cardinality(Embedded(s)) = 0
         /\ Last(Front(s)) # "RootElement" => Cardinality(Embedded(s)) # 0
<1> DEFINE n == Len(s)
<1>1. n \in Nat \ {0} /\ DOMAIN s = 1 .. n /\ s[n] = "DeviceElement"
  BY FrontLast
<1>2. n > 1
  <2>1. s[1] = "TopLevel"
    BY <1>1, NestsAt
  <2> QED
    BY <1>1, <2>1
<1>3. Last(Front(s)) = s[n - 1]
  <2>1. Len(Front(s)) = n - 1 /\ \A i \in 1 .. n - 1 : Front(s)[i] = s[i]
    BY FrontLast
  <2> QED
    BY <1>1, <1>2, <2>1 DEF Last
<1> HIDE DEF n
<1>4. s[n - 1] \in {"RootElement", "DeviceListElement"}
  <2>1. n \in DOMAIN s
    BY <1>1
  <2> QED
    BY <1>1, <2>1, NestsAt
<1>5. ASSUME s[n - 1] = "RootElement"
      PROVE  Embedded(s) = {}
  <2>1. n - 1 = 2 /\ s[2] = "RootElement"
    BY <1>1, <1>2, <1>5 DEF Nests
  <2>2. \A i \in 2 .. n : i = 2 \/ i - 1 = 2
    BY <1>1, <2>1
  <2> QED
    BY <2>1, <2>2 DEF Embedded, n
<1>6. ASSUME s[n - 1] = "DeviceListElement"
      PROVE  n \in Embedded(s)
  BY <1>1, <1>2, <1>6 DEF Embedded, n
<1>7. Cardinality({}) = 0 /\ (Cardinality(Embedded(s)) = 0 => Embedded(s) = {})
  BY EmbeddedFinite, FS_EmptySet
<1> QED
  BY <1>2, <1>3, <1>4, <1>5, <1>6, <1>7 DEF n

\* What Child() may give, and where devices and the root element come from.
LEMMA ChildType ==
  ASSUME NEW status \in Statuses, NEW name
  PROVE  /\ Child(status, name) \in Statuses \ {"TopLevel", "RootElement"}
         /\ Child(status, name) = "DeviceElement" =>
              name = "device" /\ status \in {"RootElement", "DeviceListElement"}
         /\ status = "DeviceListElement" /\ name = "device" => Child(status, name) = "DeviceElement"
  BY DEF Child, Statuses

-----------------------------------------------------------------------------
(***************************************************************************)
(* The records, and the methods that change them.                          *)
(***************************************************************************)

LEMMA NewTypes ==
  /\ NoText \in Seq(Pieces)
  /\ NewDevice \in DevicePrivate /\ NewService \in ServicePrivate /\ NewIcon \in IconPrivate
<1>1. NoText \in Seq(Pieces)
  BY DEF NoText
<1>2. NewDevice \in DevicePrivate
  BY <1>1 DEF NewDevice, DevicePrivate
<1>3. NewService \in ServicePrivate
  BY <1>1 DEF NewService, ServicePrivate
<1>4. NewIcon \in IconPrivate
  BY <1>1 DEF NewIcon, IconPrivate, IconKeys, IconSizes
<1> QED
  BY <1>1, <1>2, <1>3, <1>4

LEMMA SetPropertyType ==
  ASSUME NEW keys, NEW properties \in [keys -> Seq(Pieces)], NEW key, NEW value \in Seq(Pieces)
  PROVE  SetProperty(properties, key, value) \in [keys -> Seq(Pieces)]
  BY DEF SetProperty

LEMMA SetIconPropertyType ==
  ASSUME NEW icon \in IconPrivate, NEW key, NEW value \in Seq(Pieces)
  PROVE  SetIconProperty(icon, key, value) \in IconPrivate
<1>1. ToInt(value) \in Int
  BY NumeralsAssumption DEF ToInt
<1> QED
  BY <1>1 DEF SetIconProperty, SetProperty, IconPrivate, IconSizes

\* The fields of a device, when one of them is exchanged.
LEMMA DeviceFields ==
  ASSUME NEW r \in DevicePrivate
  PROVE  /\ \A v \in [DeviceKeys -> Seq(Pieces)] :
              LET x == [r EXCEPT !.properties = v] IN
                /\ x \in DevicePrivate /\ x.devices = r.devices /\ x.parent = r.parent
                /\ x.services = r.services /\ x.inRootDevice = r.inRootDevice
         /\ \A v \in Seq(IconPrivate) :
              LET x == [r EXCEPT !.icons = v] IN
                /\ x \in DevicePrivate /\ x.devices = r.devices /\ x.parent = r.parent
                /\ x.services = r.services /\ x.inRootDevice = r.inRootDevice
         /\ \A v \in Seq(ServicePrivate) :
              LET x == [r EXCEPT !.services = v] IN
                /\ x \in DevicePrivate /\ x.devices = r.devices /\ x.parent = r.parent
                /\ x.services = v /\ x.inRootDevice = r.inRootDevice
         /\ \A v \in Seq(Nat) :
              LET x == [r EXCEPT !.devices = v] IN
                /\ x \in DevicePrivate /\ x.devices = v /\ x.parent = r.parent
                /\ x.services = r.services /\ x.inRootDevice = r.inRootDevice
         /\ \A v \in Nat :
              LET x == [r EXCEPT !.parent = v] IN
                /\ x \in DevicePrivate /\ x.devices = r.devices /\ x.parent = v
                /\ x.services = r.services /\ x.inRootDevice = r.inRootDevice
         /\ LET x == [r EXCEPT !.inRootDevice = TRUE] IN
              /\ x \in DevicePrivate /\ x.devices = r.devices /\ x.parent = r.parent
              /\ x.services = r.services /\ x.inRootDevice = TRUE
  BY DEF DevicePrivate

-----------------------------------------------------------------------------
(***************************************************************************)
(* The heap.  A method that leaves the links alone keeps a forest.         *)
(***************************************************************************)
SameLinks(heap, other) ==
  /\ DOMAIN other = DOMAIN heap
  /\ \A d \in DOMAIN heap :
       /\ other[d].devices = heap[d].devices /\ other[d].parent = heap[d].parent
       /\ heap[d].inRootDevice => other[d].inRootDevice

LEMMA SameLinksForest ==
  ASSUME NEW heap, NEW other, NEW open, SameLinks(heap, other), IsForest(heap, open)
  PROVE  IsForest(other, open)
  BY DEF SameLinks, IsForest

\* One device is exchanged.
LEMMA SetAt ==
  ASSUME NEW heap \in Seq(DevicePrivate), NEW d \in DOMAIN heap, NEW r \in DevicePrivate
  PROVE  LET g == [heap EXCEPT ![d] = r] IN
           /\ g \in Seq(DevicePrivate) /\ DOMAIN g = DOMAIN heap
           /\ \A e \in DOMAIN heap : g[e] = IF e = d THEN r ELSE heap[e]
           /\ /\ r.devices = heap[d].devices /\ r.parent = heap[d].parent
              /\ heap[d].inRootDevice => r.inRootDevice
              => SameLinks(heap, g)
<1> DEFINE g == [heap EXCEPT ![d] = r]
<1>1. d \in 1 .. Len(heap) /\ DOMAIN heap = 1 .. Len(heap)
  BY LenProperties
<1>2. g \in Seq(DevicePrivate) /\ DOMAIN g = DOMAIN heap
  BY <1>1, ExceptSeq
<1>3. \A e \in DOMAIN heap : g[e] = IF e = d THEN r ELSE heap[e]
  OBVIOUS
<1> HIDE DEF g
<1> QED
  BY <1>2, <1>3 DEF SameLinks, g

LEMMA HeapType ==
  ASSUME NEW heap \in Seq(DevicePrivate)
  PROVE  DOMAIN heap = 1 .. Len(heap) /\ Len(heap) \in Nat /\ \A d \in DOMAIN heap :
           heap[d] \in DevicePrivate
  BY LenProperties, ElementOfSeq

LEMMA SetPropertiesHeap ==
  ASSUME NEW heap \in Seq(DevicePrivate), NEW d \in DOMAIN heap,
         NEW v \in [DeviceKeys -> Seq(Pieces)]
  PROVE  LET g == [heap EXCEPT ![d].properties = v] IN
           g \in Seq(DevicePrivate) /\ SameLinks(heap, g) /\ (AtHome(heap) => AtHome(g))
<1> DEFINE r == [heap[d] EXCEPT !.properties = v]
           g == [heap EXCEPT ![d] = r]
<1>1. /\ r \in DevicePrivate /\ r.devices = heap[d].devices /\ r.parent = heap[d].parent
      /\ r.services = heap[d].services /\ r.inRootDevice = heap[d].inRootDevice
  BY HeapType, DeviceFields
<1>2. g = [heap EXCEPT ![d].properties = v]
  OBVIOUS
<1> HIDE DEF r
<1>3. /\ g \in Seq(DevicePrivate) /\ DOMAIN g = DOMAIN heap /\ SameLinks(heap, g)
      /\ \A e \in DOMAIN heap : g[e] = IF e = d THEN r ELSE heap[e]
  BY <1>1, SetAt
<1> HIDE DEF g
<1>4. AtHome(heap) => AtHome(g)
  BY <1>1, <1>3 DEF AtHome
<1> QED
  BY <1>2, <1>3, <1>4

LEMMA AddIconHeap ==
  ASSUME NEW heap \in Seq(DevicePrivate), NEW d \in DOMAIN heap, NEW icon \in IconPrivate
  PROVE  LET g == AddIcon(heap, d, icon) IN
           g \in Seq(DevicePrivate) /\ SameLinks(heap, g) /\ (AtHome(heap) => AtHome(g))
<1> DEFINE v == Append(heap[d].icons, icon)
           r == [heap[d] EXCEPT !.icons = v]
           g == [heap EXCEPT ![d] = r]
<1>1. heap[d] \in DevicePrivate /\ heap[d].icons \in Seq(IconPrivate)
  BY HeapType DEF DevicePrivate
<1>2. v \in Seq(IconPrivate)
  BY <1>1, AppendProperties
<1>3. g = AddIcon(heap, d, icon)
  BY DEF AddIcon
<1> HIDE DEF v
<1>4. /\ r \in DevicePrivate /\ r.devices = heap[d].devices /\ r.parent = heap[d].parent
      /\ r.services = heap[d].services /\ r.inRootDevice = heap[d].inRootDevice
  BY <1>1, <1>2, DeviceFields
<1> HIDE DEF r
<1>5. /\ g \in Seq(DevicePrivate) /\ DOMAIN g = DOMAIN heap /\ SameLinks(heap, g)
      /\ \A e \in DOMAIN heap : g[e] = IF e = d THEN r ELSE heap[e]
  BY <1>4, SetAt
<1> HIDE DEF g
<1>6. AtHome(heap) => AtHome(g)
  BY <1>4, <1>5 DEF AtHome
<1> QED
  BY <1>3, <1>5, <1>6

LEMMA AddServiceHeap ==
  ASSUME NEW heap \in Seq(DevicePrivate), NEW d \in DOMAIN heap, NEW service \in ServicePrivate
  PROVE  LET g == AddService(heap, d, service) IN
           g \in Seq(DevicePrivate) /\ SameLinks(heap, g) /\ (AtHome(heap) => AtHome(g))
<1> DEFINE s == [service EXCEPT !.device = d]
           old == heap[d].services
           v == Append(old, s)
           r == [heap[d] EXCEPT !.services = v]
           g == [heap EXCEPT ![d] = r]
<1>1. heap[d] \in DevicePrivate /\ old \in Seq(ServicePrivate) /\ d \in Nat
  <2>1. d \in Nat
    BY HeapType
  <2> QED
    BY <2>1, HeapType DEF DevicePrivate
<1>2. s \in ServicePrivate /\ s.device = d
  BY <1>1 DEF ServicePrivate
<1>3. g = AddService(heap, d, service)
  BY DEF AddService
<1> HIDE DEF s, old
<1>4. v \in Seq(ServicePrivate) /\ \A i \in DOMAIN v : v[i] = s \/ (i \in DOMAIN old /\ v[i] = old[i])
  BY <1>1, <1>2, AppendProperties, LenProperties
<1> HIDE DEF v
<1>5. /\ r \in DevicePrivate /\ r.devices = heap[d].devices /\ r.parent = heap[d].parent
      /\ r.services = v /\ r.inRootDevice = heap[d].inRootDevice
  BY <1>1, <1>4, DeviceFields
<1> HIDE DEF r
<1>6. /\ g \in Seq(DevicePrivate) /\ DOMAIN g = DOMAIN heap /\ SameLinks(heap, g)
      /\ \A e \in DOMAIN heap : g[e] = IF e = d THEN r ELSE heap[e]
  BY <1>5, SetAt
<1> HIDE DEF g
<1>7. AtHome(heap) => AtHome(g)
  BY <1>2, <1>4, <1>5, <1>6 DEF AtHome, old
<1> QED
  BY <1>3, <1>6, <1>7

LEMMA SetRootDeviceHeap ==
  ASSUME NEW heap \in Seq(DevicePrivate), NEW d \in DOMAIN heap
  PROVE  LET g == SetRootDevice(heap, d) IN
           /\ g \in Seq(DevicePrivate) /\ SameLinks(heap, g) /\ (AtHome(heap) => AtHome(g))
           /\ g[d].inRootDevice
<1> DEFINE r == [heap[d] EXCEPT !.inRootDevice = TRUE]
           g == [heap EXCEPT ![d] = r]
<1>1. /\ r \in DevicePrivate /\ r.devices = heap[d].devices /\ r.parent = heap[d].parent
      /\ r.services = heap[d].services /\ r.inRootDevice
  BY HeapType, DeviceFields
<1>2. g = SetRootDevice(heap, d)
  BY DEF SetRootDevice
<1> HIDE DEF r
<1>3. /\ g \in Seq(DevicePrivate) /\ DOMAIN g = DOMAIN heap /\ SameLinks(heap, g)
      /\ \A e \in DOMAIN heap : g[e] = IF e = d THEN r ELSE heap[e]
  BY <1>1, SetAt
<1> HIDE DEF g
<1>4. AtHome(heap) => AtHome(g)
  BY <1>1, <1>3 DEF AtHome
<1> QED
  BY <1>1, <1>2, <1>3, <1>4

\* A new device is a tree of its own.
LEMMA NewDeviceHeap ==
  ASSUME NEW heap \in Seq(DevicePrivate), NEW open
  PROVE  LET g == Append(heap, NewDevice)
             n == Len(heap) + 1
         IN  /\ g \in Seq(DevicePrivate) /\ DOMAIN g = DOMAIN heap \cup {n} /\ n \notin DOMAIN heap
             /\ \A d \in DOMAIN heap : g[d] = heap[d]
             /\ IsForest(heap, open) /\ open \subseteq DOMAIN heap => IsForest(g, open \cup {n})
             /\ AtHome(heap) => AtHome(g)
<1> DEFINE g == Append(heap, NewDevice)
           n == Len(heap) + 1
<1>1. DOMAIN heap = 1 .. Len(heap) /\ Len(heap) \in Nat /\ NewDevice \in DevicePrivate
  BY HeapType, NewTypes
<1>2. /\ g \in Seq(DevicePrivate) /\ DOMAIN g = 1 .. n /\ g[n] = NewDevice
      /\ \A d \in DOMAIN heap : g[d] = heap[d]
  BY <1>1, AppendLast
<1>3. DOMAIN g = DOMAIN heap \cup {n} /\ n \notin DOMAIN heap /\ n # 0 /\ 0 \notin DOMAIN heap
  BY <1>1, <1>2
<1>4. /\ DOMAIN NewDevice.devices = {} /\ DOMAIN NewDevice.services = {}
      /\ NewDevice.parent = 0
  BY DEF NewDevice
<1> HIDE DEF g, n
<1>5. ASSUME IsForest(heap, open), open \subseteq DOMAIN heap
      PROVE  IsForest(g, open \cup {n})
  <2>1. ASSUME NEW c \in DOMAIN g, NEW p \in DOMAIN g
        PROVE  (\E i \in DOMAIN g[p].devices : g[p].devices[i] = c) <=> g[c].parent = p
    <3>1. CASE p = n
      <4>1. g[c].parent \in DOMAIN heap \cup {0}
        BY <1>2, <1>3, <1>4, <1>5 DEF IsForest
      <4> QED
        BY <1>2, <1>3, <1>4, <3>1, <4>1
    <3>2. CASE p \in DOMAIN heap /\ c = n
      BY <1>2, <1>3, <1>4, <1>5, <3>2 DEF IsForest
    <3>3. CASE p \in DOMAIN heap /\ c \in DOMAIN heap
      BY <1>2, <1>5, <3>3 DEF IsForest
    <3> QED
      BY <1>3, <3>1, <3>2, <3>3
  <2>2. ASSUME NEW d \in DOMAIN g
        PROVE  /\ \A i \in DOMAIN g[d].devices : g[d].devices[i] \in DOMAIN g
               /\ g[d].parent \in DOMAIN g \cup {0}
               /\ d \in open \cup {n} => g[d].parent = 0
               /\ g[d].parent # 0 => g[d].inRootDevice
    <3>1. CASE d = n
      BY <1>2, <1>4, <3>1
    <3>2. CASE d \in DOMAIN heap
      BY <1>2, <1>3, <1>5, <3>2 DEF IsForest
    <3> QED
      BY <1>3, <3>1, <3>2
  <2> QED
    BY <2>1, <2>2 DEF IsForest
<1>6. AtHome(heap) => AtHome(g)
  BY <1>2, <1>3, <1>4 DEF AtHome
<1> QED
  BY <1>2, <1>3, <1>5, <1>6 DEF g, n

\* A device that is complete becomes one of the device around it.
LEMMA AddDeviceHeap ==
  ASSUME NEW heap \in Seq(DevicePrivate), NEW p \in DOMAIN heap, NEW c \in DOMAIN heap, c # p
  PROVE  LET g == AddDevice(heap, p, c) IN
           /\ g \in Seq(DevicePrivate) /\ DOMAIN g = DOMAIN heap
           /\ \A d \in DOMAIN heap :
                /\ g[d].parent = IF d = c THEN p ELSE heap[d].parent
                /\ g[d].devices = IF d = p THEN Append(heap[p].devices, c) ELSE heap[d].devices
                /\ g[d].inRootDevice = heap[d].inRootDevice
           /\ AtHome(heap) => AtHome(g)
<1> DEFINE rc == [heap[c] EXCEPT !.parent = p]
           h == [heap EXCEPT ![c] = rc]
           v == Append(heap[p].devices, c)
           rp == [heap[p] EXCEPT !.devices = v]
           g == [h EXCEPT ![p] = rp]
<1>1. p \in Nat /\ c \in Nat /\ heap[c] \in DevicePrivate /\ heap[p] \in DevicePrivate
  BY HeapType
<1>2. g = AddDevice(heap, p, c)
  <2>1. h[p] = heap[p]
    OBVIOUS
  <2> QED
    BY <2>1 DEF AddDevice
<1>3. /\ rc \in DevicePrivate /\ rc.devices = heap[c].devices /\ rc.parent = p
      /\ rc.services = heap[c].services /\ rc.inRootDevice = heap[c].inRootDevice
  BY <1>1, DeviceFields
<1>4. v \in Seq(Nat)
  <2>1. heap[p].devices \in Seq(Nat)
    BY <1>1 DEF DevicePrivate
  <2> QED
    BY <1>1, <2>1, AppendProperties
<1> HIDE DEF rc, v
<1>5. /\ rp \in DevicePrivate /\ rp.devices = v /\ rp.parent = heap[p].parent
      /\ rp.services = heap[p].services /\ rp.inRootDevice = heap[p].inRootDevice
  BY <1>1, <1>4, DeviceFields
<1> HIDE DEF rp
<1>6. /\ h \in Seq(DevicePrivate) /\ DOMAIN h = DOMAIN heap
      /\ \A e \in DOMAIN heap : h[e] = IF e = c THEN rc ELSE heap[e]
  BY <1>3, SetAt
<1> HIDE DEF h
<1>7. /\ g \in Seq(DevicePrivate) /\ DOMAIN g = DOMAIN h
      /\ \A e \in DOMAIN h : g[e] = IF e = p THEN rp ELSE h[e]
  BY <1>5, <1>6, SetAt
<1> HIDE DEF g
<1>8. \A d \in DOMAIN heap : g[d].services = heap[d].services
  BY <1>3, <1>5, <1>6, <1>7
<1>9. AtHome(heap) => AtHome(g)
  BY <1>6, <1>7, <1>8 DEF AtHome
<1>10. ASSUME NEW d \in DOMAIN heap
       PROVE  /\ g[d].parent = IF d = c THEN p ELSE heap[d].parent
              /\ g[d].devices = IF d = p THEN v ELSE heap[d].devices
              /\ g[d].inRootDevice = heap[d].inRootDevice
  <2>1. CASE d = p
    BY <1>5, <1>6, <1>7, <2>1
  <2>2. CASE d # p
    BY <1>3, <1>6, <1>7, <2>2
  <2> QED
    BY <2>1, <2>2
<1> QED
  BY <1>2, <1>6, <1>7, <1>9, <1>10 DEF v

LEMMA AddDeviceForest ==
  ASSUME NEW heap \in Seq(DevicePrivate), NEW open, NEW p \in DOMAIN heap, NEW c \in DOMAIN heap,
         c # p, p \in open, c \in open, heap[c].inRootDevice, IsForest(heap, open)
  PROVE  IsForest(AddDevice(heap, p, c), open \ {c})
<1> DEFINE g == AddDevice(heap, p, c)
           l == heap[p].devices
           v == Append(l, c)
<1>1. /\ DOMAIN g = DOMAIN heap
      /\ \A d \in DOMAIN heap :
           /\ g[d].parent = IF d = c THEN p ELSE heap[d].parent
           /\ g[d].devices = IF d = p THEN v ELSE heap[d].devices
           /\ g[d].inRootDevice = heap[d].inRootDevice
  BY AddDeviceHeap
<1>2. 0 \notin DOMAIN heap /\ l \in Seq(Nat) /\ c \in Nat
  <2>1. heap[p] \in DevicePrivate /\ 0 \notin DOMAIN heap /\ c \in Nat
    BY HeapType
  <2> QED
    BY <2>1 DEF DevicePrivate
<1>3. /\ DOMAIN v = DOMAIN l \cup {Len(l) + 1} /\ v[Len(l) + 1] = c
      /\ \A i \in DOMAIN l : v[i] = l[i]
  <2>1. /\ Len(l) \in Nat /\ DOMAIN l = 1 .. Len(l) /\ DOMAIN v = 1 .. Len(l) + 1
        /\ v[Len(l) + 1] = c /\ \A i \in 1 .. Len(l) : v[i] = l[i]
    BY <1>2, AppendLast
  <2> QED
    BY <2>1
<1> HIDE DEF g, v
<1>4. ASSUME NEW d \in DOMAIN heap, NEW q \in DOMAIN heap
      PROVE  (\E i \in DOMAIN g[q].devices : g[q].devices[i] = d) <=> g[d].parent = q
  <2>1. (\E i \in DOMAIN heap[q].devices : heap[q].devices[i] = d) <=> heap[d].parent = q
    BY DEF IsForest
  <2>2. heap[c].parent = 0
    BY DEF IsForest
  <2>3. CASE q = p
    <3>1. (\E i \in DOMAIN v : v[i] = d) <=> (\E i \in DOMAIN l : l[i] = d) \/ d = c
      BY <1>3
    <3> QED
      BY <1>1, <2>1, <2>3, <3>1
  <2>4. CASE q # p
    BY <1>1, <1>2, <2>1, <2>2, <2>4
  <2> QED
    BY <2>3, <2>4
<1>5. ASSUME NEW d \in DOMAIN heap
      PROVE  /\ \A i \in DOMAIN g[d].devices : g[d].devices[i] \in DOMAIN heap
             /\ g[d].parent \in DOMAIN heap \cup {0}
             /\ d \in open \ {c} => g[d].parent = 0
             /\ g[d].parent # 0 => g[d].inRootDevice
  <2>1. \A i \in DOMAIN heap[d].devices : heap[d].devices[i] \in DOMAIN heap
    BY DEF IsForest
  <2>2. \A i \in DOMAIN g[d].devices : g[d].devices[i] \in DOMAIN heap
    BY <1>1, <1>3, <2>1
  <2> QED
    BY <1>1, <2>2 DEF IsForest
<1> QED
  BY <1>1, <1>4, <1>5 DEF IsForest, g

-----------------------------------------------------------------------------
(***************************************************************************)
(* The inductive invariant.                                                *)
(***************************************************************************)
LEMMA NestingUnmoved ==
  ASSUME HandlerInv, UNCHANGED <<mDeviceStack, mCurrentDevice, rootDevice>>
  PROVE  DevicesNest'
  BY DEF HandlerInv, DevicesNest

LEMMA ForestKept ==
  ASSUME HandlerInv, UNCHANGED <<mDeviceStack, mCurrentDevice, rootDevice>>,
         device' = device \/ (SameLinks(device, device') /\ AtHome(device'))
  PROVE  Forest'
<1>1. OpenDevices' = OpenDevices
  BY DEF OpenDevices
<1>2. IsForest(device', OpenDevices)
  BY SameLinksForest DEF HandlerInv, Forest
<1>3. rootDevice # 0 => device'[rootDevice].inRootDevice
  BY DEF HandlerInv, HandlerTypeOK, Forest, SameLinks
<1> QED
  BY <1>1, <1>2, <1>3 DEF HandlerInv, Forest

\* A call takes the next tag.
LEMMA NextTag ==
  ASSUME HandlerInv, Call
  PROVE  /\ outcome = "reading" /\ Head(tags).text \in Pieces
         /\ tags' \in Seq([call : {"startElement", "endElement", "characters"}, text : Pieces])
<1> DEFINE CallType == [call : {"startElement", "endElement", "characters"}, text : Pieces]
<1>1. outcome = "reading" /\ tags # <<>> /\ tags' = Tail(tags) /\ tags \in Seq(CallType)
  BY DEF HandlerInv, HandlerTypeOK, Call
<1>2. \A c \in CallType : c.text \in Pieces
  OBVIOUS
<1> HIDE DEF CallType
<1>3. Head(tags) \in CallType /\ tags' \in Seq(CallType)
  BY <1>1, HeadTailProperties
<1> QED
  BY <1>1, <1>2, <1>3 DEF CallType

LEMMA InitHandlerInv == Init => HandlerInv
<1> SUFFICES ASSUME Init PROVE HandlerInv
  OBVIOUS
<1>1. NewDevice \in DevicePrivate /\ device = <<NewDevice>> /\ DOMAIN device = {1}
  BY NewTypes DEF Init
<1>2. HandlerTypeOK
  <2>1. tags \in Seq([call : {"startElement", "endElement", "characters"}, text : Pieces])
    BY CallsAssumption DEF Init
  <2>2. mStatusStack \in Seq(Statuses) /\ device \in Seq(DevicePrivate)
    BY <1>1 DEF Init, Statuses
  <2>3. mDeviceStack \in Seq(DOMAIN device)
    BY EmptySeq DEF Init
  <2> QED
    BY <1>1, <2>1, <2>2, <2>3, NewTypes DEF Init, HandlerTypeOK
<1>3. Nesting
  BY DEF Init, Nesting, Nests
<1>4. StacksAgree
  <2>1. Embedded(mStatusStack) = {} /\ Len(mDeviceStack) = 0
    BY DEF Init, Embedded
  <2> QED
    BY <2>1, FS_EmptySet DEF StacksAgree, Embedded
<1>5. DevicesNest
  BY DEF Init, DevicesNest
<1>6. Forest
  <2>1. device[1].devices = <<>> /\ device[1].services = <<>> /\ device[1].parent = 0
    BY DEF Init, NewDevice
  <2> QED
    BY <1>1, <2>1 DEF Init, Forest, IsForest, AtHome
<1> QED
  BY <1>2, <1>3, <1>4, <1>5, <1>6 DEF HandlerInv

LEMMA StartElementKeeps ==
  ASSUME HandlerInv, Call, StartElement
  PROVE  HandlerInv'
<1> DEFINE name == Head(tags).text
<1>1. /\ outcome = "reading"
      /\ tags' \in Seq([call : {"startElement", "endElement", "characters"}, text : Pieces])
  BY NextTag
<1>2. /\ mStatusStack # <<>> /\ mCharacterData' = NoText /\ NoText \in Seq(Pieces)
      /\ UNCHANGED <<mCurrentService, mCurrentIcon, rootDevice, mBaseUrl>>
  BY NewTypes DEF StartElement
<1>3. /\ mStatusStack \in Seq(Statuses) /\ Nests(mStatusStack) /\ top \in Statuses
      /\ device \in Seq(DevicePrivate) /\ mDeviceStack \in Seq(DOMAIN device)
      /\ mCurrentDevice \in DOMAIN device
      /\ Len(mDeviceStack) = Cardinality(Embedded(mStatusStack))
  <2>1. mStatusStack \in Seq(Statuses)
    BY DEF HandlerInv, HandlerTypeOK
  <2>2. top \in Statuses
    BY <1>2, <2>1, FrontLast DEF top
  <2> QED
    BY <1>1, <2>1, <2>2
       DEF HandlerInv, HandlerTypeOK, Nesting, StacksAgree, Embedded
<1>4. CASE UNCHANGED <<mStatusStack, mDeviceStack, device, mCurrentDevice>>
  <2>1. DevicesNest' /\ Forest'
    BY <1>2, <1>4, NestingUnmoved, ForestKept
  <2>2. outcome' \in {"reading", "rejected"}
    BY <1>1 DEF StartElement
  <2>3. HandlerTypeOK'
    BY <1>1, <1>2, <1>4, <2>2 DEF HandlerInv, HandlerTypeOK
  <2> QED
    BY <1>1, <1>4, <2>1, <2>3 DEF HandlerInv, Nesting, StacksAgree
<1>5. ASSUME NEW x \in Statuses \ {"TopLevel"}, mStatusStack' = Append(mStatusStack, x),
             x = "RootElement" <=> top = "TopLevel",
             x = "DeviceElement" => top \in {"RootElement", "DeviceListElement"},
             outcome' = outcome
      PROVE  /\ mStatusStack' \in Seq(Statuses) /\ Nesting'
             /\ Cardinality(Embedded(mStatusStack')) =
                  IF x = "DeviceElement" /\ top = "DeviceListElement"
                  THEN Len(mDeviceStack) + 1 ELSE Len(mDeviceStack)
  <2>1. Append(mStatusStack, x) \in Seq(Statuses) /\ Nests(Append(mStatusStack, x))
    BY <1>2, <1>3, <1>5, NestsPush DEF top
  <2>2. Cardinality(Embedded(Append(mStatusStack, x))) =
          IF x = "DeviceElement" /\ top = "DeviceListElement"
          THEN Len(mDeviceStack) + 1 ELSE Len(mDeviceStack)
    BY <1>2, <1>3, EmbeddedPush DEF top
  <2> QED
    BY <1>5, <2>1, <2>2 DEF Nesting
<1>6. CASE OpenElement(name) /\ outcome' = outcome /\ ~ HoldsText(top)
           /\ ~ (top = "DeviceListElement" /\ name = "device")
  <2> DEFINE x == IF top = "TopLevel" THEN "RootElement" ELSE Child(top, name)
  <2>1. mStatusStack' = Append(mStatusStack, x) /\ UNCHANGED <<mDeviceStack, device, mCurrentDevice>>
    BY <1>6 DEF OpenElement
  <2>2. /\ x \in Statuses \ {"TopLevel"} /\ (x = "RootElement" <=> top = "TopLevel")
        /\ x = "DeviceElement" => top \in {"RootElement", "DeviceListElement"}
        /\ ~ (x = "DeviceElement" /\ top = "DeviceListElement")
    BY <1>3, <1>6, ChildType DEF Statuses
  <2> HIDE DEF x
  <2>3. /\ mStatusStack' \in Seq(Statuses) /\ Nesting'
        /\ Cardinality(Embedded(mStatusStack')) = Len(mDeviceStack)
    BY <1>5, <1>6, <2>1, <2>2
  <2>4. DevicesNest' /\ Forest'
    BY <1>2, <2>1, NestingUnmoved, ForestKept
  <2>5. HandlerTypeOK'
    BY <1>1, <1>2, <1>6, <2>1, <2>3 DEF HandlerInv, HandlerTypeOK
  <2>6. StacksAgree'
    BY <2>1, <2>3 DEF StacksAgree, Embedded
  <2> QED
    BY <2>3, <2>4, <2>5, <2>6 DEF HandlerInv
<1>7. CASE OpenElement(name) /\ outcome' = outcome /\ top = "DeviceListElement" /\ name = "device"
  <2> DEFINE n == Len(device) + 1
             k == Len(mDeviceStack)
  <2>1. /\ mStatusStack' = Append(mStatusStack, "DeviceElement")
        /\ mDeviceStack' = Append(mDeviceStack, mCurrentDevice)
        /\ device' = Append(device, NewDevice) /\ mCurrentDevice' = n
    <3>1. Child(top, name) = "DeviceElement" /\ ~ HoldsText(top) /\ top # "TopLevel"
      BY <1>3, <1>7, ChildType DEF HoldsText
    <3> QED
      BY <1>7, <3>1 DEF OpenElement
  <2>2. /\ mStatusStack' \in Seq(Statuses) /\ Nesting'
        /\ Cardinality(Embedded(mStatusStack')) = k + 1
    <3>1. "DeviceElement" \in Statuses \ {"TopLevel"}
      BY DEF Statuses
    <3> QED
      BY <1>5, <1>7, <2>1, <3>1
  <2>3. OpenDevices \subseteq DOMAIN device
    BY <1>3, LenProperties, ElementOfSeq DEF OpenDevices
  <2>4. /\ device' \in Seq(DevicePrivate) /\ n \notin DOMAIN device
        /\ DOMAIN device' = DOMAIN device \cup {n}
        /\ \A d \in DOMAIN device : device'[d] = device[d]
        /\ IsForest(device', OpenDevices \cup {n}) /\ AtHome(device')
    BY <1>3, <2>1, <2>3, NewDeviceHeap DEF HandlerInv, Forest
  <2>5. /\ k \in Nat /\ DOMAIN mDeviceStack = 1 .. k
        /\ mDeviceStack' \in Seq(DOMAIN device) /\ Len(mDeviceStack') = k + 1
        /\ DOMAIN mDeviceStack' = 1 .. k + 1 /\ mDeviceStack'[k + 1] = mCurrentDevice
        /\ \A i \in 1 .. k : mDeviceStack'[i] = mDeviceStack[i]
    BY <1>3, <2>1, AppendLast
  <2>6. mDeviceStack' \in Seq(DOMAIN device')
    BY <2>4, <2>5, SeqMonotonic
  <2> HIDE DEF n, k
  <2>7. OpenDevices' = OpenDevices \cup {n}
    <3>1. {mDeviceStack'[i] : i \in DOMAIN mDeviceStack'} = OpenDevices
      BY <2>5 DEF OpenDevices
    <3> QED
      BY <2>1, <3>1 DEF OpenDevices
  <2>8. DevicesNest'
    <3>1. /\ \A i, j \in DOMAIN mDeviceStack' : mDeviceStack'[i] = mDeviceStack'[j] => i = j
          /\ \A i \in DOMAIN mDeviceStack' : mDeviceStack'[i] # n
      <4>1. \A i \in 1 .. k + 1 : i \in 1 .. k \/ i = k + 1
        BY <2>5
      <4>2. \A i \in 1 .. k : mDeviceStack[i] \in DOMAIN device /\ mDeviceStack[i] # mCurrentDevice
        BY <2>3, <2>5 DEF HandlerInv, DevicesNest, OpenDevices
      <4>3. \A i, j \in 1 .. k : mDeviceStack[i] = mDeviceStack[j] => i = j
        BY <2>5 DEF HandlerInv, DevicesNest
      <4>4. \A i \in 1 .. k + 1 : mDeviceStack'[i] \in DOMAIN device
        BY <1>3, <2>5, <4>1, <4>2
      <4> QED
        BY <2>4, <2>5, <4>1, <4>2, <4>3, <4>4
    <3>2. mDeviceStack'[1] = 1 /\ mDeviceStack' # <<>>
      <4>1. CASE mDeviceStack = <<>>
        BY <2>5, <4>1 DEF HandlerInv, DevicesNest, k
      <4>2. CASE mDeviceStack # <<>>
        <5>1. k # 0
          BY <1>3, <4>2, EmptySeq DEF k
        <5> QED
          BY <2>5, <4>2, <5>1 DEF HandlerInv, DevicesNest
      <4> QED
        BY <4>1, <4>2
    <3> QED
      BY <1>2, <2>1, <3>1, <3>2 DEF HandlerInv, DevicesNest
  <2>9. Forest'
    BY <1>2, <2>4, <2>7 DEF HandlerInv, HandlerTypeOK, Forest
  <2>10. HandlerTypeOK'
    BY <1>1, <1>2, <1>7, <2>1, <2>2, <2>4, <2>6 DEF HandlerInv, HandlerTypeOK
  <2>11. StacksAgree'
    BY <2>2, <2>5 DEF StacksAgree, Embedded
  <2> QED
    BY <2>2, <2>8, <2>9, <2>10, <2>11 DEF HandlerInv
<1> QED
  <2>1. \/ UNCHANGED <<mStatusStack, mDeviceStack, device, mCurrentDevice>>
        \/ OpenElement(name) /\ outcome' = outcome
    BY DEF StartElement
  <2>2. OpenElement(name) /\ HoldsText(top)
          => UNCHANGED <<mStatusStack, mDeviceStack, device, mCurrentDevice>>
    BY DEF OpenElement, HoldsText
  <2> QED
    BY <1>4, <1>6, <1>7, <2>1, <2>2

\* endElement(), but for the end of an embedded device: one element less.
LEMMA EndElementPops ==
  ASSUME HandlerInv, Call, EndElement
  PROVE  /\ outcome = "reading" /\ outcome' = "reading" /\ Head(tags).text \in Pieces
         /\ mStatusStack # <<>> /\ mStatusStack \in Seq(Statuses) /\ Nests(mStatusStack)
         /\ mStatusStack' \in Seq(Statuses) /\ Nesting' /\ mCharacterData' = NoText
         /\ Len(mDeviceStack) = Cardinality(Embedded(mStatusStack))
         /\ Cardinality(Embedded(mStatusStack')) =
              IF top = "DeviceElement" /\ Len(mStatusStack) > 1 /\ Last(pop) = "DeviceListElement"
              THEN Len(mDeviceStack) - 1 ELSE Len(mDeviceStack)
<1>1. /\ outcome = "reading" /\ outcome' = "reading" /\ Head(tags).text \in Pieces
      /\ mCharacterData' = NoText
  BY NextTag DEF EndElement
<1>2. /\ mStatusStack # <<>> /\ mStatusStack \in Seq(Statuses) /\ Nests(mStatusStack)
      /\ Len(mDeviceStack) = Cardinality(Embedded(mStatusStack)) /\ mStatusStack' = Front(mStatusStack)
  BY <1>1 DEF EndElement, pop, HandlerInv, HandlerTypeOK, Nesting, StacksAgree, Embedded
<1>3. Front(mStatusStack) \in Seq(Statuses) /\ Nests(Front(mStatusStack))
  BY <1>2, NestsPop
<1>4. Cardinality(Embedded(Front(mStatusStack))) =
        IF top = "DeviceElement" /\ Len(mStatusStack) > 1 /\ Last(pop) = "DeviceListElement"
        THEN Len(mDeviceStack) - 1 ELSE Len(mDeviceStack)
  BY <1>2, EmbeddedPop DEF top, pop
<1> QED
  BY <1>1, <1>2, <1>3, <1>4 DEF Nesting

\* What endElement() leaves to show for an element that is no embedded device.
LEMMA PopKeeps ==
  ASSUME HandlerInv, Call, EndElement, UNCHANGED <<mDeviceStack, mCurrentDevice, rootDevice>>,
         ~ (top = "DeviceElement" /\ Last(pop) = "DeviceListElement"),
         device' = device \/ (SameLinks(device, device') /\ AtHome(device')),
         device' \in Seq(DevicePrivate),
         mCurrentService' \in ServicePrivate, mCurrentIcon' \in IconPrivate
  PROVE  HandlerInv'
<1>1. /\ outcome' = "reading" /\ mStatusStack' \in Seq(Statuses) /\ Nesting'
      /\ mCharacterData' \in Seq(Pieces)
      /\ Cardinality(Embedded(mStatusStack')) = Len(mDeviceStack')
  BY EndElementPops, NewTypes
<1>2. tags' \in Seq([call : {"startElement", "endElement", "characters"}, text : Pieces])
  BY NextTag
<1>3. DOMAIN device' = DOMAIN device
  BY DEF SameLinks
<1>4. mBaseUrl' \in Seq(Pieces)
  BY DEF HandlerInv, HandlerTypeOK, EndElement
<1>5. HandlerTypeOK'
  BY <1>1, <1>2, <1>3, <1>4 DEF HandlerInv, HandlerTypeOK
<1>6. DevicesNest' /\ Forest'
  BY NestingUnmoved, ForestKept
<1>7. StacksAgree'
  BY <1>1 DEF StacksAgree, Embedded
<1> QED
  BY <1>1, <1>5, <1>6, <1>7 DEF HandlerInv

LEMMA CloseDataKeeps ==
  ASSUME HandlerInv, Call, EndElement, top = "DataElement"
  PROVE  HandlerInv'
<1> DEFINE name == Head(tags).text
<1>1. /\ device \in Seq(DevicePrivate) /\ mCurrentDevice \in DOMAIN device
      /\ mCharacterData \in Seq(Pieces) /\ mCurrentService \in ServicePrivate
      /\ mCurrentIcon \in IconPrivate /\ AtHome(device)
  BY DEF HandlerInv, HandlerTypeOK, Forest
<1>2. CloseDeviceData(name) \/ CloseServiceData(name) \/ CloseIconData(name)
  BY DEF EndElement
<1>3. UNCHANGED <<mDeviceStack, mCurrentDevice, rootDevice>>
  BY <1>2 DEF CloseDeviceData, CloseServiceData, CloseIconData, current
<1>4. CASE CloseDeviceData(name)
  <2> DEFINE v == SetProperty(device[mCurrentDevice].properties, name, mCharacterData)
  <2>1. device[mCurrentDevice].properties \in [DeviceKeys -> Seq(Pieces)]
    BY <1>1, HeapType DEF DevicePrivate
  <2>2. v \in [DeviceKeys -> Seq(Pieces)]
    BY <1>1, <2>1, SetPropertyType
  <2>3. device' = [device EXCEPT ![mCurrentDevice].properties = v]
    BY <1>4 DEF CloseDeviceData
  <2> HIDE DEF v
  <2>4. device' \in Seq(DevicePrivate) /\ SameLinks(device, device') /\ AtHome(device')
    BY <1>1, <2>2, <2>3, SetPropertiesHeap
  <2>5. mCurrentService' \in ServicePrivate /\ mCurrentIcon' \in IconPrivate
    BY <1>1, <1>4 DEF CloseDeviceData, current
  <2> QED
    BY <1>3, <2>4, <2>5, PopKeeps
<1>5. CASE CloseServiceData(name)
  <2> DEFINE v == SetProperty(mCurrentService.properties, name, mCharacterData)
  <2>1. mCurrentService.properties \in [ServiceKeys -> Seq(Pieces)]
    BY <1>1 DEF ServicePrivate
  <2>2. v \in [ServiceKeys -> Seq(Pieces)]
    BY <1>1, <2>1, SetPropertyType
  <2>3. mCurrentService' = [mCurrentService EXCEPT !.properties = v]
    BY <1>5 DEF CloseServiceData
  <2> HIDE DEF v
  <2>4. mCurrentService' \in ServicePrivate
    BY <1>1, <2>2, <2>3 DEF ServicePrivate
  <2> QED
    BY <1>1, <1>3, <1>5, <2>4, PopKeeps DEF CloseServiceData
<1>6. CASE CloseIconData(name)
  <2>1. mCurrentIcon' \in IconPrivate
    BY <1>1, <1>6, SetIconPropertyType DEF CloseIconData
  <2> QED
    BY <1>1, <1>3, <1>6, <2>1, PopKeeps DEF CloseIconData
<1> QED
  BY <1>2, <1>4, <1>5, <1>6

LEMMA CloseIconKeeps ==
  ASSUME HandlerInv, Call, EndElement, top = "IconElement"
  PROVE  HandlerInv'
<1>1. CloseIcon
  BY DEF EndElement
<1>2. /\ device \in Seq(DevicePrivate) /\ mCurrentDevice \in DOMAIN device
      /\ mCurrentIcon \in IconPrivate /\ AtHome(device)
  BY DEF HandlerInv, HandlerTypeOK, Forest
<1>3. device' \in Seq(DevicePrivate) /\ SameLinks(device, device') /\ AtHome(device')
  BY <1>1, <1>2, AddIconHeap DEF CloseIcon
<1>4. mCurrentService' \in ServicePrivate /\ mCurrentIcon' \in IconPrivate
  BY <1>1, NewTypes DEF CloseIcon, HandlerInv, HandlerTypeOK
<1> QED
  BY <1>1, <1>3, <1>4, PopKeeps DEF CloseIcon

LEMMA CloseServiceKeeps ==
  ASSUME HandlerInv, Call, EndElement, top = "ServiceElement"
  PROVE  HandlerInv'
<1>1. CloseService
  BY DEF EndElement
<1>2. /\ device \in Seq(DevicePrivate) /\ mCurrentDevice \in DOMAIN device
      /\ mCurrentService \in ServicePrivate /\ AtHome(device)
  BY DEF HandlerInv, HandlerTypeOK, Forest
<1>3. device' \in Seq(DevicePrivate) /\ SameLinks(device, device') /\ AtHome(device')
  BY <1>1, <1>2, AddServiceHeap DEF CloseService
<1>4. mCurrentService' \in ServicePrivate /\ mCurrentIcon' \in IconPrivate
  BY <1>1, NewTypes DEF CloseService, HandlerInv, HandlerTypeOK
<1> QED
  BY <1>1, <1>3, <1>4, PopKeeps DEF CloseService

\* The end of the outermost device: no other one is open, so it is the first.
LEMMA CloseRootDeviceKeeps ==
  ASSUME HandlerInv, Call, EndElement, top = "DeviceElement", CloseRootDevice
  PROVE  HandlerInv'
<1>1. /\ device \in Seq(DevicePrivate) /\ mCurrentDevice \in DOMAIN device /\ AtHome(device)
      /\ mDeviceStack \in Seq(DOMAIN device)
  BY DEF HandlerInv, HandlerTypeOK, Forest
<1>2. /\ device' = SetRootDevice(device, mCurrentDevice) /\ rootDevice' = mCurrentDevice
      /\ Last(pop) = "RootElement"
      /\ UNCHANGED <<mDeviceStack, mCurrentDevice, mCurrentService, mCurrentIcon>>
  BY DEF CloseRootDevice
<1>3. mDeviceStack = <<>> /\ mCurrentDevice = 1
  <2>1. Cardinality(Embedded(mStatusStack)) = 0
    BY <1>2, EndElementPops, DeviceOnTop DEF top, pop
  <2>2. mDeviceStack = <<>>
    BY <1>1, <2>1, EndElementPops, EmptySeq
  <2> QED
    BY <2>2 DEF HandlerInv, DevicesNest
<1>4. /\ device' \in Seq(DevicePrivate) /\ SameLinks(device, device') /\ AtHome(device')
      /\ device'[mCurrentDevice].inRootDevice
  BY <1>1, <1>2, SetRootDeviceHeap
<1>5. DOMAIN device' = DOMAIN device
  BY <1>4 DEF SameLinks
<1>6. /\ outcome' = "reading" /\ mStatusStack' \in Seq(Statuses) /\ Nesting'
      /\ mCharacterData' \in Seq(Pieces)
      /\ Cardinality(Embedded(mStatusStack')) = Len(mDeviceStack')
  BY <1>2, EndElementPops, NewTypes
<1>7. tags' \in Seq([call : {"startElement", "endElement", "characters"}, text : Pieces])
  BY NextTag
<1>8. HandlerTypeOK'
  <2>1. mBaseUrl' \in Seq(Pieces)
    BY DEF HandlerInv, HandlerTypeOK, EndElement
  <2> QED
    BY <1>1, <1>2, <1>4, <1>5, <1>6, <1>7, <2>1 DEF HandlerInv, HandlerTypeOK
<1>9. DevicesNest'
  BY <1>2, <1>3 DEF HandlerInv, DevicesNest
<1>10. Forest'
  <2>1. OpenDevices' = OpenDevices
    BY <1>2 DEF OpenDevices
  <2> QED
    BY <1>2, <1>4, <2>1, SameLinksForest DEF HandlerInv, Forest
<1>11. StacksAgree'
  BY <1>6 DEF StacksAgree, Embedded
<1> QED
  BY <1>6, <1>8, <1>9, <1>10, <1>11 DEF HandlerInv

\* The end of an embedded device: the one around it is on top of the stack.
LEMMA CloseEmbeddedDeviceKeeps ==
  ASSUME HandlerInv, Call, EndElement, top = "DeviceElement", CloseEmbeddedDevice
  PROVE  HandlerInv'
<1> DEFINE c == mCurrentDevice
           p == Last(mDeviceStack)
           k == Len(mDeviceStack)
           h == SetRootDevice(device, c)
<1>1. /\ device \in Seq(DevicePrivate) /\ c \in DOMAIN device /\ AtHome(device)
      /\ mDeviceStack \in Seq(DOMAIN device) /\ IsForest(device, OpenDevices)
  BY DEF HandlerInv, HandlerTypeOK, Forest
<1>2. /\ device' = AddDevice(h, p, c) /\ mCurrentDevice' = p
      /\ mDeviceStack' = Front(mDeviceStack) /\ Last(pop) # "RootElement"
      /\ UNCHANGED <<mCurrentService, mCurrentIcon, rootDevice>>
  BY DEF CloseEmbeddedDevice, ResumeDevice
<1>3. mDeviceStack # <<>> /\ Last(pop) = "DeviceListElement" /\ Len(mStatusStack) > 1
  <2>1. /\ Cardinality(Embedded(mStatusStack)) # 0 /\ Len(mStatusStack) > 1
        /\ Last(pop) \in {"RootElement", "DeviceListElement"}
    BY <1>2, EndElementPops, DeviceOnTop DEF top, pop
  <2> QED
    BY <1>2, <2>1, EndElementPops, EmptySeq
<1>4. /\ outcome' = "reading" /\ mStatusStack' \in Seq(Statuses) /\ Nesting'
      /\ mCharacterData' \in Seq(Pieces) /\ Cardinality(Embedded(mStatusStack')) = k - 1
  BY <1>3, EndElementPops, NewTypes
<1>5. /\ k \in Nat \ {0} /\ DOMAIN mDeviceStack = 1 .. k
      /\ mDeviceStack' \in Seq(DOMAIN device) /\ Len(mDeviceStack') = k - 1
      /\ DOMAIN mDeviceStack' = 1 .. k - 1
      /\ \A i \in 1 .. k - 1 : mDeviceStack'[i] = mDeviceStack[i]
      /\ p = mDeviceStack[k] /\ p \in DOMAIN device
  BY <1>1, <1>2, <1>3, FrontLast
<1>6. c # p /\ c \in OpenDevices /\ p \in OpenDevices
  BY <1>5 DEF HandlerInv, DevicesNest, OpenDevices
<1> HIDE DEF k, p, h
<1>7. OpenDevices' = OpenDevices \ {c}
  <2>1. \A i : i \in 1 .. k <=> i \in 1 .. k - 1 \/ i = k
    BY <1>5
  <2>2. \A i \in 1 .. k : mDeviceStack[i] # c
    BY <1>5 DEF HandlerInv, DevicesNest
  <2>3. \A d : d \in OpenDevices <=> d = c \/ \E i \in 1 .. k : d = mDeviceStack[i]
    BY <1>5 DEF OpenDevices
  <2>4. \A d : d \in OpenDevices' <=> d = p \/ \E i \in 1 .. k - 1 : d = mDeviceStack[i]
    BY <1>2, <1>5 DEF OpenDevices
  <2> QED
    BY <1>5, <2>1, <2>2, <2>3, <2>4
<1>8. /\ h \in Seq(DevicePrivate) /\ SameLinks(device, h) /\ AtHome(h) /\ DOMAIN h = DOMAIN device
      /\ h[c].inRootDevice /\ IsForest(h, OpenDevices)
  <2>1. h \in Seq(DevicePrivate) /\ SameLinks(device, h) /\ AtHome(h) /\ h[c].inRootDevice
    BY <1>1, SetRootDeviceHeap DEF h
  <2> QED
    BY <1>1, <2>1, SameLinksForest DEF SameLinks
<1>9. /\ device' \in Seq(DevicePrivate) /\ DOMAIN device' = DOMAIN device /\ AtHome(device')
      /\ \A d \in DOMAIN device : device'[d].inRootDevice = h[d].inRootDevice
  BY <1>1, <1>2, <1>5, <1>6, <1>8, AddDeviceHeap
<1>10. IsForest(device', OpenDevices')
  BY <1>1, <1>2, <1>5, <1>6, <1>7, <1>8, AddDeviceForest
<1>11. Forest'
  <2>1. rootDevice # 0 => rootDevice \in DOMAIN device /\ device[rootDevice].inRootDevice
    BY DEF HandlerInv, HandlerTypeOK, Forest
  <2>2. rootDevice # 0 => device'[rootDevice].inRootDevice
    BY <1>8, <1>9, <2>1 DEF SameLinks
  <2> QED
    BY <1>2, <1>9, <1>10, <2>2 DEF Forest
<1>12. DevicesNest'
  <2>1. /\ \A i, j \in DOMAIN mDeviceStack' : mDeviceStack'[i] = mDeviceStack'[j] => i = j
        /\ \A i \in DOMAIN mDeviceStack' : mDeviceStack'[i] # p
    <3>1. \A i \in 1 .. k - 1 : i \in 1 .. k /\ i # k /\ k \in 1 .. k
      BY <1>5
    <3>2. \A i, j \in 1 .. k : mDeviceStack[i] = mDeviceStack[j] => i = j
      BY <1>5 DEF HandlerInv, DevicesNest
    <3> QED
      BY <1>5, <3>1, <3>2
  <2>2. mDeviceStack[1] = 1
    BY <1>3 DEF HandlerInv, DevicesNest
  <2>3. CASE k = 1
    <3>1. mDeviceStack' = <<>>
      BY <1>5, <2>3, EmptySeq
    <3> QED
      BY <1>2, <1>5, <2>1, <2>2, <2>3, <3>1 DEF HandlerInv, DevicesNest
  <2>4. CASE k # 1
    <3>1. 1 \in 1 .. k - 1 /\ Len(mDeviceStack') # 0
      BY <1>5, <2>4
    <3>2. mDeviceStack' # <<>> /\ mDeviceStack'[1] = 1
      BY <1>5, <2>2, <3>1, EmptySeq
    <3> QED
      BY <1>2, <2>1, <3>2 DEF HandlerInv, DevicesNest
  <2> QED
    BY <2>3, <2>4
<1>13. HandlerTypeOK'
  <2>1. mBaseUrl' \in Seq(Pieces)
    BY DEF HandlerInv, HandlerTypeOK, EndElement
  <2>2. tags' \in Seq([call : {"startElement", "endElement", "characters"}, text : Pieces])
    BY NextTag
  <2> QED
    BY <1>2, <1>4, <1>5, <1>9, <2>1, <2>2 DEF HandlerInv, HandlerTypeOK
<1>14. StacksAgree'
  BY <1>4, <1>5 DEF StacksAgree, Embedded
<1> QED
  BY <1>4, <1>11, <1>12, <1>13, <1>14 DEF HandlerInv

LEMMA EndElementKeeps ==
  ASSUME HandlerInv, Call, EndElement
  PROVE  HandlerInv'
<1>1. CASE top = "DataElement"
  BY <1>1, CloseDataKeeps
<1>2. CASE top = "IconElement"
  BY <1>2, CloseIconKeeps
<1>3. CASE top = "ServiceElement"
  BY <1>3, CloseServiceKeeps
<1>4. CASE top = "DeviceElement"
  <2>1. CloseRootDevice \/ CloseEmbeddedDevice
    BY <1>4 DEF EndElement
  <2> QED
    BY <1>4, <2>1, CloseRootDeviceKeeps, CloseEmbeddedDeviceKeeps
<1>5. CASE top \notin {"DataElement", "IconElement", "ServiceElement", "DeviceElement"}
  <2>1. UNCHANGED <<current, device>>
    BY <1>5 DEF EndElement
  <2> QED
    BY <1>5, <2>1, PopKeeps DEF current, HandlerInv, HandlerTypeOK
<1> QED
  BY <1>1, <1>2, <1>3, <1>4, <1>5

LEMMA CharactersKeeps ==
  ASSUME HandlerInv, Call, Characters
  PROVE  HandlerInv'
<1>1. /\ mCharacterData' = Append(mCharacterData, Head(tags).text)
      /\ UNCHANGED <<mStatusStack, mDeviceStack, mCurrentDevice, mCurrentService, mCurrentIcon,
                     rootDevice, device, mBaseUrl, outcome>>
  BY DEF Characters, current
<1>2. mCharacterData' \in Seq(Pieces)
  BY <1>1, NextTag, AppendProperties DEF HandlerInv, HandlerTypeOK
<1>3. HandlerTypeOK'
  BY <1>1, <1>2, NextTag DEF HandlerInv, HandlerTypeOK
<1>4. DevicesNest' /\ Forest'
  BY <1>1, NestingUnmoved, ForestKept
<1> QED
  BY <1>1, <1>3, <1>4 DEF HandlerInv, Nesting, StacksAgree

\* When the parsing ends, in whichever way, nothing is left to be built.
LEMMA EndKeeps ==
  ASSUME HandlerInv, outcome' \in {"done", "malformed", "undefined"} \/ outcome' = outcome,
         UNCHANGED <<tags, mDeviceStack, mCurrentDevice, mCurrentService, mCurrentIcon,
                     mCharacterData, device, rootDevice, mBaseUrl>>,
         \/ UNCHANGED mStatusStack
         \/ outcome' # "reading" /\ mStatusStack # <<>> /\ mStatusStack' = pop
  PROVE  HandlerInv'
<1>1. mStatusStack \in Seq(Statuses) /\ Nests(mStatusStack)
  BY DEF HandlerInv, HandlerTypeOK, Nesting
<1>2. mStatusStack' \in Seq(Statuses) /\ Nests(mStatusStack')
  BY <1>1, NestsPop DEF pop
<1>3. DevicesNest' /\ Forest'
  BY NestingUnmoved, ForestKept
<1>4. HandlerTypeOK'
  BY <1>2 DEF HandlerInv, HandlerTypeOK
<1>5. StacksAgree'
  BY DEF HandlerInv, StacksAgree
<1> QED
  BY <1>2, <1>3, <1>4, <1>5 DEF HandlerInv, Nesting

\* The invariant is inductive.
LEMMA NextHandlerInv == HandlerInv /\ [Next]_vars => HandlerInv'
<1> SUFFICES ASSUME HandlerInv, [Next]_vars PROVE HandlerInv'
  OBVIOUS
<1>1. CASE Call
  BY <1>1, StartElementKeeps, EndElementKeeps, CharactersKeeps DEF Call
<1>2. CASE EndDocument
  BY <1>2, EndKeeps DEF EndDocument, current
<1>3. CASE ParseError
  BY <1>3, EndKeeps DEF ParseError, current
<1>4. CASE Underflow
  BY <1>4, EndKeeps DEF Underflow, current
<1>5. CASE UNCHANGED vars
  BY <1>5, EndKeeps DEF vars
<1> QED
  BY <1>1, <1>2, <1>3, <1>4, <1>5 DEF Next

LEMMA HandlerInvHolds == Spec => []HandlerInv
<1>1. Init => HandlerInv
  BY InitHandlerInv
<1>2. HandlerInv /\ [Next]_vars => HandlerInv'
  BY NextHandlerInv
<1> QED
  BY <1>1, <1>2, PTL DEF Spec

-----------------------------------------------------------------------------
(***************************************************************************)
(* What can be reached from a device.                                      *)
(***************************************************************************)

\* Below() is closed, and nothing is in it without a reason.
LEMMA BelowSteps ==
  ASSUME NEW d \in DOMAIN device,
         \A p \in DOMAIN device : ToSet(device[p].devices) \subseteq DOMAIN device
  PROVE  /\ d \in Below(d) /\ Below(d) \subseteq DOMAIN device
         /\ \A p \in Below(d) : ToSet(device[p].devices) \subseteq Below(d)
         /\ \A e \in Below(d) : e = d \/ \E p \in Below(d) : e \in ToSet(device[p].devices)
<1> DEFINE Closed(S) == d \in S /\ \A p \in S : ToSet(device[p].devices) \subseteq S
<1>1. d \in Below(d) /\ Below(d) \subseteq DOMAIN device
  BY DEF Below
<1>2. ASSUME NEW p \in Below(d), NEW e \in ToSet(device[p].devices)
      PROVE  e \in Below(d)
  <2>1. e \in DOMAIN device
    BY <1>1, <1>2
  <2>2. ASSUME NEW S \in SUBSET DOMAIN device, Closed(S)
        PROVE  e \in S
    <3>1. p \in S
      BY <1>2, <2>2 DEF Below
    <3> QED
      BY <1>2, <2>2, <3>1
  <2> QED
    BY <2>1, <2>2 DEF Below
<1> DEFINE Reasoned == {e \in Below(d) : e = d \/ \E p \in Below(d) : e \in ToSet(device[p].devices)}
<1>3. Closed(Reasoned) /\ Reasoned \in SUBSET DOMAIN device
  BY <1>1, <1>2
<1>4. \A e \in Below(d) : e \in Reasoned
  <2> HIDE DEF Reasoned
  <2> QED
    BY <1>3 DEF Below
<1> QED
  BY <1>1, <1>2, <1>4

\* The forest, in the terms of the properties.
LEMMA Lists ==
  ASSUME HandlerInv, NEW p \in DOMAIN device
  PROVE  /\ ToSet(device[p].devices) \subseteq DOMAIN device
         /\ \A c \in DOMAIN device : c \in ToSet(device[p].devices) <=> device[c].parent = p
         /\ device[p].parent \in DOMAIN device \cup {0}
         /\ device[p].parent # 0 => device[p].inRootDevice
         /\ p # 0
<1>1. IsForest(device, OpenDevices) /\ device \in Seq(DevicePrivate)
  BY DEF HandlerInv, HandlerTypeOK, Forest
<1>2. p # 0
  BY <1>1, HeapType
<1> QED
  BY <1>1, <1>2 DEF IsForest, ToSet

\* The devices that something besides a list refers to have no parent.
LEMMA Holders ==
  ASSUME HandlerInv, NEW d \in OpenDevices \cup ({rootDevice} \ {0})
  PROVE  d \in DOMAIN device /\ device[d].parent = 0
<1>1. OpenDevices \subseteq DOMAIN device
  BY LenProperties, ElementOfSeq DEF HandlerInv, HandlerTypeOK, OpenDevices
<1>2. rootDevice # 0 => rootDevice \in OpenDevices
  <2>1. mDeviceStack # <<>> => 1 \in DOMAIN mDeviceStack
    BY EmptySeq, LenProperties DEF HandlerInv, HandlerTypeOK
  <2> QED
    BY <2>1 DEF HandlerInv, DevicesNest, OpenDevices
<1> QED
  BY <1>1, <1>2 DEF HandlerInv, Forest, IsForest

-----------------------------------------------------------------------------
(***************************************************************************)
(* The theorems.                                                           *)
(***************************************************************************)

\* Whatever calls the reader makes, no address is dangling, the sizes of an icon
\* are numbers and everything else a text.
THEOREM HandlerTypeCorrect == Spec => []HandlerTypeOK
<1>1. HandlerInv => HandlerTypeOK
  BY DEF HandlerInv
<1> QED
  BY <1>1, HandlerInvHolds, PTL

\* While a document is read, mDeviceStack has a device for every embedded device
\* that mStatusStack has open: endElement() never pops the one without the other.
THEOREM StacksAgreeHolds == Spec => []StacksAgree
<1>1. HandlerInv => StacksAgree
  BY DEF HandlerInv
<1> QED
  BY <1>1, HandlerInvHolds, PTL

\* A device has the one that lists it as its parent, and no other one lists it.
THEOREM ParentsAgreeHolds == Spec => []ParentsAgree
<1>1. ASSUME HandlerInv
      PROVE  ParentsAgree
  <2> SUFFICES ASSUME NEW d \in DOMAIN device
               PROVE  {p \in DOMAIN device : d \in ToSet(device[p].devices)} =
                        IF device[d].parent = 0 THEN {} ELSE {device[d].parent}
    BY DEF ParentsAgree
  <2>1. \A p \in DOMAIN device :
          (d \in ToSet(device[p].devices) <=> device[d].parent = p) /\ p # 0
    BY <1>1, Lists
  <2>2. device[d].parent \in DOMAIN device \cup {0}
    BY <1>1, Lists
  <2> QED
    BY <2>1, <2>2
<1> QED
  BY <1>1, HandlerInvHolds, PTL

\* What a raw pointer of a device that exists points to exists as well, even
\* after the handler is gone and wherever the reader gave up.
THEOREM BackPointersLiveHolds == Spec => []BackPointersLive
<1>1. ASSUME HandlerInv
      PROVE  BackPointersLive
  <2> DEFINE holders == (IF rootDevice # 0 THEN {rootDevice} ELSE {})
                          \cup (IF outcome = "reading" THEN {mCurrentDevice} \cup ToSet(mDeviceStack)
                                                       ELSE {})
  <2>1. LiveDevices = UNION {Below(h) : h \in holders}
    BY DEF LiveDevices
  <2>2. \A h \in holders : h \in DOMAIN device /\ device[h].parent = 0
    BY <1>1, Holders DEF OpenDevices, ToSet
  <2> HIDE DEF holders
  <2>3. ASSUME NEW d \in LiveDevices
        PROVE  /\ d \in DOMAIN device
               /\ device[d].parent \in LiveDevices \cup {0}
    <3>1. PICK h \in holders : d \in Below(h)
      BY <2>1
    <3>2. /\ Below(h) \subseteq DOMAIN device
          /\ d = h \/ \E p \in Below(h) : d \in ToSet(device[p].devices)
      BY <1>1, <2>2, <3>1, Lists, BelowSteps
    <3>3. ASSUME NEW p \in Below(h), d \in ToSet(device[p].devices)
          PROVE  device[d].parent = p
      BY <1>1, <3>1, <3>2, <3>3, Lists
    <3> QED
      BY <2>1, <2>2, <3>1, <3>2, <3>3
  <2>4. ASSUME NEW d \in LiveDevices, NEW s \in ToSet(device[d].services)
        PROVE  s.device \in LiveDevices
    <3>1. s.device = d
      BY <1>1, <2>3, <2>4 DEF HandlerInv, Forest, AtHome, ToSet
    <3> QED
      BY <3>1
  <2> QED
    BY <2>3, <2>4 DEF BackPointersLive
<1> QED
  BY <1>1, HandlerInvHolds, PTL

\* deviceDetails() of every device in the tree has all its keys, and finds the
\* UDN of its parent in the device that lists it.
THEOREM DetailsCompleteHolds == Spec => []DetailsComplete
<1>1. ASSUME HandlerInv, rootDevice # 0
      PROVE  /\ \A d \in Below(rootDevice) :
                  DOMAIN Details(device, d) =
                    DeviceKeys \cup {"ipAddress", "ipPortNumber"}
                      \cup (IF d = rootDevice THEN {} ELSE {"parentDeviceUDN"})
             /\ \A d \in Below(rootDevice) : \A c \in ToSet(device[d].devices) :
                  Details(device, c)["parentDeviceUDN"] = Details(device, d)["UDN"]
  <2> DEFINE Keys == DeviceKeys \cup {"ipAddress", "ipPortNumber"}
  <2>1. /\ rootDevice \in DOMAIN device /\ device[rootDevice].parent = 0
        /\ device[rootDevice].inRootDevice
    BY <1>1, Holders DEF HandlerInv, Forest
  <2>2. ASSUME NEW d \in Below(rootDevice)
        PROVE  /\ d \in DOMAIN device /\ device[d].inRootDevice
               /\ device[d].parent = 0 <=> d = rootDevice
    <3>1. /\ d \in DOMAIN device /\ Below(rootDevice) \subseteq DOMAIN device
          /\ d = rootDevice \/ \E p \in Below(rootDevice) : d \in ToSet(device[p].devices)
      BY <1>1, <2>1, Lists, BelowSteps
    <3>2. ASSUME NEW p \in Below(rootDevice), d \in ToSet(device[p].devices)
          PROVE  device[d].parent # 0 /\ device[d].inRootDevice
      BY <1>1, <3>1, <3>2, Lists
    <3> QED
      BY <2>1, <3>1, <3>2
  <2>3. \A x : DOMAIN OwnDetails(x) = Keys /\ OwnDetails(x)["UDN"] = x.properties["UDN"]
    BY DEF OwnDetails, DeviceKeys
  <2>4. ASSUME NEW d \in Below(rootDevice)
        PROVE  /\ DOMAIN Details(device, d) =
                    Keys \cup (IF d = rootDevice THEN {} ELSE {"parentDeviceUDN"})
               /\ Details(device, d)["UDN"] = device[d].properties["UDN"]
               /\ d # rootDevice => Details(device, d)["parentDeviceUDN"] =
                                      device[device[d].parent].properties["UDN"]
    <3> DEFINE own == OwnDetails(device[d])
    <3>1. "UDN" \in Keys /\ DOMAIN own = Keys /\ own["UDN"] = device[d].properties["UDN"]
      BY <2>3 DEF DeviceKeys
    <3> HIDE DEF own, Keys
    <3>2. CASE d = rootDevice
      <4>1. Details(device, d) = own
        BY <2>2, <3>2 DEF Details, own
      <4> QED
        BY <3>1, <3>2, <4>1
    <3>3. CASE d # rootDevice
      <4>1. Details(device, d) =
              [k \in DOMAIN own \cup {"parentDeviceUDN"} |->
                 IF k = "parentDeviceUDN" THEN device[device[d].parent].properties["UDN"] ELSE own[k]]
        BY <2>2, <3>3 DEF Details, own
      <4> QED
        BY <3>1, <3>3, <4>1
    <3> QED
      BY <3>2, <3>3
  <2>5. ASSUME NEW d \in Below(rootDevice), NEW c \in ToSet(device[d].devices)
        PROVE  Details(device, c)["parentDeviceUDN"] = Details(device, d)["UDN"]
    <3>1. c \in Below(rootDevice)
      BY <1>1, <2>1, <2>5, Lists, BelowSteps
    <3>2. device[c].parent = d /\ c # rootDevice
      BY <1>1, <2>1, <2>2, <2>5, <3>1, Lists
    <3> QED
      BY <2>4, <3>1, <3>2
  <2> QED
    BY <2>4, <2>5
<1>2. HandlerInv => DetailsComplete
  BY <1>1 DEF DetailsComplete
<1> QED
  BY <1>2, HandlerInvHolds, PTL

-----------------------------------------------------------------------------
(***************************************************************************)
(* A document in which no element is inside of a text is read to its end:  *)
(* mStatusStack is as high as elements are open, so that nothing is popped *)
(* from it that has not been pushed.                                       *)
(***************************************************************************)

\* After the first n calls the element that was opened last holds text.
InText(calls, n) ==
  \E i \in 1 .. n :
    /\ calls[i].call = "startElement" /\ calls[i].text \in TextNames
    /\ \A k \in i + 1 .. n : calls[k].call # "endElement"

\* The calls that are left are the last ones of the document.
AsRead(calls, n) ==
  /\ n \in Nat /\ Len(calls) = n + Len(tags)
  /\ \A i \in DOMAIN tags : tags[i] = calls[n + i]

\* There is nothing on top of an element that holds text.
TextsOnTop(stack) == \A i \in DOMAIN stack : HoldsText(stack[i]) => i = Len(stack)

\* The stack, after the first n calls.
InStep(calls, n) ==
  /\ outcome \notin {"rejected", "undefined"}
  /\ outcome = "reading" =>
       /\ Len(mStatusStack) = 1 + Depth(calls, n)
       /\ mStatusStack # <<>> /\ HoldsText(top) => InText(calls, n)

ReadingInv ==
  /\ document \in Documents
  /\ TextsOnTop(mStatusStack)
  /\ \E n \in 0 .. Len(Calls[document]) :
       /\ AsRead(Calls[document], n)
       /\ Calls[document][1].text = "root" /\ Plain(Calls[document]) => InStep(Calls[document], n)

-----------------------------------------------------------------------------
(***************************************************************************)
(* Counting calls.                                                         *)
(***************************************************************************)
CallType == [call : {"startElement", "endElement", "characters"}, text : Pieces]

Count(calls, n, kind) == Cardinality({i \in 1 .. n : calls[i].call = kind})

LEMMA CountStep ==
  ASSUME NEW calls, NEW n \in Nat, NEW kind
  PROVE  /\ Count(calls, n, kind) \in Nat
         /\ Count(calls, n + 1, kind) =
              Count(calls, n, kind) + (IF calls[n + 1].call = kind THEN 1 ELSE 0)
<1> DEFINE Those(m) == {i \in 1 .. m : calls[i].call = kind}
<1>1. IsFiniteSet(Those(n)) /\ Cardinality(Those(n)) \in Nat
  <2>1. IsFiniteSet(1 .. n) /\ Those(n) \subseteq 1 .. n
    BY FS_Interval
  <2> QED
    BY <2>1, FS_Subset, FS_CardinalityType
<1>2. n + 1 \notin Those(n)
  OBVIOUS
<1>3. Those(n + 1) = IF calls[n + 1].call = kind THEN Those(n) \cup {n + 1} ELSE Those(n)
  <2>1. \A i : i \in 1 .. n + 1 <=> i \in 1 .. n \/ i = n + 1
    OBVIOUS
  <2> QED
    BY <2>1
<1>4. Cardinality(Those(n) \cup {n + 1}) = Cardinality(Those(n)) + 1
  BY <1>1, <1>2, FS_AddElement
<1>5. /\ Count(calls, n, kind) = Cardinality(Those(n))
      /\ Count(calls, n + 1, kind) = Cardinality(Those(n + 1))
  BY DEF Count
<1> HIDE DEF Those
<1> QED
  BY <1>1, <1>3, <1>4, <1>5

LEMMA DepthStep ==
  ASSUME NEW calls, NEW n \in Nat
  PROVE  /\ Depth(calls, 0) = 0 /\ Depth(calls, n) \in Int
         /\ Depth(calls, n + 1) =
              Depth(calls, n) + (IF calls[n + 1].call = "startElement" THEN 1 ELSE 0)
                              - (IF calls[n + 1].call = "endElement" THEN 1 ELSE 0)
<1>1. \A m : Depth(calls, m) = Count(calls, m, "startElement") - Count(calls, m, "endElement")
  BY DEF Depth, Count
<1>2. \A kind : Count(calls, 0, kind) = 0
  <2>1. \A kind : {i \in 1 .. 0 : calls[i].call = kind} = {}
    OBVIOUS
  <2> QED
    BY <2>1, FS_EmptySet DEF Count
<1> QED
  BY <1>1, <1>2, CountStep

\* Only before the first call and after the last one no element is open.
LEMMA BalancedDepth ==
  ASSUME NEW calls \in Seq(CallType), Balanced(calls), NEW n \in 0 .. Len(calls)
  PROVE  /\ Depth(calls, n) >= 0
         /\ n # Len(calls) /\ Depth(calls, n) = 0 => n = 0
<1>1. Len(calls) \in Nat
  BY LenProperties
<1>2. Depth(calls, 0) = 0 /\ Depth(calls, n) \in Int
  BY <1>1, DepthStep
<1>3. n = 0 \/ n = Len(calls) \/ n \in 1 .. Len(calls) - 1
  BY <1>1
<1> QED
  BY <1>2, <1>3 DEF Balanced

-----------------------------------------------------------------------------
(***************************************************************************)
(* The inductive invariant, with HandlerInv.                               *)
(***************************************************************************)
LEMMA CallsType ==
  ASSUME NEW d \in Documents
  PROVE  /\ Calls[d] \in Seq(CallType) /\ Calls[d] # <<>> /\ Len(Calls[d]) \in Nat \ {0}
         /\ Balanced(Calls[d])
<1>1. Calls[d] \in Seq(CallType) /\ Balanced(Calls[d])
  BY CallsAssumption DEF CallType
<1> QED
  BY <1>1, EmptySeq DEF Balanced

\* A call is the next one of the document.
LEMMA AsReadStep ==
  ASSUME NEW calls \in Seq(CallType), tags \in Seq(CallType), tags # <<>>, tags' = Tail(tags),
         NEW n \in 0 .. Len(calls), AsRead(calls, n)
  PROVE  /\ n + 1 \in 0 .. Len(calls) /\ n \in Nat /\ n # Len(calls)
         /\ Head(tags) = calls[n + 1]
         /\ AsRead(calls, n + 1)'
<1>1. /\ Len(tags) \in Nat \ {0} /\ Len(calls) \in Nat /\ DOMAIN tags = 1 .. Len(tags)
      /\ tags' \in Seq(CallType) /\ Len(tags') = Len(tags) - 1
      /\ \A i \in 1 .. Len(tags) - 1 : tags'[i] = tags[i + 1]
  BY EmptySeq, LenProperties, HeadTailProperties
<1>2. DOMAIN tags' = 1 .. Len(tags) - 1
  BY <1>1, LenProperties
<1>3. Head(tags) = calls[n + 1]
  <2>1. Head(tags) = tags[1]
    BY <1>1
  <2>2. 1 \in DOMAIN tags
    BY <1>1
  <2> QED
    BY <2>1, <2>2 DEF AsRead
<1>4. \A i \in 1 .. Len(tags) - 1 : tags'[i] = calls[(n + 1) + i]
  <2> SUFFICES ASSUME NEW i \in 1 .. Len(tags) - 1 PROVE tags'[i] = calls[(n + 1) + i]
    OBVIOUS
  <2>1. tags'[i] = tags[i + 1] /\ i + 1 \in 1 .. Len(tags) /\ n + (i + 1) = (n + 1) + i
    BY <1>1
  <2>2. tags[i + 1] = calls[n + (i + 1)]
    BY <1>1, <2>1 DEF AsRead
  <2> QED
    BY <2>1, <2>2
<1> QED
  BY <1>1, <1>2, <1>3, <1>4 DEF AsRead

LEMMA InitReadingInv == Init => ReadingInv
<1> SUFFICES ASSUME Init PROVE ReadingInv
  OBVIOUS
<1>1. PICK calls : calls = Calls[document]
  OBVIOUS
<1>2. calls \in Seq(CallType) /\ Len(calls) \in Nat
  BY <1>1, CallsType DEF Init
<1>3. AsRead(calls, 0)
  BY <1>1, <1>2, LenProperties DEF Init, AsRead
<1>4. TextsOnTop(mStatusStack)
  BY DEF Init, TextsOnTop
<1>5. InStep(calls, 0)
  <2>1. Len(mStatusStack) = 1 /\ top = "TopLevel"
    BY DEF Init, top, Last
  <2> QED
    BY <2>1, DepthStep DEF Init, InStep, HoldsText
<1> QED
  BY <1>1, <1>2, <1>3, <1>4, <1>5 DEF ReadingInv, Init

\* A start of an element that is noted.
LEMMA StartReads ==
  ASSUME HandlerInv, Call, StartElement, TextsOnTop(mStatusStack)
  PROVE  /\ TextsOnTop(mStatusStack')
         /\ outcome' # "rejected" => outcome' = "reading"
         /\ ~ HoldsText(top) /\ outcome' = "reading" =>
              /\ Len(mStatusStack') = Len(mStatusStack) + 1
              /\ HoldsText(top') => Head(tags).text \in TextNames
         /\ outcome' = "rejected" => Len(mStatusStack) = 1 /\ Head(tags).text # "root"
<1> DEFINE name == Head(tags).text
           k == Len(mStatusStack)
<1>1. /\ mStatusStack \in Seq(Statuses) /\ mStatusStack # <<>> /\ Nests(mStatusStack)
      /\ outcome = "reading"
  BY DEF HandlerInv, HandlerTypeOK, Nesting, StartElement, Call
<1>2. k \in Nat \ {0} /\ DOMAIN mStatusStack = 1 .. k /\ top = mStatusStack[k] /\ top \in Statuses
  BY <1>1, FrontLast DEF top
<1>3. CASE outcome' = "rejected"
  <2>1. top = "TopLevel" /\ name # "root" /\ mStatusStack' = mStatusStack
    BY <1>1, <1>3 DEF StartElement
  <2>2. k = 1
    <3>1. k \in DOMAIN mStatusStack
      BY <1>2
    <3>2. mStatusStack[k] = "TopLevel" <=> k = 1
      BY <1>1, <3>1, NestsAt
    <3> QED
      BY <1>2, <2>1, <3>2
  <2> QED
    BY <1>3, <2>1, <2>2
<1>4. CASE outcome' # "rejected"
  <2>1. OpenElement(name) /\ outcome' = "reading"
    BY <1>1, <1>4 DEF StartElement
  <2>2. CASE HoldsText(top)
    <3>1. mStatusStack' = mStatusStack
      BY <2>1, <2>2 DEF OpenElement
    <3> QED
      BY <1>4, <2>1, <2>2, <3>1
  <2>3. CASE ~ HoldsText(top)
    <3> DEFINE x == IF top = "TopLevel" THEN "RootElement" ELSE Child(top, name)
    <3>1. mStatusStack' = Append(mStatusStack, x)
      BY <2>1, <2>3 DEF OpenElement
    <3>2. x \in Statuses /\ (HoldsText(x) => name \in TextNames)
      <4>1. x \in Statuses
        BY <1>2, ChildType DEF Statuses
      <4>2. HoldsText(x) => name \in TextNames
        BY DEF HoldsText, Child, TextNames
      <4> QED
        BY <4>1, <4>2
    <3> HIDE DEF x
    <3>3. /\ mStatusStack' \in Seq(Statuses) /\ Len(mStatusStack') = k + 1
          /\ DOMAIN mStatusStack' = 1 .. k + 1 /\ mStatusStack'[k + 1] = x
          /\ \A i \in 1 .. k : mStatusStack'[i] = mStatusStack[i]
      BY <1>1, <3>1, <3>2, AppendLast
    <3>4. top' = x
      BY <3>3 DEF top, Last
    <3>5. \A i \in 1 .. k : ~ HoldsText(mStatusStack[i])
      BY <1>2, <2>3 DEF TextsOnTop
    <3>6. TextsOnTop(mStatusStack')
      <4>1. \A i \in 1 .. k + 1 : i \in 1 .. k \/ i = k + 1
        BY <1>2
      <4> QED
        BY <3>3, <3>5, <4>1 DEF TextsOnTop
    <3> QED
      BY <1>4, <2>1, <3>2, <3>3, <3>4, <3>6
  <2> QED
    BY <2>2, <2>3
<1> QED
  BY <1>3, <1>4

\* What is below an element does not hold text.
LEMMA PopReads ==
  ASSUME NEW s \in Seq(Statuses), s # <<>>, TextsOnTop(s)
  PROVE  /\ TextsOnTop(Front(s)) /\ Len(Front(s)) = Len(s) - 1
         /\ Front(s) # <<>> => ~ HoldsText(Last(Front(s)))
<1> DEFINE k == Len(s)
<1>1. /\ k \in Nat \ {0} /\ DOMAIN s = 1 .. k
      /\ Front(s) \in Seq(Statuses) /\ Len(Front(s)) = k - 1
      /\ DOMAIN Front(s) = 1 .. k - 1 /\ \A i \in 1 .. k - 1 : Front(s)[i] = s[i]
  BY FrontLast
<1> HIDE DEF k
<1>2. \A i \in 1 .. k - 1 : ~ HoldsText(Front(s)[i])
  BY <1>1 DEF TextsOnTop, k
<1>3. Front(s) # <<>> => Last(Front(s)) = Front(s)[k - 1] /\ k - 1 \in 1 .. k - 1
  <2>1. Front(s) # <<>> => k - 1 # 0
    BY <1>1, EmptySeq
  <2> QED
    BY <1>1, <2>1 DEF Last
<1> QED
  BY <1>1, <1>2, <1>3 DEF TextsOnTop, k

LEMMA CallReads ==
  ASSUME HandlerInv, ReadingInv, Call
  PROVE  ReadingInv'
<1>1. PICK calls : calls = Calls[document]
  OBVIOUS
<1>2. PICK n \in 0 .. Len(calls) :
        AsRead(calls, n) /\ (calls[1].text = "root" /\ Plain(calls) => InStep(calls, n))
  BY <1>1 DEF ReadingInv
<1>3. /\ document \in Documents /\ document' = document /\ TextsOnTop(mStatusStack)
      /\ tags \in Seq(CallType) /\ tags # <<>> /\ tags' = Tail(tags) /\ outcome = "reading"
      /\ mStatusStack \in Seq(Statuses) /\ Nests(mStatusStack)
  BY DEF ReadingInv, Call, HandlerInv, HandlerTypeOK, Nesting, CallType
<1>4. calls \in Seq(CallType) /\ Balanced(calls) /\ Len(calls) \in Nat
  BY <1>1, <1>3, CallsType
<1>5. /\ n + 1 \in 0 .. Len(calls) /\ n \in Nat /\ n # Len(calls)
      /\ Head(tags) = calls[n + 1] /\ AsRead(calls, n + 1)'
  BY <1>2, <1>3, <1>4, AsReadStep
<1>6. SUFFICES /\ TextsOnTop(mStatusStack')
               /\ calls[1].text = "root" /\ Plain(calls) => InStep(calls, n + 1)'
  <2>1. calls = Calls[document']
    BY <1>1, <1>3
  <2> QED
    BY <1>3, <1>5, <2>1 DEF ReadingInv
<1>7. /\ Depth(calls, n) \in Int
      /\ Depth(calls, n + 1) =
           Depth(calls, n) + (IF Head(tags).call = "startElement" THEN 1 ELSE 0)
                           - (IF Head(tags).call = "endElement" THEN 1 ELSE 0)
  BY <1>5, DepthStep
<1>8. Len(mStatusStack) \in Nat
  BY <1>3, LenProperties
<1>9. CASE StartElement
  <2>1. mStatusStack # <<>> /\ Head(tags).call = "startElement"
    BY <1>9 DEF StartElement
  <2>2. ASSUME calls[1].text = "root", Plain(calls)
        PROVE  InStep(calls, n + 1)'
    <3>1. Len(mStatusStack) = 1 + Depth(calls, n) /\ (HoldsText(top) => InText(calls, n))
      BY <1>2, <1>3, <2>1, <2>2 DEF InStep
    <3>2. ~ InText(calls, n)
      <4> SUFFICES ASSUME NEW i \in 1 .. n, calls[i].call = "startElement",
                          calls[i].text \in TextNames,
                          \A k \in i + 1 .. n : calls[k].call # "endElement"
                   PROVE  FALSE
        BY DEF InText
      <4>1. /\ i \in DOMAIN calls /\ n + 1 \in i + 1 .. Len(calls) /\ (n + 1) - 1 = n
            /\ calls[n + 1].call = "startElement"
        BY <1>4, <1>5, <2>1, LenProperties
      <4>2. \E k \in i + 1 .. (n + 1) - 1 : calls[k].call = "endElement"
        BY <2>2, <4>1 DEF Plain, TextNames
      <4> QED
        BY <4>1, <4>2
    <3>3. outcome' = "reading"
      <4>1. ASSUME outcome' = "rejected"
            PROVE  FALSE
        <5>1. Len(mStatusStack) = 1 /\ Head(tags).text # "root"
          BY <1>3, <1>9, <4>1, StartReads
        <5>2. n = 0
          <6>1. Len(mStatusStack) = 1 /\ Len(mStatusStack) = 1 + Depth(calls, n)
            BY <3>1, <5>1
          <6>2. Depth(calls, n) \in Int
            BY <1>7
          <6>3. Depth(calls, n) = 0
            BY <6>1, <6>2
          <6> QED
            BY <1>4, <1>5, <6>3, BalancedDepth
        <5> QED
          BY <1>5, <2>2, <5>1, <5>2
      <4> QED
        BY <1>3, <1>9, <4>1, StartReads
    <3>4. Len(mStatusStack') = Len(mStatusStack) + 1
          /\ (HoldsText(top') => Head(tags).text \in TextNames)
      BY <1>3, <1>9, <3>1, <3>2, <3>3, StartReads
    <3>5. HoldsText(top') => InText(calls, n + 1)
      <4>1. n + 1 \in 1 .. n + 1 /\ \A k \in (n + 1) + 1 .. n + 1 : calls[k].call # "endElement"
        BY <1>5
      <4> QED
        BY <1>5, <2>1, <3>4, <4>1 DEF InText
    <3> QED
      BY <1>7, <1>8, <2>1, <3>1, <3>3, <3>4, <3>5 DEF InStep
  <2> QED
    BY <1>3, <1>9, <2>2, StartReads
<1>10. CASE EndElement
  <2>1. /\ mStatusStack # <<>> /\ Head(tags).call = "endElement"
        /\ mStatusStack' = Front(mStatusStack) /\ outcome' = "reading"
    BY <1>3, <1>10 DEF EndElement, pop
  <2>2. /\ TextsOnTop(mStatusStack') /\ Len(mStatusStack') = Len(mStatusStack) - 1
        /\ mStatusStack' # <<>> => ~ HoldsText(top')
    BY <1>3, <2>1, PopReads DEF top
  <2>3. ASSUME calls[1].text = "root", Plain(calls)
        PROVE  InStep(calls, n + 1)'
    <3>1. Len(mStatusStack) = 1 + Depth(calls, n)
      BY <1>2, <1>3, <2>3 DEF InStep
    <3> QED
      BY <1>7, <1>8, <2>1, <2>2, <3>1 DEF InStep
  <2> QED
    BY <2>2, <2>3
<1>11. CASE Characters
  <2>1. Head(tags).call = "characters" /\ UNCHANGED <<mStatusStack, outcome>>
    BY <1>11 DEF Characters
  <2>2. top' = top
    BY <2>1 DEF top
  <2>3. InText(calls, n) => InText(calls, n + 1)
    <3>1. \A i \in 1 .. n : i \in 1 .. n + 1
            /\ \A k \in i + 1 .. n + 1 : k \in i + 1 .. n \/ k = n + 1
      BY <1>5
    <3> QED
      BY <1>5, <2>1, <3>1 DEF InText
  <2>4. ASSUME calls[1].text = "root", Plain(calls)
        PROVE  InStep(calls, n + 1)'
    BY <1>2, <1>3, <1>7, <2>1, <2>2, <2>3, <2>4 DEF InStep
  <2> QED
    BY <1>3, <2>1, <2>4
<1> QED
  BY <1>9, <1>10, <1>11 DEF Call

\* The stack does not run empty before the document ends, nor at its end.
LEMMA EndReads ==
  ASSUME HandlerInv, ReadingInv, EndDocument \/ ParseError \/ Underflow \/ UNCHANGED vars
  PROVE  ReadingInv'
<1>1. PICK calls : calls = Calls[document]
  OBVIOUS
<1>2. PICK n \in 0 .. Len(calls) :
        AsRead(calls, n) /\ (calls[1].text = "root" /\ Plain(calls) => InStep(calls, n))
  BY <1>1 DEF ReadingInv
<1>3. /\ document \in Documents /\ document' = document /\ tags' = tags
      /\ mStatusStack \in Seq(Statuses) /\ TextsOnTop(mStatusStack)
  BY DEF ReadingInv, HandlerInv, HandlerTypeOK, EndDocument, ParseError, Underflow, vars
<1>4. AsRead(calls, n)'
  BY <1>2, <1>3 DEF AsRead
<1>5. TextsOnTop(mStatusStack')
  <2>1. mStatusStack' = mStatusStack \/ (mStatusStack # <<>> /\ mStatusStack' = Front(mStatusStack))
    BY DEF EndDocument, ParseError, Underflow, vars, pop
  <2> QED
    BY <1>3, <2>1, PopReads
<1>6. ASSUME calls[1].text = "root", Plain(calls)
      PROVE  InStep(calls, n)'
  <2>1. InStep(calls, n)
    BY <1>2, <1>6
  <2>2. CASE EndDocument
    BY <2>2 DEF EndDocument, InStep
  <2>3. CASE ParseError
    BY <2>3 DEF ParseError, InStep
  <2>4. CASE Underflow
    <3>1. Len(mStatusStack) = 0 /\ Len(mStatusStack) = 1 + Depth(calls, n)
      BY <2>1, <2>4, EmptySeq DEF Underflow, InStep
    <3>2. Depth(calls, n) >= 0 /\ Depth(calls, n) \in Int
      BY <1>1, <1>2, <1>3, CallsType, BalancedDepth, DepthStep
    <3> QED
      BY <3>1, <3>2
  <2>5. CASE UNCHANGED vars
    BY <2>1, <2>5 DEF vars, InStep, top
  <2> QED
    BY <2>2, <2>3, <2>4, <2>5
<1> QED
  <2>1. calls = Calls[document']
    BY <1>1, <1>3
  <2> QED
    BY <1>2, <1>3, <1>4, <1>5, <1>6, <2>1 DEF ReadingInv

\* A document in which no element is inside of a text is not rejected, and the
\* handler does not pop what it has not pushed, however deep its elements nest
\* and whatever they are, known or not.
THEOREM PlainIsReadHolds == Spec => []PlainIsRead
<1>1. Init => HandlerInv /\ ReadingInv
  BY InitHandlerInv, InitReadingInv
<1>2. (HandlerInv /\ ReadingInv) /\ [Next]_vars => (HandlerInv /\ ReadingInv)'
  BY NextHandlerInv, CallReads, EndReads DEF Next
<1>3. ReadingInv => PlainIsRead
  BY DEF ReadingInv, InStep, PlainIsRead
<1> QED
  BY <1>1, <1>2, <1>3, PTL DEF Spec
=============================================================================
