------------------------- MODULE DescriptionMeaning -------------------------
(***************************************************************************)
(* What a description document means: the device tree that it describes,   *)
(* to compare with the one that DescriptionHandler builds of it.           *)
(*                                                                         *)
(* Two history variables keep what the reader has read, as a table of      *)
(* elements that know the element around them; the handler does not have   *)
(* it.  The reader knows the open elements too: of an end tag with another *)
(* name than that of the element it ends no call is made, the reader can   *)
(* only give up (ParseError).                                              *)
(***************************************************************************)
EXTENDS DescriptionHandler

VARIABLES
  elements,   \* [name, text, parent] of each element, in the order of the document
  open        \* the elements that have not ended, the innermost one last

documentVars == <<vars, elements, open>>

NoteStart(name) ==
  /\ elements' = Append(elements, [name |-> name, text |-> NoText,
                                   parent |-> IF open = <<>> THEN 0 ELSE Last(open)])
  /\ open' = Append(open, Len(elements) + 1)

NoteEnd(name) ==
  /\ elements[Last(open)].name = name
  /\ open' = Front(open)
  /\ UNCHANGED elements

NoteText(piece) ==
  /\ elements' = [elements EXCEPT ![Last(open)].text = Append(@, piece)]
  /\ UNCHANGED open

DocumentInit == Init /\ elements = <<>> /\ open = <<>>

DocumentCall ==
  /\ Call
  /\ LET call == Head(tags) IN
     CASE call.call = "startElement" -> NoteStart(call.text)
       [] call.call = "endElement"   -> NoteEnd(call.text)
       [] call.call = "characters"   -> NoteText(call.text)

DocumentNext ==
  \/ DocumentCall
  \/ (EndDocument \/ ParseError \/ Underflow) /\ UNCHANGED <<elements, open>>

DocumentSpec == DocumentInit /\ [][DocumentNext]_documentVars

-----------------------------------------------------------------------------
(***************************************************************************)
(* The reference: what the elements describe that have ended.              *)
(***************************************************************************)
Ended == DOMAIN elements \ ToSet(open)

Named(e, name) == {c \in Ended : elements[c].parent = e /\ elements[c].name = name}

\* The elements called name in the lists of e called list.
Listed(e, list, name) ==
  {c \in Ended :
     LET around == elements[c].parent IN
       /\ elements[c].name = name
       /\ around # 0 /\ elements[around].name = list /\ elements[around].parent = e}

\* If there are several elements of a name, the last one counts.
TextOf(e, key) == IF Named(e, key) = {} THEN NoText ELSE elements[Max(Named(e, key))].text

TextsOf(e, keys) == [k \in keys |-> TextOf(e, k)]

IconOf(e) ==
  [k \in IconKeys |-> IF k \in IconSizes THEN ToInt(TextOf(e, k)) ELSE TextOf(e, k)]

\* list has what set stands for, in the order of the document.
InOrder(list, set, meaning) ==
  /\ Len(list) = Cardinality(set)
  /\ \A e \in set : list[Cardinality({c \in set : c <= e})] = meaning[e]

\* The element e describes the device d of the heap; the devices in it are
\* described by the elements that of gives for them.
Describes(e, d, of) ==
  LET icons == Listed(e, "iconList", "icon")
      services == Listed(e, "serviceList", "service")
      devices == Listed(e, "deviceList", "device")
      heap == device[d]
  IN  /\ heap.properties = TextsOf(e, DeviceKeys)
      /\ InOrder(heap.icons, icons, [c \in icons |-> IconOf(c)])
      /\ InOrder([i \in DOMAIN heap.services |-> heap.services[i].properties],
                 services, [c \in services |-> TextsOf(c, ServiceKeys)])
      /\ InOrder([i \in DOMAIN heap.devices |-> of[heap.devices[i]]],
                 devices, [c \in devices |-> c])

\* A document that is a description: of one device, and with plain texts.
Conforming ==
  /\ elements # <<>> /\ elements[1].name = "root"
  /\ \E root \in DOMAIN elements : Named(1, "device") = {root}
  /\ \A e \in DOMAIN elements :
       elements[e].parent # 0 => elements[elements[e].parent].name \notin TextNames

-----------------------------------------------------------------------------
(***************************************************************************)
(* Properties.                                                             *)
(***************************************************************************)

\* The tree of devices a RootDevice ends up with is the one its description
\* document describes, with elements the handler does not know at any place:
\* every property, icon, service and embedded device is where the document has
\* it, none is missing, and the base URL is that of the root element.
DescriptionBuilt ==
  (outcome = "done" /\ Conforming) =>
    /\ mBaseUrl = TextOf(1, "URLBase")
    /\ rootDevice # 0
    /\ \E of \in [Below(rootDevice) -> {e \in Ended : elements[e].name = "device"}] :
         /\ of[rootDevice] \in Named(1, "device")
         /\ \A d \in Below(rootDevice) : Describes(of[d], d, of)
=============================================================================
