------------------------ MODULE MCDescriptionHandler ------------------------
(* Instances of DescriptionMeaning for TLC. *)
EXTENDS DescriptionMeaning

Element(name, text, children) == [name |-> name, text |-> text, children |-> children]
Data(name, text) == Element(name, <<text>>, <<>>)
Group(name, children) == Element(name, NoText, children)

\* The calls that the reader makes for an element.
Start(name) == [call |-> "startElement", text |-> name]
End(name)   == [call |-> "endElement", text |-> name]
Text(piece) == [call |-> "characters", text |-> piece]

RECURSIVE Tags(_)
Tags(e) ==
  <<Start(e.name)>>
    \o [i \in DOMAIN e.text |-> Text(e.text[i])]
    \o FlattenSeq([i \in DOMAIN e.children |-> Tags(e.children[i])])
    \o <<End(e.name)>>

\* What may be in a device: the names that matter, a service, an element that
\* is not known with one in it that would be elsewhere, and text with an
\* element in it; and a name that is passed on in two pieces.
Unknown == Group("X_vendor", <<Data("UDN", "x"), Group("device", <<>>)>>)
Service(id) == Group("service", <<Data("serviceId", id), Data("SCPDURL", "s")>>)
OtherService ==
  Group("service", <<Data("serviceType", "t"), Data("controlURL", "c"), Data("eventSubURL", "e")>>)
Icons ==
  Group("iconList",
        <<Group("icon", <<Data("UDN", "i"), Data("url", "j"), Data("width", "48"),
                          Element("height", <<"4", "8">>, <<>>)>>),
          Group("icon", <<Data("mimetype", "m"), Data("depth", "24 bit")>>)>>)
Broken == Element("UDN", <<"y">>, <<Data("b", "z")>>)
InPieces(udn) == Element("UDN", <<"uuid:", udn>>, <<>>)

Contents(udn) ==
  {Data("UDN", udn), InPieces(udn), Data("deviceType", "server"), Data("friendlyName", "n"),
   Group("serviceList", <<Service("s1"), OtherService>>), Unknown, Icons, Broken}

Sequences(set, n) == UNION {[1 .. k -> set] : k \in 0 .. n}

Leaves(udn) == {Group("device", c) : c \in Sequences(Contents(udn), 2)}

\* A device with devices in it, which come before or after its own properties.
Parents(udn, devices) ==
  LET list == Group("deviceList", devices) IN
    {Group("device", <<list, Data("UDN", udn)>>), Group("device", <<Data("UDN", udn), list>>),
     Group("device", <<list, Broken>>),
     Group("device", <<Data("UDN", udn), list, Group("deviceList", <<Group("device", <<>>)>>)>>)}

Shallow == Leaves("a") \cup UNION {Parents("a", <<d>>) : d \in Leaves("b")}

Deep ==
  UNION {Parents("a", <<d, Group("device", <<Data("UDN", "d")>>)>>) :
           d \in UNION {Parents("b", <<e>>) : e \in Leaves("c")}}

Roots(d) ==
  {Group("root", <<d>>), Group("root", <<Group("specVersion", <<>>), d, Data("URLBase", "u")>>)}

\* A device with all properties.
Full ==
  LET keys == <<"deviceType", "friendlyName", "manufacturer", "modelDescription", "modelName",
                "modelNumber", "serialNumber", "UDN", "presentationURL">>
  IN  Group("device", [i \in DOMAIN keys |-> Data(keys[i], keys[i])])

SomeNumerals == <<"48">> :> 48 @@ <<"4", "8">> :> 48

SomeLocation == [host |-> <<"192.168.1.2">>, port |-> <<"-1">>]

AllDocuments ==
  UNION {Roots(d) : d \in Shallow \cup Deep \cup {Full}}
  \cup {Group("html", <<>>), Group("root", <<>>),
        Group("root", <<Group("device", <<Broken>>), Group("device", <<>>)>>)}

AllCalls == [d \in AllDocuments |-> Tags(d)]

AllPieces ==
  DeviceKeys \cup ServiceKeys \cup IconKeys
    \cup {"root", "html", "specVersion", "URLBase", "X_vendor", "device", "deviceList",
          "iconList", "icon", "serviceList", "service", "a", "b", "c", "d", "e", "i", "j", "m",
          "n", "s", "s1", "t", "u", "x", "y", "z", "server", "uuid:", "48", "4", "8", "24 bit"}
=============================================================================
