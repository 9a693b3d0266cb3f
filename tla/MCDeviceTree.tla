---------------------------- MODULE MCDeviceTree ----------------------------
(* Instances of DeviceTree for TLC. *)
EXTENDS DeviceTree

TypeOf(udn) == IF udn \in {"a", "b"} THEN "server" ELSE "renderer"

Node(udn, devices) == [udn |-> udn, type |-> TypeOf(udn), devices |-> devices]

Leaf(udn) == Node(udn, <<>>)

\* A device that uses the name of another one, with another type.
Impostor == [udn |-> "a", type |-> "renderer", devices |-> <<>>]

\* All trees of up to three devices and some of four, three levels deep, in
\* which no name occurs twice; and some with a name used for two devices.
AllShapes ==
  LET Distinct(n) == {s \in [1 .. n -> Udn] : IsInjective(s)} IN
    {Leaf(u) : u \in Udn}
    \cup {Node(s[1], <<Leaf(s[2])>>) : s \in Distinct(2)}
    \cup {Node(s[1], <<Leaf(s[2]), Leaf(s[3])>>) : s \in Distinct(3)}
    \cup {Node(s[1], <<Node(s[2], <<Leaf(s[3])>>)>>) : s \in Distinct(3)}
    \cup {Node(s[1], <<Node(s[2], <<Leaf(s[3])>>), Leaf(s[4])>>) : s \in Distinct(4)}
    \cup {Impostor, Node("b", <<Leaf("a"), Impostor>>), Node("a", <<Impostor, Leaf("b")>>)}

RECURSIVE HeightOf(_)
HeightOf(device) ==
  Max({0} \cup {HeightOf(device.devices[i]) + 1 : i \in DOMAIN device.devices})

Heights == [device \in AllShapes |-> HeightOf(device)]
=============================================================================
