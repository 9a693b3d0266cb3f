--------------------------- MODULE MCDeviceList -----------------------------
(* Instances of DeviceList for TLC. *)
EXTENDS DeviceList, TLC

CONSTANTS u1, u2

Alive(u, age) ==
  [http |-> TRUE, type |-> "NT", nts |-> "alive", uuid |-> u,
   location |-> TRUE, maxAge |-> age]
ByeBye(u) == [Alive(u, UnsetAge) EXCEPT !.nts = "byebye"]
Answer(u, age) == [Alive(u, age) EXCEPT !.type = "ST", !.nts = "none"]

SomeLeases ==
  UNION {{Alive(u, UnsetAge), Alive(u, 1), Alive(u, 2), Answer(u, 2), ByeBye(u)} : u \in Uuid}

OneRootDevice == u1 :> {"root1", "embedded1"}

\* Also leases of no time and, if IntMax is 7, of one that does not fit.
AllLeases == SomeLeases \cup UNION {{Alive(u, 0), Alive(u, 8)} : u \in Uuid}

\* Two root devices, one with an embedded device.
TwoRootDevices == u1 :> {"root1", "embedded1"} @@ u2 :> {"root2"}

\* One root device and the device embedded in it, which announces itself under
\* its own uuid but with the location of the root device's description.
RootAndEmbedded == u1 :> {"root1", "embedded1"} @@ u2 :> {"root1", "embedded1"}

Addresses == Permutations(Object)
=============================================================================
