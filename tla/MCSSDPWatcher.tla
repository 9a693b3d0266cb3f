--------------------------- MODULE MCSSDPWatcher ----------------------------
(* Instances of SSDPWatcher for TLC. *)
EXTENDS SSDPWatcher, TLC

\* A conforming announcement; the datagrams below vary it.
Alive(u, age) ==
  [http |-> TRUE, type |-> "NT", nts |-> "alive", uuid |-> u,
   location |-> TRUE, maxAge |-> age]
ByeBye(u) == [Alive(u, UnsetAge) EXCEPT !.nts = "byebye"]
Answer(u, age) == [Alive(u, age) EXCEPT !.type = "ST", !.nts = "none"]

\* No lease, leases of zero, one, three and five seconds, the last with an
\* interval that wraps around to a negative int if MsPerSec is 2; a search answer; a notification
\* that is neither alive nor byebye, and incomplete messages.
AllKinds ==
  UNION {{Alive(u, UnsetAge), Alive(u, 0), Alive(u, 1), Alive(u, 3), Alive(u, 5),
          ByeBye(u), Answer(u, 1)} : u \in Uuid}
  \cup {[Alive(u, 1) EXCEPT !.nts = "none"] : u \in Uuid}
  \cup {[ByeBye(u) EXCEPT !.location = FALSE] : u \in Uuid}
  \cup {Alive(NoUuid, 1)}

Addresses == Permutations(Object)
=============================================================================
