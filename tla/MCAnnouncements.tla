-------------------------- MODULE MCAnnouncements ---------------------------
(* Instances of Announcements for TLC. *)
EXTENDS Announcements, TLC

Alive(u, age) ==
  [http |-> TRUE, type |-> "NT", nts |-> "alive", uuid |-> u,
   location |-> TRUE, maxAge |-> age]
ByeBye(u) == [Alive(u, UnsetAge) EXCEPT !.nts = "byebye"]
Answer(u, age) == [Alive(u, age) EXCEPT !.type = "ST", !.nts = "none"]

\* Announcements whose interval fits into an int.
ShortLeases ==
  UNION {{Alive(u, UnsetAge), Alive(u, 1), Alive(u, 2), Alive(u, 3),
          ByeBye(u), Answer(u, 2)} : u \in Uuid}

Addresses == Permutations(Object)
=============================================================================
