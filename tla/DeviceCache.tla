----------------------------- MODULE DeviceCache ----------------------------
(***************************************************************************)
(* What the service org.kde.Cagibi does as its D-Bus clients see it: root  *)
(* devices enter and leave a cache one at a time, and each time a signal   *)
(* says which names came or went.  No timer, download or object is left;   *)
(* Daemon implements this specification, and Client composes it with the   *)
(* bus and a client.                                                       *)
(***************************************************************************)
CONSTANTS
  Uuid,          \* root devices
  DescribedBy    \* uuid -> names in its description

VARIABLES
  serving,    \* the process runs
  entries,    \* uuids in the cache
  reported    \* names held by a client that has applied every signal

cacheVars == <<serving, entries, reported>>

\* What allDevices() returns.
Listed == UNION {DescribedBy[u] : u \in entries}

Init == serving = TRUE /\ entries = {} /\ reported = {}

-----------------------------------------------------------------------------
\* onDeviceDiscovered()
Appear(u) ==
  /\ serving
  /\ u \notin entries
  /\ entries' = entries \cup {u}
  /\ reported' = reported \cup DescribedBy[u]
  /\ UNCHANGED serving

\* onDeviceRemoved()
Vanish(u) ==
  /\ serving
  /\ u \in entries
  /\ entries' = entries \ {u}
  /\ reported' = reported \ DescribedBy[u]
  /\ UNCHANGED serving

\* onDeviceRemoved() for a device that has gone already: its cache timer fired
\* between the byebye and the deletion of the object.
VanishAgain(u) ==
  /\ serving
  /\ u \notin entries
  /\ reported' = reported \ DescribedBy[u]
  /\ UNCHANGED <<serving, entries>>

\* The destructor signs every device off, and the process ends.
SignOff ==
  /\ serving
  /\ serving' = FALSE
  /\ entries' = {}
  /\ reported' = reported \ Listed

\* The process dies, and clients see that the service has gone.
Crash ==
  /\ serving
  /\ serving' = FALSE
  /\ entries' = {}
  /\ reported' = {}

Start ==
  /\ ~ serving
  /\ serving' = TRUE
  /\ UNCHANGED <<entries, reported>>

Next ==
  \/ \E u \in Uuid : Appear(u) \/ Vanish(u) \/ VanishAgain(u)
  \/ SignOff
  \/ Crash
  \/ Start

Spec == Init /\ [][Next]_cacheVars
=============================================================================
