-------------------------- MODULE DeviceTree_proofs -------------------------
(***************************************************************************)
(* Proofs about DeviceTree: what the queries answer, for all descriptions, *)
(* however deep and wide, and whatever the order of the cache.             *)
(*                                                                         *)
(* Induction over the trees is by a counterexample of least height.        *)
(***************************************************************************)
EXTENDS DeviceTree, SequenceTheorems, WellFoundedInduction, TLAPS

-----------------------------------------------------------------------------
(***************************************************************************)
(* Recursive functions on a set whose elements have a height.              *)
(***************************************************************************)

\* Numbers that are wrong have a least one.
LEMMA NatMinimum ==
  ASSUME NEW T \in SUBSET Nat, T # {}
  PROVE  \E m \in T : \A n \in T : m <= n
<1> DEFINE R == {ss \in Nat \X Nat : ss[1] < ss[2]}
<1>1. IsWellFoundedOn(R, Nat)
  BY NatLessThanWellFounded DEF OpToRel
<1>2. \A x, y \in Nat : x < y => <<x, y>> \in R
  OBVIOUS
<1> HIDE DEF R
<1>3. PICK m \in T : \A n \in T : ~ (<<n, m>> \in R)
  BY <1>1, WFMin
<1>4. ASSUME NEW n \in T PROVE m <= n
  <2>1. ~ (n < m)
    BY <1>2, <1>3
  <2> QED
    BY <2>1
<1> QED
  BY <1>4

\* And so have elements of a set.
LEMMA Lowest ==
  ASSUME NEW S, NEW h \in [S -> Nat], NEW T \in SUBSET S, T # {}
  PROVE  \E x \in T : \A y \in S : h[y] < h[x] => y \notin T
<1> DEFINE heights == {h[x] : x \in T}
<1>1. heights \in SUBSET Nat /\ heights # {}
  OBVIOUS
<1>2. PICK m \in heights : \A n \in heights : m <= n
  BY <1>1, NatMinimum
<1>3. PICK x \in T : h[x] = m
  OBVIOUS
<1>4. ASSUME NEW y \in S, h[y] < h[x], y \in T PROVE FALSE
  <2>1. h[y] \in heights /\ h[y] \in Nat /\ m \in Nat
    BY <1>1, <1>4
  <2> HIDE DEF heights
  <2> QED
    BY <1>2, <1>3, <1>4, <2>1
<1> QED
  BY <1>4

\* The kids of an element are below it.
Descends(S, kids, h) ==
  /\ h \in [S -> Nat] /\ kids \in [S -> Seq(S)]
  /\ \A x \in S : \A i \in DOMAIN kids[x] : h[kids[x][i]] < h[x]

\* The values of f are made from those of the kids by step.
Follows(f, S, V, kids, step) ==
  /\ f \in [S -> V]
  /\ \A x \in S : f[x] = step[<<x, [i \in DOMAIN kids[x] |-> f[kids[x][i]]]>>]

LEMMA Recursion ==
  ASSUME NEW S, NEW V, NEW h, NEW kids, Descends(S, kids, h),
         NEW step \in [S \X Seq(V) -> V]
  PROVE  \E f : Follows(f, S, V, kids, step)
<1> DEFINE Under(n) == {x \in S : h[x] < n}
           Value(f, x) == step[<<x, [i \in DOMAIN kids[x] |-> f[kids[x][i]]]>>]
           Solves(f, n) == f \in [Under(n) -> V] /\ \A x \in Under(n) : f[x] = Value(f, x)
<1> USE DEF Descends
<1>1. \A x \in S : /\ h[x] \in Nat
                   /\ \A i \in DOMAIN kids[x] : kids[x][i] \in S /\ h[kids[x][i]] < h[x]
  BY ElementOfSeq, LenProperties
<1>2. ASSUME NEW x \in S, NEW f, \A i \in DOMAIN kids[x] : f[kids[x][i]] \in V
      PROVE  Value(f, x) \in V
  <2>1. Len(kids[x]) \in Nat /\ DOMAIN kids[x] = 1 .. Len(kids[x])
    BY LenProperties
  <2>2. [i \in DOMAIN kids[x] |-> f[kids[x][i]]] \in Seq(V)
    BY <1>2, <2>1
  <2> QED
    BY <2>2
<1>3. ASSUME NEW f, NEW g, NEW m \in Nat, NEW n \in Nat, Solves(f, m), Solves(g, n)
      PROVE  \A x \in Under(m) \cap Under(n) : f[x] = g[x]
  <2> DEFINE T == {x \in Under(m) \cap Under(n) : f[x] # g[x]}
  <2> SUFFICES ASSUME T # {} PROVE FALSE
    OBVIOUS
  <2>1. PICK x \in T : \A y \in S : h[y] < h[x] => y \notin T
    <3>1. T \in SUBSET S
      OBVIOUS
    <3> HIDE DEF T
    <3> QED
      BY <3>1, Lowest
  <2>2. x \in S /\ x \in Under(m) /\ x \in Under(n) /\ f[x] # g[x]
    OBVIOUS
  <2>3. ASSUME NEW i \in DOMAIN kids[x] PROVE f[kids[x][i]] = g[kids[x][i]]
    <3>1. kids[x][i] \in S /\ h[kids[x][i]] < h[x] /\ h[x] < m /\ h[x] < n
      BY <1>1, <2>2
    <3>2. h[kids[x][i]] \in Nat /\ h[x] \in Nat
      BY <1>1, <2>2, <3>1
    <3>3. kids[x][i] \in Under(m) \cap Under(n)
      BY <3>1, <3>2
    <3> QED
      BY <2>1, <3>1, <3>3
  <2>4. Value(f, x) = Value(g, x)
    BY <2>3
  <2> QED
    BY <1>3, <2>2, <2>4
<1>4. \A n \in Nat : \E f : Solves(f, n)
  <2> DEFINE T == {n \in Nat : ~ \E f : Solves(f, n)}
  <2> SUFFICES ASSUME T # {} PROVE FALSE
    OBVIOUS
  <2>1. PICK m \in T : \A n \in T : m <= n
    <3>1. T \in SUBSET Nat
      OBVIOUS
    <3> HIDE DEF T
    <3> QED
      BY <3>1, NatMinimum
  <2>2. m \in Nat /\ ~ \E f : Solves(f, m)
    OBVIOUS
  <2>3. CASE m = 0
    <3>1. Under(m) = {}
      <4>1. \A x \in S : h[x] \in Nat
        OBVIOUS
      <4> QED
        BY <2>3, <4>1
    <3>2. Solves([x \in {} |-> 0], m)
      BY <3>1
    <3> QED
      BY <2>2, <3>2
  <2>4. CASE m # 0
    <3>1. m - 1 \in Nat /\ m - 1 \notin T
      <4>1. m - 1 \in Nat /\ ~ (m <= m - 1)
        BY <2>2, <2>4
      <4> HIDE DEF T
      <4> QED
        BY <2>1, <4>1
    <3>2. PICK f : Solves(f, m - 1)
      BY <3>1
    <3> DEFINE g == [x \in Under(m) |-> Value(f, x)]
    <3>3. ASSUME NEW x \in Under(m), NEW i \in DOMAIN kids[x]
          PROVE  kids[x][i] \in Under(m - 1) /\ kids[x][i] \in Under(m)
      <4>1. x \in S /\ h[x] < m /\ h[x] \in Nat
        BY <1>1
      <4>2. kids[x][i] \in S /\ h[kids[x][i]] < h[x] /\ h[kids[x][i]] \in Nat
        BY <1>1, <3>3, <4>1
      <4> QED
        BY <2>2, <4>1, <4>2
    <3>4. \A y \in Under(m - 1) : f[y] \in V /\ f[y] = Value(f, y)
      BY <3>2
    <3>5. \A x \in Under(m) : Value(f, x) \in V
      <4> SUFFICES ASSUME NEW x \in Under(m) PROVE Value(f, x) \in V
        OBVIOUS
      <4>1. \A i \in DOMAIN kids[x] : f[kids[x][i]] \in V
        BY <3>3, <3>4
      <4> HIDE DEF Value
      <4> QED
        BY <1>2, <4>1
    <3>6. \A x \in Under(m) : \A i \in DOMAIN kids[x] : g[kids[x][i]] = f[kids[x][i]]
      <4> HIDE DEF Value
      <4> QED
        BY <3>3, <3>4
    <3>7. \A x \in Under(m) : Value(g, x) = Value(f, x)
      <4> HIDE DEF g
      <4> QED
        BY <3>6
    <3>8. Solves(g, m)
      <4> HIDE DEF Value, Under
      <4> QED
        BY <3>5, <3>7
    <3> QED
      BY <2>2, <3>8
  <2> QED
    BY <2>3, <2>4
<1> DEFINE Some(x) == CHOOSE f : Solves(f, h[x] + 1)
           F == [x \in S |-> Some(x)[x]]
<1>5. \A x \in S : Solves(Some(x), h[x] + 1) /\ x \in Under(h[x] + 1)
  <2> HIDE DEF Solves
  <2> QED
    BY <1>1, <1>4
<1>6. ASSUME NEW x \in S, NEW i \in DOMAIN kids[x]
      PROVE  F[kids[x][i]] = Some(x)[kids[x][i]]
  <2> DEFINE y == kids[x][i]
  <2>1. y \in S /\ h[y] < h[x] /\ h[x] \in Nat /\ h[y] \in Nat
    BY <1>1, <1>6
  <2>2. y \in Under(h[x] + 1) /\ y \in Under(h[y] + 1) /\ h[x] + 1 \in Nat /\ h[y] + 1 \in Nat
    BY <2>1
  <2>3. Solves(Some(x), h[x] + 1) /\ Solves(Some(y), h[y] + 1)
    BY <1>5, <2>1
  <2> HIDE DEF Solves, Some, Under, y
  <2>4. Some(x)[y] = Some(y)[y]
    BY <1>3, <2>2, <2>3
  <2> QED
    BY <2>1, <2>4 DEF y
<1>7. \A x \in S : F[x] \in V /\ F[x] = Value(F, x)
  <2> SUFFICES ASSUME NEW x \in S PROVE F[x] \in V /\ F[x] = Value(F, x)
    OBVIOUS
  <2>1. F[x] = Some(x)[x] /\ Some(x)[x] \in V /\ Some(x)[x] = Value(Some(x), x)
    <3> HIDE DEF Value, Some, Under
    <3> QED
      BY <1>5
  <2>2. Value(F, x) = Value(Some(x), x)
    <3> HIDE DEF F, Some
    <3> QED
      BY <1>6
  <2> QED
    BY <2>1, <2>2
<1>8. F \in [S -> V]
  <2> HIDE DEF Value, Some
  <2> QED
    BY <1>7
<1> QED
  <2> HIDE DEF F
  <2> QED
    BY <1>7, <1>8 DEF Follows
-----------------------------------------------------------------------------
(***************************************************************************)
(* The first and the last place in a sequence.                             *)
(***************************************************************************)
LEMMA MinPlace ==
  ASSUME NEW n \in Nat, NEW I \in SUBSET (1 .. n), I # {}
  PROVE  Min(I) \in I /\ \A i \in I : Min(I) <= i
<1>1. I \in SUBSET Nat
  OBVIOUS
<1>2. \E m \in I : \A i \in I : m <= i
  BY <1>1, NatMinimum
<1> QED
  BY <1>2 DEF Min

LEMMA MaxPlace ==
  ASSUME NEW n \in Nat, NEW I \in SUBSET (1 .. n), I # {}
  PROVE  Max(I) \in I /\ \A i \in I : Max(I) >= i
<1> DEFINE T == {n - i : i \in I}
<1>1. \A i \in I : i \in Nat /\ n - i \in Nat
  OBVIOUS
<1>2. T \in SUBSET Nat /\ T # {}
  BY <1>1
<1>3. PICK t \in T : \A u \in T : t <= u
  <2> HIDE DEF T
  <2> QED
    BY <1>2, NatMinimum
<1>4. PICK m \in I : t = n - m
  OBVIOUS
<1>5. ASSUME NEW i \in I PROVE m >= i
  <2>1. n - i \in T
    OBVIOUS
  <2>2. n - m <= n - i
    BY <1>3, <1>4, <2>1
  <2> QED
    BY <1>1, <1>4, <1>5, <2>2
<1>6. \E x \in I : \A y \in I : x >= y
  BY <1>4, <1>5
<1> QED
  BY <1>6 DEF Max

-----------------------------------------------------------------------------
(***************************************************************************)
(* Maps.                                                                   *)
(***************************************************************************)
Map == UNION {[names -> DeviceTypes] : names \in SUBSET Udn}

\* What is in a map comes from one of those that were inserted, and everything
\* in those is in it.
LEMMA InsertedFrom ==
  ASSUME NEW S, NEW maps \in Seq(S)
  PROVE  /\ DOMAIN Inserted(maps) = UNION {DOMAIN maps[i] : i \in DOMAIN maps}
         /\ \A udn \in DOMAIN Inserted(maps) :
              \E i \in DOMAIN maps : udn \in DOMAIN maps[i] /\ Inserted(maps)[udn] = maps[i][udn]
<1>1. DOMAIN Inserted(maps) = UNION {DOMAIN maps[i] : i \in DOMAIN maps}
  BY DEF Inserted
<1>2. Len(maps) \in Nat /\ DOMAIN maps = 1 .. Len(maps)
  BY LenProperties
<1>3. ASSUME NEW udn \in DOMAIN Inserted(maps)
      PROVE  \E i \in DOMAIN maps : udn \in DOMAIN maps[i] /\ Inserted(maps)[udn] = maps[i][udn]
  <2> DEFINE I == {i \in 1 .. Len(maps) : udn \in DOMAIN maps[i]}
  <2>1. I \in SUBSET (1 .. Len(maps)) /\ I # {}
    BY <1>1, <1>2, <1>3
  <2>2. Max(I) \in I
    <3> HIDE DEF I
    <3> QED
      BY <1>2, <2>1, MaxPlace
  <2>3. Inserted(maps)[udn] = maps[Max(I)][udn]
    BY <1>1, <1>3, <2>1 DEF Inserted, SelectLastInSeq
  <2> QED
    BY <1>2, <2>2, <2>3
<1> QED
  BY <1>1, <1>3

LEMMA InsertedType ==
  ASSUME NEW maps \in Seq(Map)
  PROVE  Inserted(maps) \in Map
<1> DEFINE map == Inserted(maps)
<1>1. /\ DOMAIN map = UNION {DOMAIN maps[i] : i \in DOMAIN maps}
      /\ \A udn \in DOMAIN map :
           \E i \in DOMAIN maps : udn \in DOMAIN maps[i] /\ map[udn] = maps[i][udn]
  BY InsertedFrom
<1>2. \A i \in DOMAIN maps : /\ DOMAIN maps[i] \subseteq Udn
                             /\ \A udn \in DOMAIN maps[i] : maps[i][udn] \in DeviceTypes
  <2> SUFFICES ASSUME NEW i \in DOMAIN maps
               PROVE  /\ DOMAIN maps[i] \subseteq Udn
                      /\ \A udn \in DOMAIN maps[i] : maps[i][udn] \in DeviceTypes
    OBVIOUS
  <2>1. maps[i] \in Map
    BY ElementOfSeq, LenProperties
  <2> QED
    BY <2>1 DEF Map
<1>3. DOMAIN map \in SUBSET Udn /\ \A udn \in DOMAIN map : map[udn] \in DeviceTypes
  <2> HIDE DEF map
  <2> QED
    BY <1>1, <1>2
<1>4. map = [udn \in DOMAIN map |-> map[udn]]
  BY DEF Inserted
<1>5. map \in [DOMAIN map -> DeviceTypes]
  <2> HIDE DEF map
  <2> QED
    BY <1>3, <1>4
<1> QED
  BY <1>3, <1>5 DEF Map

\* If each map describes a set of devices, the map of all entries describes
\* all of them.
LEMMA InsertedDescribes ==
  ASSUME NEW S, NEW maps \in Seq(S), NEW sets,
         \A i \in DOMAIN maps : Describes(maps[i], sets[i])
  PROVE  Describes(Inserted(maps), UNION {sets[i] : i \in DOMAIN maps})
<1> DEFINE map == Inserted(maps)
           all == UNION {sets[i] : i \in DOMAIN maps}
<1>1. /\ DOMAIN map = UNION {DOMAIN maps[i] : i \in DOMAIN maps}
      /\ \A udn \in DOMAIN map :
           \E i \in DOMAIN maps : udn \in DOMAIN maps[i] /\ map[udn] = maps[i][udn]
  BY InsertedFrom
<1> HIDE DEF map
<1>2. \A i \in DOMAIN maps :
        /\ DOMAIN maps[i] = {d.udn : d \in sets[i]}
        /\ \A udn \in DOMAIN maps[i] : \E d \in sets[i] : d.udn = udn /\ d.type = maps[i][udn]
  BY DEF Describes
<1>3. ASSUME NEW udn \in DOMAIN map PROVE \E d \in all : d.udn = udn /\ d.type = map[udn]
  <2>1. PICK i \in DOMAIN maps : udn \in DOMAIN maps[i] /\ map[udn] = maps[i][udn]
    BY <1>1
  <2>2. PICK d \in sets[i] : d.udn = udn /\ d.type = maps[i][udn]
    BY <1>2, <2>1
  <2> QED
    BY <2>1, <2>2
<1>4. ASSUME NEW d \in all PROVE d.udn \in DOMAIN map
  <2>1. PICK i \in DOMAIN maps : d \in sets[i]
    OBVIOUS
  <2>2. DOMAIN maps[i] = {e.udn : e \in sets[i]}
    BY <1>2
  <2>3. d.udn \in DOMAIN maps[i]
    BY <2>1, <2>2
  <2> QED
    BY <1>1, <2>1, <2>3
<1>5. DOMAIN map = {d.udn : d \in all}
  <2> HIDE DEF all
  <2> QED
    BY <1>3, <1>4
<1> QED
  BY <1>3, <1>5 DEF Describes, map

LEMMA EntryDescribes ==
  ASSUME NEW d \in Device
  PROVE  Entry(d) \in Map /\ Describes(Entry(d), {d})
<1>1. d.udn \in Udn /\ d.type \in DeviceTypes
  BY DeviceAssumption
<1>2. Entry(d) \in [{d.udn} -> DeviceTypes] /\ {d.udn} \in SUBSET Udn
  BY <1>1 DEF Entry
<1> QED
  BY <1>2 DEF Map, Entry, Describes
-----------------------------------------------------------------------------
(***************************************************************************)
(* The devices of a tree: the least set that has the device and, with      *)
(* each device, those embedded in it.                                      *)
(***************************************************************************)
Closed(S) == \A p \in S : \A i \in DOMAIN p.devices : p.devices[i] \in S

Within(d) == {e \in Device : \A S \in SUBSET Device : d \in S /\ Closed(S) => e \in S}

LEMMA DeviceParts ==
  ASSUME NEW d \in Device
  PROVE  /\ d.udn \in Udn /\ d.type \in DeviceTypes /\ d.devices \in Seq(Device)
         /\ Len(d.devices) \in Nat /\ DOMAIN d.devices = 1 .. Len(d.devices)
         /\ \A i \in DOMAIN d.devices :
              d.devices[i] \in Device /\ Height[d.devices[i]] < Height[d]
  BY DeviceAssumption, LenProperties, ElementOfSeq

LEMMA WithinSteps ==
  ASSUME NEW d \in Device
  PROVE  Within(d) = {d} \cup UNION {Within(d.devices[i]) : i \in DOMAIN d.devices}
<1> DEFINE all == {d} \cup UNION {Within(d.devices[i]) : i \in DOMAIN d.devices}
<1>1. \A i \in DOMAIN d.devices : d.devices[i] \in Device
  BY DeviceParts
<1>2. \A e \in Device : Within(e) \subseteq Device /\ e \in Within(e)
  BY DEF Within
<1>3. \A e \in Device : Closed(Within(e))
  <2> SUFFICES ASSUME NEW e \in Device, NEW p \in Within(e), NEW i \in DOMAIN p.devices
               PROVE  p.devices[i] \in Within(e)
    BY DEF Closed
  <2>1. p \in Device /\ p.devices[i] \in Device
    BY <1>2, DeviceParts
  <2>2. ASSUME NEW S \in SUBSET Device, e \in S, Closed(S) PROVE p.devices[i] \in S
    BY <2>2 DEF Closed, Within
  <2> QED
    BY <2>1, <2>2 DEF Within
<1>4. all \in SUBSET Device /\ d \in all
  BY <1>1, <1>2
<1>5. Closed(all)
  <2> SUFFICES ASSUME NEW p \in all, NEW i \in DOMAIN p.devices
               PROVE  p.devices[i] \in all
    BY DEF Closed
  <2>1. CASE p = d
    BY <1>1, <1>2, <2>1
  <2>2. CASE p # d
    <3>1. PICK j \in DOMAIN d.devices : p \in Within(d.devices[j])
      BY <2>2
    <3>2. p.devices[i] \in Within(d.devices[j])
      BY <1>1, <1>3, <3>1 DEF Closed
    <3> QED
      BY <3>2
  <2> QED
    BY <2>1, <2>2
<1>6. Within(d) \subseteq all
  <2> HIDE DEF all
  <2> QED
    BY <1>4, <1>5 DEF Within
<1>7. ASSUME NEW i \in DOMAIN d.devices, NEW e \in Within(d.devices[i])
      PROVE  e \in Within(d)
  <2>1. e \in Device
    BY <1>1, <1>2
  <2>2. ASSUME NEW S \in SUBSET Device, d \in S, Closed(S) PROVE e \in S
    <3>1. d.devices[i] \in S
      BY <2>2 DEF Closed
    <3> QED
      BY <2>2, <3>1 DEF Within
  <2> QED
    BY <2>1, <2>2 DEF Within
<1>8. all \subseteq Within(d)
  BY <1>2, <1>7
<1> QED
  BY <1>6, <1>8

-----------------------------------------------------------------------------
(***************************************************************************)
(* The walks.                                                              *)
(***************************************************************************)
Kids == [d \in Device |-> d.devices]

LEMMA KidsDescend == Descends(Device, Kids, Height) /\ \A d \in Device : Kids[d] = d.devices
<1>1. Height \in [Device -> Nat]
  <2>1. \A d \in Device : Height[d] \in Nat
    BY DeviceAssumption
  <2> QED
    BY <2>1, DeviceAssumption
<1>2. Kids \in [Device -> Seq(Device)] /\ \A d \in Device : Kids[d] = d.devices
  BY DeviceAssumption DEF Kids
<1>3. \A d \in Device : \A i \in DOMAIN Kids[d] : Height[Kids[d][i]] < Height[d]
  BY <1>2, DeviceAssumption
<1> QED
  BY <1>1, <1>2, <1>3 DEF Descends

LEMMA TreeRecursion ==
  ASSUME NEW V, NEW step \in [Device \X Seq(V) -> V]
  PROVE  \E f : Follows(f, Device, V, Kids, step)
  BY KidsDescend, Recursion

\* What holds of a device if it holds of those embedded in it holds of all.
LEMMA TreeInduction ==
  ASSUME NEW T,
         \A d \in Device : (\A i \in DOMAIN d.devices : d.devices[i] \in T) => d \in T
  PROVE  Device \subseteq T
<1> DEFINE others == {d \in Device : d \notin T}
<1> SUFFICES ASSUME others # {} PROVE FALSE
  OBVIOUS
<1>1. Height \in [Device -> Nat]
  BY KidsDescend DEF Descends
<1>2. PICK d \in others : \A e \in Device : Height[e] < Height[d] => e \notin others
  <2>1. others \in SUBSET Device
    OBVIOUS
  <2> HIDE DEF others
  <2> QED
    BY <1>1, <2>1, Lowest
<1>3. \A i \in DOMAIN d.devices : d.devices[i] \in T
  BY <1>2, DeviceParts
<1> QED
  BY <1>3

\* The entry of a device in front of the maps of those embedded in it.
LEMMA EntryFirst ==
  ASSUME NEW d \in Device, NEW maps \in Seq(Map)
  PROVE  /\ <<Entry(d)>> \o maps \in Seq(Map)
         /\ DOMAIN (<<Entry(d)>> \o maps) = 1 .. Len(maps) + 1
         /\ (<<Entry(d)>> \o maps)[1] = Entry(d)
         /\ \A i \in 1 .. Len(maps) : (<<Entry(d)>> \o maps)[i + 1] = maps[i]
         /\ Len(maps) \in Nat /\ DOMAIN maps = 1 .. Len(maps)
<1> DEFINE e == <<Entry(d)>>
<1>1. e \in Seq(Map) /\ Len(e) = 1 /\ e[1] = Entry(d)
  <2>1. Entry(d) \in Map
    BY EntryDescribes
  <2> QED
    BY <2>1
<1>2. Len(maps) \in Nat /\ DOMAIN maps = 1 .. Len(maps)
  BY LenProperties
<1> HIDE DEF e
<1>3. /\ e \o maps \in Seq(Map) /\ Len(e \o maps) = 1 + Len(maps)
      /\ \A i \in 1 .. 1 + Len(maps) : (e \o maps)[i] = IF i <= 1 THEN e[i] ELSE maps[i - 1]
  <2>1. e \o maps \in Seq(Map) /\ Len(e \o maps) = Len(e) + Len(maps)
    BY <1>1, ConcatProperties
  <2>2. \A i \in 1 .. Len(e) + Len(maps) :
          (e \o maps)[i] = IF i <= Len(e) THEN e[i] ELSE maps[i - Len(e)]
    BY <1>1, ConcatProperties
  <2> QED
    BY <1>1, <2>1, <2>2
<1>4. DOMAIN (e \o maps) = 1 .. Len(maps) + 1
  BY <1>2, <1>3, LenProperties
<1>5. (e \o maps)[1] = Entry(d)
  BY <1>1, <1>2, <1>3
<1>6. \A i \in 1 .. Len(maps) : (e \o maps)[i + 1] = maps[i]
  BY <1>2, <1>3
<1> QED
  BY <1>2, <1>3, <1>4, <1>5, <1>6 DEF e

LEMMA FillMapDefined ==
  /\ fillMap \in [Device -> Map]
  /\ \A d \in Device :
       fillMap[d] = FillMap(d, [i \in DOMAIN d.devices |-> fillMap[d.devices[i]]])
<1> DEFINE step == [p \in Device \X Seq(Map) |-> FillMap(p[1], p[2])]
           Value(f, d) == FillMap(d, [i \in DOMAIN d.devices |-> f[d.devices[i]]])
<1>1. step \in [Device \X Seq(Map) -> Map]
  <2> SUFFICES ASSUME NEW d \in Device, NEW maps \in Seq(Map) PROVE FillMap(d, maps) \in Map
    OBVIOUS
  <2> QED
    BY EntryFirst, InsertedType DEF FillMap
<1>2. PICK f : Follows(f, Device, Map, Kids, step)
  <2> HIDE DEF step
  <2> QED
    BY <1>1, TreeRecursion
<1>3. \A d \in Device : f[d] = Value(f, d)
  <2> SUFFICES ASSUME NEW d \in Device PROVE f[d] = Value(f, d)
    OBVIOUS
  <2>1. [i \in DOMAIN d.devices |-> f[d.devices[i]]] \in Seq(Map)
    BY <1>2, DeviceParts DEF Follows
  <2>2. f[d] = step[<<d, [i \in DOMAIN d.devices |-> f[d.devices[i]]]>>]
    <3> HIDE DEF step
    <3> QED
      BY <1>2, KidsDescend DEF Follows
  <2> QED
    BY <2>1, <2>2
<1>4. f = [d \in Device |-> Value(f, d)]
  <2> HIDE DEF Value
  <2> QED
    BY <1>2, <1>3 DEF Follows
<1>5. fillMap = [d \in Device |-> Value(fillMap, d)]
  BY <1>4 DEF fillMap
<1>6. \A d \in Device : fillMap[d] = Value(fillMap, d)
  <2> HIDE DEF Value
  <2> QED
    BY <1>5
<1>7. fillMap \in [Device -> Map]
  <2> DEFINE T == {d \in Device : fillMap[d] \in Map}
  <2>1. ASSUME NEW d \in Device, \A i \in DOMAIN d.devices : d.devices[i] \in T
        PROVE  d \in T
    <3>1. [i \in DOMAIN d.devices |-> fillMap[d.devices[i]]] \in Seq(Map)
      BY <2>1, DeviceParts
    <3>2. Value(fillMap, d) \in Map
      BY <3>1, EntryFirst, InsertedType DEF FillMap
    <3> QED
      BY <1>6, <3>2
  <2>2. Device \subseteq T
    <3> HIDE DEF T
    <3> QED
      BY <2>1, TreeInduction
  <2> QED
    BY <1>5, <2>2
<1> QED
  BY <1>6, <1>7
LEMMA FillMapByTypeDefined ==
  /\ fillMapByType \in [Device -> [DeviceTypes -> Map]]
  /\ \A d \in Device : \A type \in DeviceTypes :
       fillMapByType[d][type] =
         FillMapByType(d, type, [i \in DOMAIN d.devices |-> fillMapByType[d.devices[i]][type]])
<1> DEFINE V == [DeviceTypes -> Map]
           ByType(d, maps) ==
             [type \in DeviceTypes |-> FillMapByType(d, type, [i \in DOMAIN maps |-> maps[i][type]])]
           step == [p \in Device \X Seq(V) |-> ByType(p[1], p[2])]
           Value(f, d) ==
             [type \in DeviceTypes |->
                FillMapByType(d, type, [i \in DOMAIN d.devices |-> f[d.devices[i]][type]])]
<1>1. ASSUME NEW d \in Device, NEW type \in DeviceTypes, NEW maps \in Seq(Map)
      PROVE  FillMapByType(d, type, maps) \in Map
  BY EntryFirst, InsertedType DEF FillMapByType
<1>2. ASSUME NEW maps \in Seq(V), NEW type \in DeviceTypes
      PROVE  [i \in DOMAIN maps |-> maps[i][type]] \in Seq(Map)
  <2>1. Len(maps) \in Nat /\ DOMAIN maps = 1 .. Len(maps) /\ \A i \in 1 .. Len(maps) : maps[i] \in V
    BY LenProperties, ElementOfSeq
  <2>2. \A i \in 1 .. Len(maps) : maps[i][type] \in Map
    BY <2>1
  <2> QED
    BY <2>1, <2>2
<1>3. step \in [Device \X Seq(V) -> V]
  <2>1. ASSUME NEW d \in Device, NEW maps \in Seq(V) PROVE ByType(d, maps) \in V
    BY <1>1, <1>2
  <2> HIDE DEF V, ByType
  <2> QED
    BY <2>1
<1>4. PICK f : Follows(f, Device, V, Kids, step)
  <2> HIDE DEF step, V
  <2> QED
    BY <1>3, TreeRecursion
<1>5. f \in [Device -> V]
  BY <1>4 DEF Follows
<1>6. \A d \in Device : f[d] = Value(f, d)
  <2> SUFFICES ASSUME NEW d \in Device PROVE f[d] = Value(f, d)
    OBVIOUS
  <2> DEFINE maps == [i \in DOMAIN d.devices |-> f[d.devices[i]]]
  <2>1. maps \in Seq(V)
    <3> HIDE DEF V
    <3> QED
      BY <1>5, DeviceParts
  <2>2. f[d] = step[<<d, maps>>]
    <3> HIDE DEF step
    <3> QED
      BY <1>4, KidsDescend DEF Follows
  <2>3. f[d] = ByType(d, maps)
    <3> HIDE DEF V, maps, ByType
    <3> QED
      BY <2>1, <2>2
  <2>4. ByType(d, maps) = Value(f, d)
    OBVIOUS
  <2> QED
    BY <2>3, <2>4
<1>7. f = [d \in Device |-> Value(f, d)]
  <2> HIDE DEF Value, V
  <2> QED
    BY <1>5, <1>6
<1>8. fillMapByType = [d \in Device |-> Value(fillMapByType, d)]
  BY <1>7 DEF fillMapByType
<1>9. \A d \in Device : fillMapByType[d] = Value(fillMapByType, d)
  <2> HIDE DEF Value
  <2> QED
    BY <1>8
<1>10. Device \subseteq {d \in Device : fillMapByType[d] \in V}
  <2> DEFINE T == {d \in Device : fillMapByType[d] \in V}
  <2>1. ASSUME NEW d \in Device, \A i \in DOMAIN d.devices : d.devices[i] \in T
        PROVE  d \in T
    <3>1. ASSUME NEW type \in DeviceTypes
          PROVE  [i \in DOMAIN d.devices |-> fillMapByType[d.devices[i]][type]] \in Seq(Map)
      <4>1. \A i \in DOMAIN d.devices : fillMapByType[d.devices[i]][type] \in Map
        BY <2>1
      <4> QED
        BY <4>1, DeviceParts
    <3>2. Value(fillMapByType, d) \in V
      BY <1>1, <3>1
    <3> QED
      BY <1>9, <3>2
  <2> HIDE DEF T
  <2> QED
    BY <2>1, TreeInduction DEF T
<1>11. fillMapByType \in [Device -> V]
  <2> HIDE DEF Value, V
  <2> QED
    BY <1>8, <1>10
<1> QED
  BY <1>9, <1>11

\* FirstFound() gives the first result that is a device.
LEMMA FirstFoundFrom ==
  ASSUME NEW results \in Seq(Device \cup {NoDevice})
  PROVE  IF \E i \in DOMAIN results : results[i] # NoDevice
         THEN \E i \in DOMAIN results : results[i] # NoDevice /\ FirstFound(results) = results[i]
         ELSE FirstFound(results) = NoDevice
<1> DEFINE I == {i \in 1 .. Len(results) : results[i] # NoDevice}
<1>1. Len(results) \in Nat /\ DOMAIN results = 1 .. Len(results)
  BY LenProperties
<1>2. FirstFound(results) = LET i == IF I # {} THEN Min(I) ELSE 0
                            IN  IF i = 0 THEN NoDevice ELSE results[i]
  BY DEF FirstFound, SelectInSeq
<1>3. CASE I = {}
  BY <1>1, <1>2, <1>3
<1>4. CASE I # {}
  <2>1. Min(I) \in I
    <3>1. I \in SUBSET (1 .. Len(results))
      OBVIOUS
    <3> HIDE DEF I
    <3> QED
      BY <1>1, <1>4, <3>1, MinPlace
  <2>2. Min(I) \in 1 .. Len(results) /\ results[Min(I)] # NoDevice /\ Min(I) # 0
    BY <1>1, <2>1
  <2> HIDE DEF I
  <2> QED
    BY <1>1, <1>2, <1>4, <2>2
<1> QED
  BY <1>3, <1>4

LEMMA FindDefined ==
  /\ find \in [Device -> [Udn -> Device \cup {NoDevice}]]
  /\ \A d \in Device : \A udn \in Udn :
       find[d][udn] = Find(d, udn, [i \in DOMAIN d.devices |-> find[d.devices[i]][udn]])
<1> DEFINE Result == Device \cup {NoDevice}
           V == [Udn -> Result]
           Found(d, results) ==
             [udn \in Udn |-> Find(d, udn, [i \in DOMAIN results |-> results[i][udn]])]
           step == [p \in Device \X Seq(V) |-> Found(p[1], p[2])]
           Value(f, d) ==
             [udn \in Udn |-> Find(d, udn, [i \in DOMAIN d.devices |-> f[d.devices[i]][udn]])]
<1>1. ASSUME NEW d \in Device, NEW udn \in Udn, NEW results \in Seq(Result)
      PROVE  Find(d, udn, results) \in Result
  <2> HIDE DEF Result
  <2>1. FirstFound(results) \in Result
    BY FirstFoundFrom DEF Result
  <2> QED
    BY <2>1 DEF Find, Result
<1>2. ASSUME NEW results \in Seq(V), NEW udn \in Udn
      PROVE  [i \in DOMAIN results |-> results[i][udn]] \in Seq(Result)
  <2> HIDE DEF Result
  <2>1. /\ Len(results) \in Nat /\ DOMAIN results = 1 .. Len(results)
        /\ \A i \in 1 .. Len(results) : results[i] \in V
    BY LenProperties, ElementOfSeq
  <2>2. \A i \in 1 .. Len(results) : results[i][udn] \in Result
    BY <2>1
  <2> QED
    BY <2>1, <2>2
<1>3. step \in [Device \X Seq(V) -> V]
  <2>1. ASSUME NEW d \in Device, NEW results \in Seq(V) PROVE Found(d, results) \in V
    <3> HIDE DEF Result
    <3> QED
      BY <1>1, <1>2
  <2> HIDE DEF V, Found
  <2> QED
    BY <2>1
<1>4. PICK f : Follows(f, Device, V, Kids, step)
  <2> HIDE DEF step, V
  <2> QED
    BY <1>3, TreeRecursion
<1>5. f \in [Device -> V]
  BY <1>4 DEF Follows
<1>6. \A d \in Device : f[d] = Value(f, d)
  <2> SUFFICES ASSUME NEW d \in Device PROVE f[d] = Value(f, d)
    OBVIOUS
  <2> DEFINE results == [i \in DOMAIN d.devices |-> f[d.devices[i]]]
  <2>1. results \in Seq(V)
    <3> HIDE DEF V
    <3> QED
      BY <1>5, DeviceParts
  <2>2. f[d] = step[<<d, results>>]
    <3> HIDE DEF step
    <3> QED
      BY <1>4, KidsDescend DEF Follows
  <2>3. f[d] = Found(d, results)
    <3> HIDE DEF V, results, Found
    <3> QED
      BY <2>1, <2>2
  <2>4. Found(d, results) = Value(f, d)
    OBVIOUS
  <2> QED
    BY <2>3, <2>4
<1>7. f = [d \in Device |-> Value(f, d)]
  <2> HIDE DEF Value, V
  <2> QED
    BY <1>5, <1>6
<1>8. find = [d \in Device |-> Value(find, d)]
  BY <1>7 DEF find
<1>9. \A d \in Device : find[d] = Value(find, d)
  <2> HIDE DEF Value
  <2> QED
    BY <1>8
<1>10. Device \subseteq {d \in Device : find[d] \in V}
  <2> DEFINE T == {d \in Device : find[d] \in V}
  <2>1. ASSUME NEW d \in Device, \A i \in DOMAIN d.devices : d.devices[i] \in T
        PROVE  d \in T
    <3> HIDE DEF Result
    <3>1. ASSUME NEW udn \in Udn
          PROVE  [i \in DOMAIN d.devices |-> find[d.devices[i]][udn]] \in Seq(Result)
      <4>1. \A i \in DOMAIN d.devices : find[d.devices[i]][udn] \in Result
        BY <2>1
      <4> QED
        BY <4>1, DeviceParts
    <3>2. Value(find, d) \in V
      BY <1>1, <3>1
    <3> QED
      BY <1>9, <3>2
  <2> HIDE DEF T
  <2> QED
    BY <2>1, TreeInduction DEF T
<1>11. find \in [Device -> V]
  <2> HIDE DEF Value, V
  <2> QED
    BY <1>8, <1>10
<1> QED
  BY <1>9, <1>11
-----------------------------------------------------------------------------
(***************************************************************************)
(* What the walks find in a tree.                                          *)
(***************************************************************************)
OfType(S, type) == {d \in S : d.type = type}

\* The result of a search for a name among the devices S.
Finds(result, S, udn) ==
  IF \E d \in S : d.udn = udn THEN result \in S /\ result.udn = udn ELSE result = NoDevice

LEMMA EntryFirstDescribes ==
  ASSUME NEW d \in Device, NEW maps \in Seq(Map), NEW sets,
         \A i \in DOMAIN maps : Describes(maps[i], sets[i])
  PROVE  Describes(Inserted(<<Entry(d)>> \o maps), {d} \cup UNION {sets[i] : i \in DOMAIN maps})
<1> DEFINE n == Len(maps)
           all == <<Entry(d)>> \o maps
           parts == [i \in 1 .. n + 1 |-> IF i = 1 THEN {d} ELSE sets[i - 1]]
<1>1. /\ all \in Seq(Map) /\ DOMAIN all = 1 .. n + 1 /\ all[1] = Entry(d)
      /\ \A i \in 1 .. n : all[i + 1] = maps[i]
      /\ n \in Nat /\ DOMAIN maps = 1 .. n
  BY EntryFirst
<1> HIDE DEF n, all
<1>2. ASSUME NEW i \in DOMAIN all PROVE Describes(all[i], parts[i])
  <2>1. i \in 1 .. n + 1
    BY <1>1
  <2>2. CASE i = 1
    BY <1>1, <2>1, <2>2, EntryDescribes
  <2>3. CASE i # 1
    <3>1. i - 1 \in 1 .. n /\ (i - 1) + 1 = i
      BY <1>1, <2>1, <2>3
    <3>2. all[i] = maps[i - 1] /\ parts[i] = sets[i - 1]
      BY <1>1, <2>1, <2>3, <3>1
    <3> QED
      BY <1>1, <3>1, <3>2
  <2> QED
    BY <2>2, <2>3
<1>3. UNION {parts[i] : i \in DOMAIN all} = {d} \cup UNION {sets[i] : i \in DOMAIN maps}
  <2>1. parts[1] = {d} /\ 1 \in 1 .. n + 1
    BY <1>1
  <2>2. \A i \in 1 .. n : i + 1 \in 1 .. n + 1 /\ parts[i + 1] = sets[i]
    BY <1>1
  <2>3. \A i \in 1 .. n + 1 : i = 1 \/ (i - 1 \in 1 .. n /\ parts[i] = sets[i - 1])
    BY <1>1
  <2> HIDE DEF parts
  <2>4. ASSUME NEW i \in DOMAIN all
        PROVE  parts[i] \subseteq {d} \cup UNION {sets[j] : j \in DOMAIN maps}
    BY <1>1, <2>1, <2>3
  <2>5. ASSUME NEW i \in DOMAIN maps
        PROVE  sets[i] \subseteq UNION {parts[j] : j \in DOMAIN all}
    BY <1>1, <2>2
  <2>6. {d} \subseteq UNION {parts[j] : j \in DOMAIN all}
    BY <1>1, <2>1
  <2> QED
    BY <2>4, <2>5, <2>6
<1> HIDE DEF parts
<1>4. Describes(Inserted(all), UNION {parts[i] : i \in DOMAIN all})
  BY <1>1, <1>2, InsertedDescribes
<1> QED
  BY <1>3, <1>4 DEF all

LEMMA FirstFoundFinds ==
  ASSUME NEW udn, NEW results \in Seq(Device \cup {NoDevice}), NEW sets,
         \A i \in DOMAIN results : sets[i] \subseteq Device /\ Finds(results[i], sets[i], udn)
  PROVE  Finds(FirstFound(results), UNION {sets[i] : i \in DOMAIN results}, udn)
<1>1. \A i \in DOMAIN results : results[i] # NoDevice <=> \E d \in sets[i] : d.udn = udn
  BY DeviceAssumption DEF Finds
<1>2. CASE \E i \in DOMAIN results : results[i] # NoDevice
  <2>1. PICK i \in DOMAIN results : results[i] # NoDevice /\ FirstFound(results) = results[i]
    BY <1>2, FirstFoundFrom
  <2>2. results[i] \in sets[i] /\ results[i].udn = udn
    BY <1>1, <2>1 DEF Finds
  <2> QED
    BY <2>1, <2>2 DEF Finds
<1>3. CASE ~ \E i \in DOMAIN results : results[i] # NoDevice
  <2>1. FirstFound(results) = NoDevice
    BY <1>3, FirstFoundFrom
  <2> QED
    BY <1>1, <1>3, <2>1 DEF Finds
<1> QED
  BY <1>2, <1>3

LEMMA WithinDevice == \A d \in Device : Within(d) \subseteq Device /\ d \in Within(d)
  BY DEF Within

LEMMA FillMapDescribes == \A d \in Device : Describes(fillMap[d], Within(d))
<1> DEFINE T == {d \in Device : Describes(fillMap[d], Within(d))}
<1>1. ASSUME NEW d \in Device, \A i \in DOMAIN d.devices : d.devices[i] \in T
      PROVE  d \in T
  <2> DEFINE maps == [i \in DOMAIN d.devices |-> fillMap[d.devices[i]]]
             sets == [i \in DOMAIN d.devices |-> Within(d.devices[i])]
  <2>1. maps \in Seq(Map) /\ DOMAIN maps = DOMAIN d.devices
    BY FillMapDefined, DeviceParts
  <2>2. \A i \in DOMAIN maps : Describes(maps[i], sets[i])
    BY <1>1
  <2>3. {d} \cup UNION {sets[i] : i \in DOMAIN maps} = Within(d)
    BY WithinSteps
  <2>4. fillMap[d] = Inserted(<<Entry(d)>> \o maps)
    BY FillMapDefined DEF FillMap
  <2> HIDE DEF maps, sets
  <2>5. Describes(Inserted(<<Entry(d)>> \o maps), {d} \cup UNION {sets[i] : i \in DOMAIN maps})
    BY <2>1, <2>2, EntryFirstDescribes
  <2> QED
    BY <2>3, <2>4, <2>5
<1>2. Device \subseteq T
  <2> HIDE DEF T
  <2> QED
    BY <1>1, TreeInduction
<1> QED
  BY <1>2

LEMMA FillMapByTypeDescribes ==
  \A d \in Device : \A type \in DeviceTypes :
    Describes(fillMapByType[d][type], OfType(Within(d), type))
<1> SUFFICES ASSUME NEW type \in DeviceTypes
             PROVE  \A d \in Device : Describes(fillMapByType[d][type], OfType(Within(d), type))
  OBVIOUS
<1> DEFINE T == {d \in Device : Describes(fillMapByType[d][type], OfType(Within(d), type))}
<1>1. ASSUME NEW d \in Device, \A i \in DOMAIN d.devices : d.devices[i] \in T
      PROVE  d \in T
  <2> DEFINE maps == [i \in DOMAIN d.devices |-> fillMapByType[d.devices[i]][type]]
             sets == [i \in DOMAIN d.devices |-> OfType(Within(d.devices[i]), type)]
             below == UNION {sets[i] : i \in DOMAIN maps}
  <2>1. maps \in Seq(Map) /\ DOMAIN maps = DOMAIN d.devices
    BY FillMapByTypeDefined, DeviceParts
  <2>2. \A i \in DOMAIN maps : Describes(maps[i], sets[i])
    BY <1>1
  <2>3. OfType(Within(d), type) = IF d.type = type THEN {d} \cup below ELSE below
    <3>1. below = UNION {OfType(Within(d.devices[i]), type) : i \in DOMAIN d.devices}
      OBVIOUS
    <3>2. \A e : e \in below <=>
                   \E i \in DOMAIN d.devices : e \in Within(d.devices[i]) /\ e.type = type
      <4> HIDE DEF below
      <4>1. \A e : e \in below <=>
                     \E i \in DOMAIN d.devices : e \in OfType(Within(d.devices[i]), type)
        BY <3>1
      <4> QED
        BY <4>1 DEF OfType
    <3>3. \A e : e \in Within(d) <=> e = d \/ \E i \in DOMAIN d.devices : e \in Within(d.devices[i])
      BY WithinSteps
    <3> HIDE DEF below
    <3>4. \A e : e \in OfType(Within(d), type) <=> (e = d /\ d.type = type) \/ e \in below
      BY <3>2, <3>3 DEF OfType
    <3> QED
      BY <3>4
  <2>4. fillMapByType[d][type] = FillMapByType(d, type, maps)
    BY FillMapByTypeDefined
  <2> HIDE DEF maps, sets
  <2>5. Describes(Inserted(<<Entry(d)>> \o maps), {d} \cup below)
    BY <2>1, <2>2, EntryFirstDescribes
  <2>6. Describes(Inserted(maps), below)
    BY <2>1, <2>2, InsertedDescribes
  <2> QED
    BY <2>3, <2>4, <2>5, <2>6 DEF FillMapByType
<1>2. Device \subseteq T
  <2> HIDE DEF T
  <2> QED
    BY <1>1, TreeInduction
<1> QED
  BY <1>2

LEMMA FindFinds == \A d \in Device : \A udn \in Udn : Finds(find[d][udn], Within(d), udn)
<1> SUFFICES ASSUME NEW udn \in Udn PROVE \A d \in Device : Finds(find[d][udn], Within(d), udn)
  OBVIOUS
<1> DEFINE T == {d \in Device : Finds(find[d][udn], Within(d), udn)}
<1>1. ASSUME NEW d \in Device, \A i \in DOMAIN d.devices : d.devices[i] \in T
      PROVE  d \in T
  <2> DEFINE results == [i \in DOMAIN d.devices |-> find[d.devices[i]][udn]]
             sets == [i \in DOMAIN d.devices |-> Within(d.devices[i])]
             below == UNION {sets[i] : i \in DOMAIN results}
  <2>1. results \in Seq(Device \cup {NoDevice}) /\ DOMAIN results = DOMAIN d.devices
    <3> DEFINE Result == Device \cup {NoDevice}
    <3>1. \A i \in DOMAIN d.devices : find[d.devices[i]][udn] \in Result
      BY FindDefined, DeviceParts
    <3> HIDE DEF Result
    <3>2. results \in Seq(Result)
      BY <3>1, DeviceParts
    <3> QED
      BY <3>2 DEF Result
  <2>2. \A i \in DOMAIN results : sets[i] \subseteq Device /\ Finds(results[i], sets[i], udn)
    BY <1>1, DeviceParts, WithinDevice
  <2>3. Within(d) = {d} \cup below
    <3>1. below = UNION {Within(d.devices[i]) : i \in DOMAIN d.devices}
      OBVIOUS
    <3> QED
      BY <3>1, WithinSteps
  <2>4. find[d][udn] = Find(d, udn, results)
    BY FindDefined
  <2> HIDE DEF results, sets
  <2>5. Finds(FirstFound(results), below, udn)
    BY <2>1, <2>2, FirstFoundFinds
  <2>6. Finds(find[d][udn], Within(d), udn)
    <3> HIDE DEF below
    <3>1. CASE d.udn = udn
      BY <2>3, <2>4, <3>1 DEF Find, Finds
    <3>2. CASE d.udn # udn
      BY <2>3, <2>4, <2>5, <3>2 DEF Find, Finds
    <3> QED
      BY <3>1, <3>2
  <2> QED
    BY <2>6
<1>2. Device \subseteq T
  <2> HIDE DEF T
  <2> QED
    BY <1>1, TreeInduction
<1> QED
  BY <1>2
-----------------------------------------------------------------------------
(***************************************************************************)
(* The reference: the levels have what is in the trees of the root devices.*)
(***************************************************************************)
RootsType == rootDevices \in Seq(Device)

InTrees == UNION {Within(rootDevices[i]) : i \in DOMAIN rootDevices}

LEMMA RootsAre ==
  ASSUME RootsType
  PROVE  /\ Len(rootDevices) \in Nat /\ DOMAIN rootDevices = 1 .. Len(rootDevices)
         /\ \A i \in DOMAIN rootDevices : rootDevices[i] \in Device
         /\ ToSet(rootDevices) \subseteq Device
<1>1. Len(rootDevices) \in Nat /\ DOMAIN rootDevices = 1 .. Len(rootDevices)
  BY LenProperties DEF RootsType
<1>2. \A i \in DOMAIN rootDevices : rootDevices[i] \in Device
  BY <1>1, ElementOfSeq DEF RootsType
<1> QED
  BY <1>1, <1>2 DEF ToSet

LEMMA LevelDefined ==
  ASSUME RootsType
  PROVE  /\ Level[0] = ToSet(rootDevices)
         /\ \A n \in 1 .. MaxDepth : Level[n] = Embedded(Level[n - 1])
<1> DEFINE S == 0 .. MaxDepth
           V == SUBSET Device
           h == [n \in S |-> n]
           kids == [n \in S |-> IF n = 0 THEN <<>> ELSE <<n - 1>>]
           Next1(n, levels) ==
             IF n = 0 THEN ToSet(rootDevices)
             ELSE Embedded(UNION {levels[i] : i \in DOMAIN levels})
           step == [p \in S \X Seq(V) |-> Next1(p[1], p[2])]
           Value(f, n) == IF n = 0 THEN ToSet(rootDevices) ELSE Embedded(f[n - 1])
<1>1. MaxDepth \in Nat
  BY DeviceAssumption
<1>2. Descends(S, kids, h)
  <2>1. h \in [S -> Nat]
    BY <1>1
  <2>2. ASSUME NEW n \in S PROVE kids[n] \in Seq(S)
    <3>1. CASE n = 0
      <4>1. kids[n] = <<>>
        BY <3>1
      <4> HIDE DEF S, kids
      <4> QED
        BY <4>1, EmptySeq
    <3>2. CASE n # 0
      <4>1. n - 1 \in S /\ kids[n] = <<n - 1>>
        BY <1>1, <3>2
      <4>2. \A v \in S : <<v>> \in Seq(S)
        <5> HIDE DEF S
        <5> QED
          OBVIOUS
      <4> HIDE DEF S, kids
      <4> QED
        BY <4>1, <4>2
    <3> QED
      BY <3>1, <3>2
  <2>3. kids \in [S -> Seq(S)]
    BY <2>2
  <2>4. \A n \in S : \A i \in DOMAIN kids[n] : h[kids[n][i]] < h[n]
    BY <1>1
  <2> QED
    BY <2>1, <2>3, <2>4 DEF Descends
<1>3. \A D \in SUBSET Device : Embedded(D) \subseteq Device
  <2> SUFFICES ASSUME NEW D \in SUBSET Device, NEW d \in D, NEW e \in ToSet(d.devices)
               PROVE  e \in Device
    BY DEF Embedded
  <2> QED
    BY DeviceParts DEF ToSet
<1>4. step \in [S \X Seq(V) -> V]
  <2>1. ASSUME NEW n \in S, NEW levels \in Seq(V) PROVE Next1(n, levels) \in V
    <3>1. \A i \in DOMAIN levels : levels[i] \in V
      BY ElementOfSeq, LenProperties
    <3>2. UNION {levels[i] : i \in DOMAIN levels} \in SUBSET Device
      BY <3>1
    <3> QED
      BY <1>3, <3>2, RootsAre
  <2> HIDE DEF S, V, Next1
  <2> QED
    BY <2>1
<1>5. PICK f : Follows(f, S, V, kids, step)
  <2> HIDE DEF S, V, h, kids, step
  <2> QED
    BY <1>2, <1>4, Recursion
<1>6. f \in [S -> V]
  BY <1>5 DEF Follows
<1>7. \A n \in S : f[n] = Value(f, n)
  <2> SUFFICES ASSUME NEW n \in S PROVE f[n] = Value(f, n)
    OBVIOUS
  <2> DEFINE levels == [i \in DOMAIN kids[n] |-> f[kids[n][i]]]
  <2>1. f[n] = step[<<n, levels>>]
    <3> HIDE DEF S, V, kids, step
    <3> QED
      BY <1>5 DEF Follows
  <2>2. CASE n = 0
    <3>1. levels = <<>>
      BY <2>2
    <3>2. <<>> \in Seq(V)
      BY EmptySeq
    <3>3. step[<<n, <<>> >>] = Next1(n, <<>>)
      <4> HIDE DEF S, V, Next1
      <4> QED
        BY <3>2
    <3> QED
      BY <2>1, <2>2, <3>1, <3>3
  <2>3. CASE n # 0
    <3>1. n - 1 \in S
      BY <1>1, <2>3
    <3>2. levels = <<f[n - 1]>>
      BY <2>3
    <3>3. f[n - 1] \in V
      BY <1>6, <3>1
    <3>4. step[<<n, levels>>] = Embedded(UNION {levels[i] : i \in DOMAIN levels})
      <4>1. \A v \in V : <<v>> \in Seq(V)
        <5> HIDE DEF V
        <5> QED
          OBVIOUS
      <4>2. levels \in Seq(V)
        <5> HIDE DEF levels, V, S
        <5> QED
          BY <3>2, <3>3, <4>1
      <4>3. step[<<n, levels>>] = Next1(n, levels)
        <5> HIDE DEF levels, V, S, Next1
        <5> QED
          BY <4>2
      <4> HIDE DEF levels, V, S
      <4> QED
        BY <2>3, <4>3
    <3>5. UNION {levels[i] : i \in DOMAIN levels} = f[n - 1]
      BY <3>2
    <3> QED
      BY <2>1, <2>3, <3>4, <3>5
  <2> QED
    BY <2>2, <2>3
<1>8. f = [n \in S |-> Value(f, n)]
  <2> HIDE DEF Value, V, S
  <2> QED
    BY <1>6, <1>7
<1>9. Level = [n \in S |-> Value(Level, n)]
  BY <1>8 DEF Level
<1>10. \A n \in S : Level[n] = Value(Level, n)
  <2> HIDE DEF Value, S
  <2> QED
    BY <1>9
<1> QED
  BY <1>1, <1>10

LEMMA WithinClosed ==
  \A d \in Device : \A p \in Within(d) : \A i \in DOMAIN p.devices : p.devices[i] \in Within(d)
<1> SUFFICES ASSUME NEW d \in Device, NEW p \in Within(d), NEW i \in DOMAIN p.devices
             PROVE  p.devices[i] \in Within(d)
  OBVIOUS
<1>1. p.devices[i] \in Device
  BY WithinDevice, DeviceParts
<1>2. ASSUME NEW S \in SUBSET Device, d \in S, Closed(S) PROVE p.devices[i] \in S
  BY <1>2 DEF Closed, Within
<1> QED
  BY <1>1, <1>2 DEF Within

LEMMA DevicesAreInTrees ==
  ASSUME RootsType
  PROVE  Devices = InTrees /\ Devices \subseteq Device
<1>1. MaxDepth \in Nat /\ \A d \in Device : Height[d] \in 0 .. MaxDepth
  BY DeviceAssumption
<1>2. InTrees \subseteq Device /\ ToSet(rootDevices) \subseteq InTrees
  BY RootsAre, WithinDevice DEF InTrees, ToSet
<1>3. \A d \in InTrees : \A i \in DOMAIN d.devices : d.devices[i] \in InTrees
  BY RootsAre, WithinClosed DEF InTrees
<1> DEFINE Right(n) == \A d \in Level[n] : d \in InTrees /\ Height[d] + n <= MaxDepth
           wrong == {n \in 0 .. MaxDepth : ~ Right(n)}
<1>4. \A n \in 0 .. MaxDepth : Right(n)
  <2> SUFFICES ASSUME wrong # {} PROVE FALSE
    OBVIOUS
  <2>1. PICK m \in wrong : \A n \in wrong : m <= n
    <3>1. wrong \in SUBSET Nat
      OBVIOUS
    <3> HIDE DEF wrong
    <3> QED
      BY <3>1, NatMinimum
  <2>2. m \in 0 .. MaxDepth /\ ~ Right(m)
    OBVIOUS
  <2>3. CASE m = 0
    <3>1. Level[0] = ToSet(rootDevices)
      BY LevelDefined
    <3>2. Right(0)
      BY <1>1, <1>2, <3>1
    <3> QED
      BY <2>2, <2>3, <3>2
  <2>4. CASE m # 0
    <3>1. m - 1 \in 0 .. MaxDepth /\ m \in 1 .. MaxDepth /\ ~ (m <= m - 1)
      BY <1>1, <2>2, <2>4
    <3>2. Right(m - 1)
      <4>1. m - 1 \notin wrong
        <5> HIDE DEF wrong
        <5> QED
          BY <2>1, <3>1
      <4> QED
        BY <3>1, <4>1
    <3>3. Level[m] = Embedded(Level[m - 1])
      BY <3>1, LevelDefined
    <3>4. ASSUME NEW d \in Level[m] PROVE d \in InTrees /\ Height[d] + m <= MaxDepth
      <4>1. PICK p \in Level[m - 1] : d \in ToSet(p.devices)
        BY <3>3 DEF Embedded
      <4>2. PICK i \in DOMAIN p.devices : d = p.devices[i]
        BY <4>1 DEF ToSet
      <4>3. p \in InTrees /\ p \in Device /\ Height[p] + (m - 1) <= MaxDepth
        BY <1>2, <3>2
      <4>4. d \in InTrees /\ d \in Device /\ Height[d] < Height[p]
        BY <1>2, <1>3, <4>2, <4>3, DeviceParts
      <4>5. Height[d] \in Nat /\ Height[p] \in Nat
        BY <1>1, <4>3, <4>4
      <4> QED
        BY <1>1, <3>1, <4>3, <4>4, <4>5
    <3> QED
      BY <2>2, <3>4
  <2> QED
    BY <2>3, <2>4
<1>5. Devices \subseteq InTrees
  BY <1>4 DEF Devices
<1>6. Closed(Devices)
  <2> SUFFICES ASSUME NEW n \in 0 .. MaxDepth, NEW p \in Level[n], NEW i \in DOMAIN p.devices
               PROVE  p.devices[i] \in Devices
    BY DEF Closed, Devices
  <2>1. p \in Device /\ Height[p] + n <= MaxDepth
    BY <1>2, <1>4
  <2>2. p.devices[i] \in Device /\ Height[p.devices[i]] < Height[p]
    BY <2>1, DeviceParts
  <2>3. Height[p] \in Nat /\ Height[p.devices[i]] \in Nat
    BY <1>1, <2>1, <2>2
  <2>4. n + 1 \in 1 .. MaxDepth /\ (n + 1) - 1 = n /\ n + 1 \in 0 .. MaxDepth
    BY <1>1, <2>1, <2>2, <2>3
  <2>5. Level[n + 1] = Embedded(Level[n])
    BY <2>4, LevelDefined
  <2>6. p.devices[i] \in Level[n + 1]
    BY <2>5 DEF Embedded, ToSet
  <2> QED
    BY <2>4, <2>6 DEF Devices
<1>7. Devices \in SUBSET Device
  BY <1>2, <1>5
<1>8. ASSUME NEW r \in DOMAIN rootDevices PROVE Within(rootDevices[r]) \subseteq Devices
  <2>1. rootDevices[r] \in Level[0] /\ 0 \in 0 .. MaxDepth
    BY <1>1, LevelDefined DEF ToSet
  <2>2. rootDevices[r] \in Devices
    BY <2>1 DEF Devices
  <2> QED
    BY <1>6, <1>7, <2>2 DEF Within
<1> QED
  BY <1>5, <1>7, <1>8 DEF InTrees

-----------------------------------------------------------------------------
(***************************************************************************)
(* Sequences of root devices.                                              *)
(***************************************************************************)
LEMMA ConcatSet ==
  ASSUME NEW S, NEW s \in Seq(S), NEW t \in Seq(S)
  PROVE  s \o t \in Seq(S) /\ ToSet(s \o t) = ToSet(s) \cup ToSet(t)
<1> DEFINE st == s \o t
<1>1. /\ Len(s) \in Nat /\ DOMAIN s = 1 .. Len(s)
      /\ Len(t) \in Nat /\ DOMAIN t = 1 .. Len(t)
  BY LenProperties
<1>2. /\ st \in Seq(S) /\ Len(st) = Len(s) + Len(t)
      /\ \A i \in 1 .. Len(s) + Len(t) : st[i] = IF i <= Len(s) THEN s[i] ELSE t[i - Len(s)]
  BY ConcatProperties
<1> HIDE DEF st
<1>3. DOMAIN st = 1 .. Len(s) + Len(t)
  BY <1>2, LenProperties
<1>4. ASSUME NEW i \in DOMAIN st PROVE st[i] \in ToSet(s) \cup ToSet(t)
  <2>1. CASE i <= Len(s)
    BY <1>1, <1>2, <1>3, <2>1 DEF ToSet
  <2>2. CASE ~ (i <= Len(s))
    <3>1. i - Len(s) \in DOMAIN t /\ st[i] = t[i - Len(s)]
      BY <1>1, <1>2, <1>3, <2>2
    <3> QED
      BY <3>1 DEF ToSet
  <2> QED
    BY <2>1, <2>2
<1>5. ASSUME NEW i \in DOMAIN s PROVE s[i] \in ToSet(st)
  <2>1. i \in DOMAIN st /\ st[i] = s[i]
    BY <1>1, <1>2, <1>3
  <2> QED
    BY <2>1 DEF ToSet
<1>6. ASSUME NEW i \in DOMAIN t PROVE t[i] \in ToSet(st)
  <2>1. i + Len(s) \in DOMAIN st /\ ~ (i + Len(s) <= Len(s)) /\ (i + Len(s)) - Len(s) = i
    BY <1>1, <1>3
  <2>2. st[i + Len(s)] = t[i]
    BY <1>2, <1>3, <2>1
  <2> QED
    BY <2>1, <2>2 DEF ToSet
<1>7. ToSet(st) = ToSet(s) \cup ToSet(t)
  BY <1>4, <1>5, <1>6 DEF ToSet
<1> QED
  BY <1>2, <1>7 DEF st

LEMMA SubSeqSet ==
  ASSUME NEW S, NEW s \in Seq(S), NEW m \in 1 .. Len(s) + 1, NEW n \in 0 .. Len(s)
  PROVE  SubSeq(s, m, n) \in Seq(S) /\ ToSet(SubSeq(s, m, n)) = {s[i] : i \in m .. n}
<1> DEFINE sub == SubSeq(s, m, n)
<1>1. Len(s) \in Nat /\ \A i \in m .. n : s[i] \in S
  BY LenProperties, ElementOfSeq
<1>2. /\ sub \in Seq(S) /\ Len(sub) = IF m <= n THEN n - m + 1 ELSE 0
      /\ \A i \in 1 .. n - m + 1 : sub[i] = s[m + i - 1]
  BY <1>1, SubSeqProperties
<1> HIDE DEF sub
<1>3. DOMAIN sub = 1 .. n - m + 1
  <2>1. DOMAIN sub = 1 .. Len(sub)
    BY <1>2, LenProperties
  <2> QED
    BY <1>1, <1>2, <2>1
<1>4. ASSUME NEW i \in DOMAIN sub PROVE sub[i] \in {s[j] : j \in m .. n}
  <2>1. m + i - 1 \in m .. n /\ sub[i] = s[m + i - 1]
    BY <1>1, <1>2, <1>3
  <2> QED
    BY <2>1
<1>5. ASSUME NEW j \in m .. n PROVE s[j] \in ToSet(sub)
  <2>1. j - m + 1 \in 1 .. n - m + 1 /\ m + (j - m + 1) - 1 = j
    BY <1>1
  <2>2. sub[j - m + 1] = s[j]
    BY <1>2, <2>1
  <2> QED
    BY <1>3, <2>1, <2>2 DEF ToSet
<1>6. ToSet(sub) = {s[i] : i \in m .. n}
  BY <1>4, <1>5 DEF ToSet
<1> QED
  BY <1>2, <1>6 DEF sub

LEMMA InsertedRoot ==
  ASSUME RootsType, NEW d \in Device, NEW i \in 1 .. Len(rootDevices) + 1
  PROVE  /\ InsertAt(rootDevices, i, d) \in Seq(Device)
         /\ ToSet(InsertAt(rootDevices, i, d)) = ToSet(rootDevices) \cup {d}
<1> DEFINE n == Len(rootDevices)
           front == SubSeq(rootDevices, 1, i - 1)
           one == <<d>>
           back == SubSeq(rootDevices, i, n)
<1>1. n \in Nat /\ DOMAIN rootDevices = 1 .. n /\ rootDevices \in Seq(Device)
  BY RootsAre DEF RootsType
<1>2. front \in Seq(Device) /\ ToSet(front) = {rootDevices[j] : j \in 1 .. i - 1}
  BY <1>1, SubSeqSet
<1>3. back \in Seq(Device) /\ ToSet(back) = {rootDevices[j] : j \in i .. n}
  BY <1>1, SubSeqSet
<1>4. one \in Seq(Device) /\ ToSet(one) = {d}
  BY DEF ToSet
<1>5. ToSet(rootDevices) = ToSet(front) \cup ToSet(back)
  <2>1. 1 .. n = (1 .. i - 1) \cup (i .. n)
    BY <1>1
  <2> HIDE DEF front, back
  <2> QED
    BY <1>1, <1>2, <1>3, <2>1 DEF ToSet
<1> HIDE DEF front, one, back
<1>6. front \o one \in Seq(Device) /\ ToSet(front \o one) = ToSet(front) \cup {d}
  BY <1>2, <1>4, ConcatSet
<1>7. /\ (front \o one) \o back \in Seq(Device)
      /\ ToSet((front \o one) \o back) = (ToSet(front) \cup {d}) \cup ToSet(back)
  <2> DEFINE longer == front \o one
  <2>1. longer \in Seq(Device) /\ ToSet(longer) = ToSet(front) \cup {d}
    BY <1>6
  <2> HIDE DEF longer
  <2>2. longer \o back \in Seq(Device) /\ ToSet(longer \o back) = ToSet(longer) \cup ToSet(back)
    BY <1>3, <2>1, ConcatSet
  <2> QED
    BY <2>1, <2>2 DEF longer
<1> QED
  BY <1>5, <1>7 DEF InsertAt, front, one, back

LEMMA RemovedRoot ==
  ASSUME RootsType, NEW i \in DOMAIN rootDevices
  PROVE  /\ RemoveAt(rootDevices, i) \in Seq(Device)
         /\ ToSet(rootDevices) = ToSet(RemoveAt(rootDevices, i)) \cup {rootDevices[i]}
<1> DEFINE n == Len(rootDevices)
           front == SubSeq(rootDevices, 1, i - 1)
           back == SubSeq(rootDevices, i + 1, n)
<1>1. n \in Nat /\ DOMAIN rootDevices = 1 .. n /\ rootDevices \in Seq(Device) /\ i \in 1 .. n
  BY RootsAre DEF RootsType
<1>2. front \in Seq(Device) /\ ToSet(front) = {rootDevices[j] : j \in 1 .. i - 1}
  BY <1>1, SubSeqSet
<1>3. back \in Seq(Device) /\ ToSet(back) = {rootDevices[j] : j \in i + 1 .. n}
  BY <1>1, SubSeqSet
<1>4. ToSet(rootDevices) = ToSet(front) \cup ToSet(back) \cup {rootDevices[i]}
  <2>1. 1 .. n = (1 .. i - 1) \cup (i + 1 .. n) \cup {i}
    BY <1>1
  <2> HIDE DEF front, back
  <2> QED
    BY <1>1, <1>2, <1>3, <2>1 DEF ToSet
<1> HIDE DEF front, back
<1>5. front \o back \in Seq(Device) /\ ToSet(front \o back) = ToSet(front) \cup ToSet(back)
  BY <1>2, <1>3, ConcatSet
<1> QED
  BY <1>4, <1>5 DEF RemoveAt, front, back

LEMMA MapOfDescribes ==
  ASSUME NEW devices \in Seq(Device)
  PROVE  Describes(MapOf(devices), ToSet(devices))
<1> DEFINE maps == [i \in DOMAIN devices |-> Entry(devices[i])]
           sets == [i \in DOMAIN devices |-> {devices[i]}]
<1>1. Len(devices) \in Nat /\ DOMAIN devices = 1 .. Len(devices)
  BY LenProperties
<1>2. \A i \in DOMAIN devices : Entry(devices[i]) \in Map /\ Describes(maps[i], sets[i])
  BY <1>1, ElementOfSeq, EntryDescribes
<1>3. maps \in Seq(Map) /\ DOMAIN maps = DOMAIN devices
  <2>1. \A i \in 1 .. Len(devices) : Entry(devices[i]) \in Map
    BY <1>1, <1>2
  <2>2. maps = [i \in 1 .. Len(devices) |-> Entry(devices[i])]
    BY <1>1
  <2> QED
    BY <1>1, <2>1, <2>2
<1>4. UNION {sets[i] : i \in DOMAIN maps} = ToSet(devices)
  BY DEF ToSet
<1>5. Describes(Inserted(maps), UNION {sets[i] : i \in DOMAIN maps})
  <2> HIDE DEF maps, sets
  <2> QED
    BY <1>2, <1>3, InsertedDescribes
<1> QED
  BY <1>4, <1>5 DEF MapOf
-----------------------------------------------------------------------------
(***************************************************************************)
(* The answers to the queries, in every state.                             *)
(***************************************************************************)
LEMMA AllDevicesDescribe ==
  ASSUME RootsType
  PROVE  Describes(allDevices, InTrees)
<1> DEFINE maps == [i \in DOMAIN rootDevices |-> fillMap[rootDevices[i]]]
           sets == [i \in DOMAIN rootDevices |-> Within(rootDevices[i])]
<1>1. maps \in Seq(Map) /\ DOMAIN maps = DOMAIN rootDevices
  BY FillMapDefined, RootsAre
<1>2. \A i \in DOMAIN maps : Describes(maps[i], sets[i])
  BY FillMapDescribes, RootsAre
<1>3. UNION {sets[i] : i \in DOMAIN maps} = InTrees
  BY DEF InTrees
<1>4. Describes(Inserted(maps), UNION {sets[i] : i \in DOMAIN maps})
  <2> HIDE DEF maps, sets
  <2> QED
    BY <1>1, <1>2, InsertedDescribes
<1> QED
  BY <1>3, <1>4 DEF allDevices

LEMMA DevicesByTypeDescribe ==
  ASSUME RootsType, NEW type \in DeviceTypes
  PROVE  Describes(devicesByType(type), OfType(InTrees, type))
<1> DEFINE maps == [i \in DOMAIN rootDevices |-> fillMapByType[rootDevices[i]][type]]
           sets == [i \in DOMAIN rootDevices |-> OfType(Within(rootDevices[i]), type)]
           all == UNION {sets[i] : i \in DOMAIN maps}
<1>1. maps \in Seq(Map) /\ DOMAIN maps = DOMAIN rootDevices
  BY FillMapByTypeDefined, RootsAre
<1>2. \A i \in DOMAIN maps : Describes(maps[i], sets[i])
  BY FillMapByTypeDescribes, RootsAre
<1>3. all = OfType(InTrees, type)
  <2>1. \A e : e \in all <=> \E i \in DOMAIN rootDevices : e \in OfType(Within(rootDevices[i]), type)
    OBVIOUS
  <2>2. \A e : e \in InTrees <=> \E i \in DOMAIN rootDevices : e \in Within(rootDevices[i])
    BY DEF InTrees
  <2> HIDE DEF all
  <2>3. \A e : e \in all <=> e \in OfType(InTrees, type)
    BY <2>1, <2>2 DEF OfType
  <2> QED
    BY <2>3
<1>4. Describes(Inserted(maps), all)
  <2> HIDE DEF maps, sets
  <2> QED
    BY <1>1, <1>2, InsertedDescribes
<1> QED
  BY <1>3, <1>4 DEF devicesByType

LEMMA DeviceDetailsFind ==
  ASSUME RootsType, NEW udn \in Udn
  PROVE  Finds(deviceDetails(udn), InTrees, udn)
<1> DEFINE Result == Device \cup {NoDevice}
           results == [i \in DOMAIN rootDevices |-> find[rootDevices[i]][udn]]
           sets == [i \in DOMAIN rootDevices |-> Within(rootDevices[i])]
<1>1. results \in Seq(Result) /\ DOMAIN results = DOMAIN rootDevices
  <2>1. \A i \in DOMAIN rootDevices : find[rootDevices[i]][udn] \in Result
    BY FindDefined, RootsAre
  <2> HIDE DEF Result
  <2> QED
    BY <2>1, RootsAre
<1>2. \A i \in DOMAIN results : sets[i] \subseteq Device /\ Finds(results[i], sets[i], udn)
  BY FindFinds, WithinDevice, RootsAre
<1>3. UNION {sets[i] : i \in DOMAIN results} = InTrees
  BY DEF InTrees
<1>4. Finds(FirstFound(results), UNION {sets[i] : i \in DOMAIN results}, udn)
  <2> HIDE DEF results, sets
  <2> QED
    BY <1>1, <1>2, FirstFoundFinds
<1> QED
  BY <1>3, <1>4 DEF deviceDetails

\* The only root device that has a name in its description is the first one.
LEMMA FirstMatchIs ==
  ASSUME RootsType, NEW root \in ToSet(rootDevices), NEW udn,
         {r \in ToSet(rootDevices) : find[r][udn] # NoDevice} = {root}
  PROVE  FirstMatch(udn) # 0 /\ rootDevices[FirstMatch(udn)] = root
<1> DEFINE I == {i \in 1 .. Len(rootDevices) : find[rootDevices[i]][udn] # NoDevice}
<1>1. Len(rootDevices) \in Nat /\ DOMAIN rootDevices = 1 .. Len(rootDevices)
  BY RootsAre
<1>2. I # {} /\ I \in SUBSET (1 .. Len(rootDevices))
  BY <1>1 DEF ToSet
<1>3. FirstMatch(udn) = Min(I)
  BY <1>2 DEF FirstMatch, SelectInSeq
<1>4. Min(I) \in I
  <2> HIDE DEF I
  <2> QED
    BY <1>1, <1>2, MinPlace
<1> QED
  BY <1>1, <1>3, <1>4 DEF ToSet
-----------------------------------------------------------------------------
(***************************************************************************)
(* The theorems.                                                           *)
(***************************************************************************)
LEMMA RootsInit == Init => RootsType
  BY EmptySeq DEF Init, RootsType

LEMMA RootsStep == RootsType /\ [Next]_vars => RootsType'
<1> SUFFICES ASSUME RootsType, [Next]_vars PROVE RootsType'
  OBVIOUS
<1>1. ASSUME NEW device \in Device, DeviceDiscovered(device) PROVE RootsType'
  <2>1. PICK i \in 1 .. Len(rootDevices) + 1 : rootDevices' = InsertAt(rootDevices, i, device)
    BY <1>1 DEF DeviceDiscovered
  <2> QED
    BY <2>1, InsertedRoot DEF RootsType
<1>2. ASSUME NEW i \in DOMAIN rootDevices, DeviceRemoved(i) PROVE RootsType'
  BY <1>2, RemovedRoot DEF DeviceRemoved, RootsType
<1>3. CASE UNCHANGED vars
  BY <1>3 DEF vars, RootsType
<1> QED
  BY <1>1, <1>2, <1>3 DEF Next

\* The root devices of the cache have descriptions whose embedding ends.
THEOREM RootsTypeHolds == Spec => []RootsType
  BY RootsInit, RootsStep, PTL DEF Spec

\* allDevices() lists every device of every description, and nothing else,
\* however deep the device is embedded.
THEOREM AllDevicesCompleteHolds == Spec => []AllDevicesComplete
<1>1. RootsType => AllDevicesComplete
  BY AllDevicesDescribe, DevicesAreInTrees DEF AllDevicesComplete
<1> QED
  BY <1>1, RootsTypeHolds, PTL

\* The answers to devicesByType() divide what allDevices() lists by type, a
\* device embedded in a match included.
THEOREM TypesPartitionHolds == Spec => []TypesPartition
<1>1. ASSUME RootsType PROVE TypesPartition
  <2> SUFFICES ASSUME NEW type \in DeviceTypes
               PROVE  Describes(devicesByType(type), {d \in Devices : d.type = type})
    BY DEF TypesPartition
  <2>1. {d \in Devices : d.type = type} = OfType(InTrees, type)
    BY <1>1, DevicesAreInTrees DEF OfType
  <2> QED
    BY <1>1, <2>1, DevicesByTypeDescribe
<1> QED
  BY <1>1, RootsTypeHolds, PTL

\* deviceDetails() knows exactly the devices that allDevices() lists, and
\* answers with the one asked for.
THEOREM DetailsOfListedHolds == Spec => []DetailsOfListed
<1>1. ASSUME RootsType PROVE DetailsOfListed
  <2> SUFFICES ASSUME NEW udn \in Udn
               PROVE  IF udn \in DOMAIN allDevices
                      THEN deviceDetails(udn) # NoDevice
                           /\ deviceDetails(udn) \in {d \in Devices : d.udn = udn}
                      ELSE deviceDetails(udn) = NoDevice
    BY DEF DetailsOfListed
  <2>1. Devices = InTrees /\ NoDevice \notin Devices
    BY <1>1, DevicesAreInTrees, DeviceAssumption
  <2>2. udn \in DOMAIN allDevices <=> \E d \in Devices : d.udn = udn
    BY <1>1, <2>1, AllDevicesDescribe DEF Describes
  <2>3. Finds(deviceDetails(udn), Devices, udn)
    BY <1>1, <2>1, DeviceDetailsFind
  <2> QED
    BY <2>1, <2>2, <2>3 DEF Finds
<1> QED
  BY <1>1, RootsTypeHolds, PTL

\* devicesByParent() is right about root devices: all of them for the empty
\* name, and the embedded devices of a root device whose name no other
\* description uses.
THEOREM ParentIsRootHolds == Spec => []ParentIsRoot
<1>1. ASSUME RootsType PROVE ParentIsRoot
  <2>1. Describes(devicesByParent(NoUdn), ToSet(rootDevices))
    BY <1>1, MapOfDescribes DEF devicesByParent, RootsType
  <2>2. ASSUME NEW root \in ToSet(rootDevices), root.udn # NoUdn,
               {r \in ToSet(rootDevices) : find[r][root.udn] # NoDevice} = {root}
        PROVE  Describes(devicesByParent(root.udn), ToSet(root.devices))
    <3>1. FirstMatch(root.udn) # 0 /\ rootDevices[FirstMatch(root.udn)] = root
      BY <1>1, <2>2, FirstMatchIs
    <3>2. devicesByParent(root.udn) = MapOf(root.devices)
      BY <2>2, <3>1 DEF devicesByParent
    <3>3. root.devices \in Seq(Device)
      BY <1>1, RootsAre, DeviceParts
    <3> QED
      BY <3>2, <3>3, MapOfDescribes
  <2> QED
    BY <2>1, <2>2 DEF ParentIsRoot
<1> QED
  BY <1>1, RootsTypeHolds, PTL

\* What allDevices() names: the names in the maps of the root devices.
LEMMA NamesListed ==
  DOMAIN allDevices = UNION {DOMAIN fillMap[d] : d \in ToSet(rootDevices)}
  BY DEF allDevices, Inserted, ToSet

\* A device that enters or leaves the answer of allDevices() is named by the
\* signal, and all that devicesAdded() names can be queried afterwards.
THEOREM SentExplainsChangeHolds == Spec => SentExplainsChange
<1> DEFINE Names(devices) == UNION {DOMAIN fillMap[d] : d \in devices}
           Explained ==
             LET before == DOMAIN allDevices
                 after == DOMAIN allDevices'
                 named == DOMAIN sent'.devices
             IN  IF sent'.signal = "devicesAdded"
                 THEN after = before \cup named
                 ELSE before \ named \subseteq after /\ after \subseteq before
<1>1. ASSUME RootsType, RootsType', [Next]_vars PROVE [Explained]_vars
  <2>1. DOMAIN allDevices = Names(ToSet(rootDevices))
    BY NamesListed
  <2>2. DOMAIN allDevices' = Names(ToSet(rootDevices'))
    BY DEF allDevices, Inserted, ToSet
  <2>3. ASSUME NEW device \in Device, DeviceDiscovered(device) PROVE Explained
    <3>1. ToSet(rootDevices') = ToSet(rootDevices) \cup {device}
      BY <1>1, <2>3, InsertedRoot DEF DeviceDiscovered
    <3>2. sent'.signal = "devicesAdded" /\ DOMAIN sent'.devices = DOMAIN fillMap[device]
      BY <2>3 DEF DeviceDiscovered
    <3> QED
      BY <2>1, <2>2, <3>1, <3>2
  <2>4. ASSUME NEW i \in DOMAIN rootDevices, DeviceRemoved(i) PROVE Explained
    <3>1. ToSet(rootDevices) = ToSet(rootDevices') \cup {rootDevices[i]}
      BY <1>1, <2>4, RemovedRoot DEF DeviceRemoved
    <3>2. /\ sent'.signal = "devicesRemoved"
          /\ DOMAIN sent'.devices = DOMAIN fillMap[rootDevices[i]]
      BY <2>4 DEF DeviceRemoved
    <3> QED
      BY <2>1, <2>2, <3>1, <3>2
  <2> QED
    BY <1>1, <2>3, <2>4 DEF Next
<1> QED
  BY <1>1, RootsTypeHolds, RootsStep, PTL DEF Spec, SentExplainsChange
=============================================================================
