----------------------- MODULE DescriptionMeaning_proofs ----------------------
(***************************************************************************)
(* Proof that DescriptionHandler builds what a document means, whatever    *)
(* conforming document it is: an invariant that says, after each call,     *)
(* which element each device has been made for, and that what has ended of *)
(* that element is in the device or in the handler's hands.                *)
(***************************************************************************)
EXTENDS DescriptionMeaning, DescriptionHandler_proofs

-----------------------------------------------------------------------------
(***************************************************************************)
(* What the reader has noted of the document.                              *)
(***************************************************************************)
Element == [name : Pieces, text : Seq(Pieces), parent : Nat]

\* The elements are in the order of their starts, so that one that has started
\* later than an open one is inside of it.
Table ==
  /\ elements \in Seq(Element) /\ open \in Seq(Nat)
  /\ \A i \in DOMAIN open :
       /\ open[i] \in DOMAIN elements
       /\ elements[open[i]].parent = IF i = 1 THEN 0 ELSE open[i - 1]
       /\ \A j \in DOMAIN open : i < j => open[i] < open[j]
  /\ \A c \in DOMAIN elements :
       /\ elements[c].parent < c /\ (elements[c].parent = 0 => c = 1)
       /\ \A i \in DOMAIN open : open[i] < c => open[i] <= elements[c].parent

\* Of elements with one name, there is a last one.
Latest == \A e, name : Named(e, name) # {} => Max(Named(e, name)) \in Named(e, name)

\* Where the reader is in the document.
Reading ==
  /\ document \in Documents
  /\ \E n \in 0 .. Len(Calls[document]) :
       /\ AsRead(Calls[document], n) /\ Len(open) = Depth(Calls[document], n)
       /\ n = 0 => elements = <<>>

DocumentInv == Table /\ Latest /\ Reading

\* Only before the first element no element is open, when a call is made.
OpenAtCall ==
  /\ open = <<>> => elements = <<>>
  /\ Head(tags).call = "endElement" => open # <<>>

\* What is noted is typed, and an element is in another one or the outermost.
LEMMA TableTypes ==
  ASSUME Table
  PROVE  /\ Len(elements) \in Nat /\ DOMAIN elements = 1 .. Len(elements)
         /\ Len(open) \in Nat /\ DOMAIN open = 1 .. Len(open)
         /\ \A c \in DOMAIN elements :
              /\ elements[c] \in Element /\ elements[c].name \in Pieces
              /\ elements[c].text \in Seq(Pieces) /\ elements[c].parent \in Nat
              /\ elements[c].parent # 0 => elements[c].parent \in DOMAIN elements
         /\ \A i \in DOMAIN open : open[i] \in Nat
<1>1. elements \in Seq(Element) /\ open \in Seq(Nat)
  BY DEF Table
<1>2. /\ Len(elements) \in Nat /\ DOMAIN elements = 1 .. Len(elements)
      /\ Len(open) \in Nat /\ DOMAIN open = 1 .. Len(open)
      /\ \A c \in DOMAIN elements : elements[c] \in Element
      /\ \A i \in DOMAIN open : open[i] \in Nat
  BY <1>1, LenProperties, ElementOfSeq
<1>3. \A x \in Element : x.name \in Pieces /\ x.text \in Seq(Pieces) /\ x.parent \in Nat
  BY DEF Element
<1> QED
  BY <1>2, <1>3 DEF Table

\* What a start tag notes.
LEMMA StartNotes ==
  ASSUME Table, NEW name \in Pieces, NoteStart(name)
  PROVE  LET m == Len(elements) + 1
             k == Len(open)
         IN  /\ elements' \in Seq(Element) /\ DOMAIN elements' = 1 .. m /\ Len(elements') = m
             /\ \A c \in 1 .. m - 1 : elements'[c] = elements[c]
             /\ elements'[m].name = name /\ elements'[m].text = NoText
             /\ elements'[m].parent = IF k = 0 THEN 0 ELSE open[k]
             /\ open' \in Seq(Nat) /\ DOMAIN open' = 1 .. k + 1 /\ Len(open') = k + 1
             /\ \A i \in 1 .. k : open'[i] = open[i]
             /\ open'[k + 1] = m
             /\ Ended' = Ended
<1> DEFINE m == Len(elements) + 1
           k == Len(open)
           x == [name |-> name, text |-> NoText, parent |-> IF open = <<>> THEN 0 ELSE Last(open)]
<1>1. /\ m \in Nat \ {0} /\ k \in Nat /\ DOMAIN open = 1 .. k /\ DOMAIN elements = 1 .. m - 1
      /\ \A i \in DOMAIN open : open[i] \in Nat /\ open[i] \in DOMAIN elements
      /\ elements \in Seq(Element) /\ open \in Seq(Nat)
  BY TableTypes DEF Table
<1>2. open = <<>> <=> k = 0
  BY <1>1, EmptySeq
<1>3. /\ x.parent = IF k = 0 THEN 0 ELSE open[k]
      /\ x.parent \in Nat /\ x.name = name /\ x.text = NoText
  BY <1>1, <1>2 DEF Last
<1>4. x \in Element
  BY <1>3, NewTypes DEF Element
<1>5. elements' = Append(elements, x) /\ open' = Append(open, m)
  BY DEF NoteStart
<1> HIDE DEF x
<1>6. /\ elements' \in Seq(Element) /\ Len(elements') = m /\ DOMAIN elements' = 1 .. m
      /\ \A c \in 1 .. m - 1 : elements'[c] = elements[c]
      /\ elements'[m] = x
  BY <1>1, <1>4, <1>5, AppendLast
<1>7. /\ open' \in Seq(Nat) /\ Len(open') = k + 1 /\ DOMAIN open' = 1 .. k + 1
      /\ \A i \in 1 .. k : open'[i] = open[i]
      /\ open'[k + 1] = m
  BY <1>1, <1>5, AppendLast
<1> HIDE DEF m, k
<1>8. Ended' = Ended
  <2>1. \A c : c \in ToSet(open') <=> c \in ToSet(open) \/ c = m
    <3>1. \A i : i \in 1 .. k + 1 <=> i \in 1 .. k \/ i = k + 1
      BY <1>1
    <3> QED
      BY <1>1, <1>7, <3>1 DEF ToSet
  <2>2. \A c : c \in DOMAIN elements' <=> c \in DOMAIN elements \/ c = m
    <3>1. \A c : c \in 1 .. m <=> c \in 1 .. m - 1 \/ c = m
      BY <1>1
    <3> QED
      BY <1>1, <1>6, <3>1
  <2>3. m \notin DOMAIN elements
    BY <1>1
  <2> QED
    BY <2>1, <2>2, <2>3 DEF Ended
<1> QED
  BY <1>3, <1>6, <1>7, <1>8 DEF m, k

\* The notes stay in order, at each call.
LEMMA StartTable ==
  ASSUME Table, NEW name \in Pieces, NoteStart(name), OpenAtCall
  PROVE  Table'
<1> DEFINE m == Len(elements) + 1
           k == Len(open)
<1>1. /\ m \in Nat \ {0} /\ k \in Nat /\ DOMAIN open = 1 .. k /\ DOMAIN elements = 1 .. m - 1
      /\ \A i \in DOMAIN open : open[i] \in Nat /\ open[i] \in DOMAIN elements
      /\ \A c \in DOMAIN elements : elements[c].parent \in Nat
  BY TableTypes DEF Table
<1>2. /\ elements' \in Seq(Element) /\ DOMAIN elements' = 1 .. m
      /\ \A c \in 1 .. m - 1 : elements'[c] = elements[c]
      /\ elements'[m].parent = IF k = 0 THEN 0 ELSE open[k]
      /\ open' \in Seq(Nat) /\ DOMAIN open' = 1 .. k + 1
      /\ \A i \in 1 .. k : open'[i] = open[i]
      /\ open'[k + 1] = m
  BY StartNotes
<1>3. k = 0 => m = 1
  <2>1. open \in Seq(Nat) /\ elements \in Seq(Element)
    BY DEF Table
  <2> QED
    BY <2>1, EmptySeq DEF OpenAtCall
<1> HIDE DEF m, k
<1>4. ASSUME NEW i \in DOMAIN open'
      PROVE  /\ open'[i] \in DOMAIN elements'
             /\ elements'[open'[i]].parent = IF i = 1 THEN 0 ELSE open'[i - 1]
             /\ \A j \in DOMAIN open' : i < j => open'[i] < open'[j]
  <2>1. CASE i = k + 1
    BY <1>1, <1>2, <2>1
  <2>2. CASE i # k + 1
    <3>1. i \in 1 .. k /\ open'[i] = open[i] /\ open[i] \in 1 .. m - 1
      BY <1>1, <1>2, <2>2
    <3>2. elements'[open'[i]].parent = IF i = 1 THEN 0 ELSE open'[i - 1]
      BY <1>1, <1>2, <3>1 DEF Table
    <3>3. ASSUME NEW j \in DOMAIN open', i < j
          PROVE  open'[i] < open'[j]
      <4>1. CASE j = k + 1
        BY <1>1, <1>2, <3>1, <4>1
      <4>2. CASE j # k + 1
        <5>1. j \in 1 .. k /\ open'[j] = open[j]
          BY <1>1, <1>2, <4>2
        <5> QED
          BY <1>1, <3>1, <3>3, <5>1 DEF Table
      <4> QED
        BY <4>1, <4>2
    <3> QED
      BY <1>1, <1>2, <3>1, <3>2, <3>3
  <2> QED
    BY <2>1, <2>2
<1>5. ASSUME NEW c \in DOMAIN elements'
      PROVE  /\ elements'[c].parent < c /\ (elements'[c].parent = 0 => c = 1)
             /\ \A i \in DOMAIN open' : open'[i] < c => open'[i] <= elements'[c].parent
  <2>1. CASE c = m
    <3>1. elements'[c].parent < c /\ (elements'[c].parent = 0 => c = 1)
      BY <1>1, <1>2, <1>3, <2>1
    <3>2. ASSUME NEW i \in DOMAIN open', open'[i] < c
          PROVE  open'[i] <= elements'[c].parent
      <4>1. i \in 1 .. k /\ open'[i] = open[i] /\ k # 0 /\ k \in 1 .. k
        BY <1>1, <1>2, <2>1, <3>2
      <4>2. open[i] <= open[k]
        <5>1. i < k => open[i] < open[k]
          BY <1>1, <4>1 DEF Table
        <5> QED
          BY <1>1, <4>1, <5>1
      <4> QED
        BY <1>2, <2>1, <4>1, <4>2
    <3> QED
      BY <3>1, <3>2
  <2>2. CASE c # m
    <3>1. c \in DOMAIN elements /\ elements'[c] = elements[c] /\ c < m
      BY <1>1, <1>2, <2>2
    <3>2. ASSUME NEW i \in DOMAIN open', open'[i] < c
          PROVE  open'[i] <= elements'[c].parent
      <4>1. i \in 1 .. k /\ open'[i] = open[i]
        BY <1>1, <1>2, <3>1, <3>2
      <4> QED
        BY <1>1, <3>1, <3>2, <4>1 DEF Table
    <3> QED
      BY <3>1, <3>2 DEF Table
  <2> QED
    BY <2>1, <2>2
<1> QED
  BY <1>2, <1>4, <1>5 DEF Table

\* What an end tag notes.
LEMMA EndNotes ==
  ASSUME Table, NEW name, NoteEnd(name), open # <<>>
  PROVE  LET k == Len(open)
             y == open[k]
         IN  /\ k \in Nat \ {0} /\ elements' = elements
             /\ elements[y].name = name /\ y \in DOMAIN elements
             /\ open' \in Seq(Nat) /\ DOMAIN open' = 1 .. k - 1 /\ Len(open') = k - 1
             /\ \A i \in 1 .. k - 1 : open'[i] = open[i]
             /\ Ended' = Ended \cup {y} /\ y \notin Ended
<1> DEFINE k == Len(open)
           y == open[k]
<1>1. /\ open \in Seq(Nat) /\ open' = Front(open) /\ elements' = elements
      /\ elements[Last(open)].name = name
  BY DEF Table, NoteEnd
<1>2. /\ k \in Nat \ {0} /\ DOMAIN open = 1 .. k /\ Last(open) = y
      /\ open' \in Seq(Nat) /\ DOMAIN open' = 1 .. k - 1 /\ Len(open') = k - 1
      /\ \A i \in 1 .. k - 1 : open'[i] = open[i]
  BY <1>1, FrontLast
<1>3. /\ y \in DOMAIN elements
      /\ \A i \in 1 .. k - 1 : open[i] # y
  <2>1. k \in DOMAIN open
    BY <1>2
  <2>2. y \in DOMAIN elements
    BY <2>1 DEF Table
  <2>3. \A i \in DOMAIN open : open[i] \in Nat
    BY TableTypes
  <2>4. ASSUME NEW i \in 1 .. k - 1
        PROVE  open[i] # y
    <3>1. i \in DOMAIN open /\ i < k
      BY <1>2
    <3>2. open[i] < open[k]
      BY <2>1, <3>1 DEF Table
    <3> HIDE DEF k
    <3> QED
      BY <2>1, <2>3, <3>1, <3>2
  <2> QED
    BY <2>2, <2>4
<1>4. /\ \A c : c \in ToSet(open) <=> c \in ToSet(open') \/ c = y
      /\ y \notin ToSet(open')
  <2>1. \A i : i \in 1 .. k <=> i \in 1 .. k - 1 \/ i = k
    BY <1>2
  <2> HIDE DEF k
  <2> QED
    BY <1>2, <1>3, <2>1 DEF ToSet, y
<1> HIDE DEF y
<1>5. Ended' = Ended \cup {y} /\ y \notin Ended
  BY <1>1, <1>3, <1>4 DEF Ended
<1> QED
  BY <1>1, <1>2, <1>3, <1>5 DEF y

LEMMA EndTable ==
  ASSUME Table, NEW name, NoteEnd(name), open # <<>>
  PROVE  Table'
<1> DEFINE k == Len(open)
<1>1. /\ k \in Nat \ {0} /\ elements' = elements /\ open' \in Seq(Nat)
      /\ DOMAIN open' = 1 .. k - 1 /\ \A i \in 1 .. k - 1 : open'[i] = open[i]
  BY EndNotes
<1>2. DOMAIN open = 1 .. k /\ elements \in Seq(Element)
  BY TableTypes DEF Table
<1> HIDE DEF k
<1>3. \A i \in DOMAIN open' : i \in DOMAIN open /\ (i # 1 => i - 1 \in 1 .. k - 1)
  BY <1>1, <1>2
<1> QED
  BY <1>1, <1>2, <1>3 DEF Table

\* What a text notes.
LEMMA TextNotes ==
  ASSUME Table, NEW piece \in Pieces, NoteText(piece), OpenAtCall
  PROVE  LET k == Len(open)
             y == open[k]
         IN  /\ elements' \in Seq(Element) /\ DOMAIN elements' = DOMAIN elements
             /\ \A c \in DOMAIN elements :
                  /\ elements'[c].name = elements[c].name
                  /\ elements'[c].parent = elements[c].parent
             /\ \A c \in DOMAIN elements : k = 0 \/ c # y => elements'[c] = elements[c]
             /\ k # 0 => elements'[y].text = Append(elements[y].text, piece)
             /\ open' = open /\ Ended' = Ended
             /\ \A c \in Ended : elements'[c] = elements[c]
<1> DEFINE k == Len(open)
           y == open[k]
<1>1. /\ elements \in Seq(Element) /\ open \in Seq(Nat) /\ open' = open
      /\ k \in Nat /\ DOMAIN open = 1 .. k /\ (open = <<>> <=> k = 0)
      /\ \A c \in DOMAIN elements : elements[c] \in Element /\ elements[c].text \in Seq(Pieces)
      /\ elements' = [elements EXCEPT ![y].text = Append(@, piece)]
  BY TableTypes, EmptySeq DEF Table, NoteText, Last
<1>2. DOMAIN elements' = DOMAIN elements
  BY <1>1
<1>3. CASE k = 0
  <2>1. DOMAIN elements = {} /\ elements = <<>>
    BY <1>1, <1>3 DEF OpenAtCall
  <2>2. elements' = elements
    BY <1>1, <2>1
  <2> QED
    BY <1>1, <1>3, <2>1, <2>2 DEF Ended
<1>4. CASE k # 0
  <2>1. k \in DOMAIN open /\ y \in DOMAIN elements
    BY <1>1, <1>4 DEF Table
  <2> DEFINE t == Append(elements[y].text, piece)
             x == [elements[y] EXCEPT !.text = t]
  <2>2. t \in Seq(Pieces)
    BY <1>1, <2>1, AppendProperties
  <2> HIDE DEF t
  <2>3. /\ x \in Element /\ x.name = elements[y].name /\ x.parent = elements[y].parent
        /\ x.text = t
    BY <1>1, <2>1, <2>2 DEF Element
  <2>4. elements' = [elements EXCEPT ![y] = x]
    BY <1>1 DEF t
  <2> HIDE DEF x
  <2>5. elements' \in Seq(Element)
    <3>1. y \in 1 .. Len(elements)
      BY <1>1, <2>1, LenProperties
    <3> QED
      BY <1>1, <2>3, <2>4, <3>1, ExceptSeq
  <2>6. \A c \in DOMAIN elements : elements'[c] = IF c = y THEN x ELSE elements[c]
    BY <2>4
  <2>7. Ended' = Ended /\ y \notin Ended
    BY <1>1, <1>2, <2>1 DEF Ended, ToSet
  <2>8. \A c \in Ended : c \in DOMAIN elements
    BY DEF Ended
  <2> QED
    BY <1>1, <1>2, <1>4, <2>1, <2>3, <2>5, <2>6, <2>7, <2>8 DEF t
<1> QED
  BY <1>3, <1>4

LEMMA TextTable ==
  ASSUME Table, NEW piece \in Pieces, NoteText(piece), OpenAtCall
  PROVE  Table'
<1>1. /\ elements' \in Seq(Element) /\ DOMAIN elements' = DOMAIN elements /\ open' = open
      /\ \A c \in DOMAIN elements : elements'[c].parent = elements[c].parent
  BY TextNotes
<1> QED
  BY <1>1 DEF Table

-----------------------------------------------------------------------------
(***************************************************************************)
(* The reference, after a call.                                            *)
(***************************************************************************)
LEMMA NamedTypes ==
  ASSUME Table
  PROVE  /\ Ended \subseteq DOMAIN elements
         /\ \A i \in DOMAIN open : open[i] \notin Ended
         /\ \A e, name : Named(e, name) \subseteq Ended
         /\ \A e, list, name : Listed(e, list, name) \subseteq Ended
  BY DEF Ended, Named, Listed, ToSet

\* Nothing has ended.
LEMMA SameReference ==
  ASSUME Table, Latest, Ended' = Ended,
         \A c \in DOMAIN elements : /\ elements'[c].name = elements[c].name
                                    /\ elements'[c].parent = elements[c].parent,
         \A c \in Ended : elements'[c] = elements[c]
  PROVE  /\ \A e, name : Named(e, name)' = Named(e, name)
         /\ \A e, list, name : Listed(e, list, name)' = Listed(e, list, name)
         /\ \A e, key : TextOf(e, key)' = TextOf(e, key)
         /\ \A e, keys : TextsOf(e, keys)' = TextsOf(e, keys)
         /\ \A e : IconOf(e)' = IconOf(e)
         /\ Latest'
<1>1. \A c \in Ended : c \in DOMAIN elements
  BY NamedTypes
<1>2. \A e, name : Named(e, name)' = Named(e, name)
  BY <1>1 DEF Named
<1>3. \A e, list, name : Listed(e, list, name)' = Listed(e, list, name)
  <2>1. \A c \in Ended :
          /\ elements'[c].name = elements[c].name /\ elements'[c].parent = elements[c].parent
          /\ elements[c].parent # 0 =>
               /\ elements'[elements[c].parent].name = elements[elements[c].parent].name
               /\ elements'[elements[c].parent].parent = elements[elements[c].parent].parent
    BY <1>1, TableTypes
  <2> QED
    BY <2>1 DEF Listed
<1>4. \A e, key : TextOf(e, key)' = TextOf(e, key)
  <2> SUFFICES ASSUME NEW e, NEW key PROVE TextOf(e, key)' = TextOf(e, key)
    OBVIOUS
  <2> DEFINE N == Named(e, key)
             c == Max(N)
  <2>1. Named(e, key)' = N
    BY <1>2
  <2>2. TextOf(e, key) = IF N = {} THEN NoText ELSE elements[c].text
    BY DEF TextOf
  <2>3. TextOf(e, key)' = IF N = {} THEN NoText ELSE elements'[c].text
    BY <2>1 DEF TextOf
  <2>4. N # {} => c \in N
    BY DEF Latest
  <2>5. \A x \in N : x \in Ended
    BY NamedTypes
  <2> HIDE DEF N, c
  <2> QED
    BY <2>2, <2>3, <2>4, <2>5
<1>5. \A e, keys : TextsOf(e, keys)' = TextsOf(e, keys)
  BY <1>4 DEF TextsOf
<1>6. \A e : IconOf(e)' = IconOf(e)
  BY <1>4 DEF IconOf
<1>7. Latest'
  BY <1>2 DEF Latest
<1> QED
  BY <1>2, <1>3, <1>4, <1>5, <1>6, <1>7

\* The innermost open element ends: it is the last one of its name in the element
\* around it, and in the lists of the one around that.
LEMMA EndReference ==
  ASSUME Table, Latest, NEW name, NoteEnd(name), open # <<>>
  PROVE  LET y == open[Len(open)]
             p == elements[y].parent
         IN  /\ \A e, n : Named(e, n)' = IF e = p /\ n = name THEN Named(e, n) \cup {y}
                                                              ELSE Named(e, n)
             /\ \A e, l, n : Listed(e, l, n)' =
                  IF n = name /\ p # 0 /\ elements[p].name = l /\ elements[p].parent = e
                  THEN Listed(e, l, n) \cup {y} ELSE Listed(e, l, n)
             /\ p # 0 => \A l, n : \A c \in Listed(elements[p].parent, l, n) : c < y
             /\ \A e, n : TextOf(e, n)' = IF e = p /\ n = name THEN elements[y].text
                                                               ELSE TextOf(e, n)
             /\ Latest'
<1> DEFINE k == Len(open)
           y == open[k]
           p == elements[y].parent
<1>1. /\ k \in Nat \ {0} /\ elements' = elements /\ Ended' = Ended \cup {y} /\ y \notin Ended
      /\ elements[y].name = name /\ y \in DOMAIN elements
  BY EndNotes
<1>2. /\ DOMAIN elements = 1 .. Len(elements) /\ Len(elements) \in Nat /\ DOMAIN open = 1 .. k
      /\ \A c \in DOMAIN elements :
           /\ elements[c].parent \in Nat /\ elements[c].parent < c /\ c \in Nat
           /\ elements[c].parent # 0 => elements[c].parent \in DOMAIN elements
           /\ y < c => y <= elements[c].parent
  <2>1. k \in DOMAIN open
    BY <1>1, TableTypes
  <2> HIDE DEF k
  <2>2. \A c \in DOMAIN elements : y < c => y <= elements[c].parent
    BY <2>1 DEF Table
  <2>3. \A c \in DOMAIN elements : elements[c].parent < c
    BY DEF Table
  <2> QED
    BY <2>2, <2>3, TableTypes DEF k
<1> HIDE DEF k, y
<1>3. \A e, n : Named(e, n)' = IF e = p /\ n = name THEN Named(e, n) \cup {y} ELSE Named(e, n)
  BY <1>1 DEF Named
<1>4. \A e, l, n : Listed(e, l, n)' =
                  IF n = name /\ p # 0 /\ elements[p].name = l /\ elements[p].parent = e
                  THEN Listed(e, l, n) \cup {y} ELSE Listed(e, l, n)
  BY <1>1 DEF Listed
<1>5. ASSUME p # 0
      PROVE  \A l, n : \A c \in Listed(elements[p].parent, l, n) : c < y
  <2> SUFFICES ASSUME NEW l, NEW n, NEW c \in Listed(elements[p].parent, l, n)
               PROVE  c < y
    OBVIOUS
  <2> DEFINE g == elements[p].parent
             around == elements[c].parent
  <2>1. c \in Ended /\ around # 0 /\ elements[around].parent = g
    BY DEF Listed
  <2>2. c \in DOMAIN elements /\ c # y /\ around \in DOMAIN elements
    BY <1>1, <1>2, <2>1, NamedTypes
  <2>3. p \in DOMAIN elements /\ g < p /\ p < y /\ g \in Nat /\ p \in Nat /\ y \in Nat /\ c \in Nat
    BY <1>1, <1>2, <1>5, <2>2
  <2>4. CASE y < c
    <3>1. y <= around
      BY <1>2, <2>2, <2>4
    <3>2. around # y
      BY <2>1, <2>3
    <3>3. y <= elements[around].parent
      BY <1>2, <2>2, <2>3, <3>1, <3>2
    <3> QED
      BY <2>1, <2>3, <3>3
  <2> QED
    BY <2>2, <2>3, <2>4
<1>6. \A c \in Named(p, name) : c < y
  <2> SUFFICES ASSUME NEW c \in Named(p, name) PROVE c < y
    OBVIOUS
  <2>1. c \in Ended /\ elements[c].parent = p
    BY DEF Named
  <2>2. c \in DOMAIN elements /\ c # y
    BY <1>1, <2>1, NamedTypes
  <2>3. p < y /\ p \in Nat /\ y \in Nat /\ c \in Nat
    BY <1>1, <1>2, <2>2
  <2> QED
    BY <1>2, <2>1, <2>2, <2>3
<1>7. Max(Named(p, name) \cup {y}) = y
  <2>1. y \in Nat /\ \A c \in Named(p, name) : c \in Nat
    <3>1. \A c \in Named(p, name) : c \in DOMAIN elements
      BY NamedTypes
    <3> QED
      BY <1>1, <1>2, <3>1
  <2> DEFINE S == Named(p, name) \cup {y}
  <2>2. y \in S /\ \A x \in S : y >= x /\ x \in Nat
    BY <1>6, <2>1
  <2> HIDE DEF S
  <2>3. \A z \in S : (\A x \in S : z >= x) => z = y
    BY <2>1, <2>2
  <2>4. Max(S) = CHOOSE z \in S : \A x \in S : z >= x
    BY DEF Max
  <2> QED
    BY <2>2, <2>3, <2>4 DEF S
<1>8. ASSUME NEW e, NEW n
      PROVE  TextOf(e, n)' = IF e = p /\ n = name THEN elements[y].text ELSE TextOf(e, n)
  <2>1. CASE e = p /\ n = name
    <3>1. Named(e, n)' = Named(e, n) \cup {y} /\ Max(Named(e, n) \cup {y}) = y
      BY <1>3, <1>7, <2>1
    <3>2. TextOf(e, n)' = elements[y].text
      BY <1>1, <3>1 DEF TextOf
    <3> QED
      BY <2>1, <3>2
  <2>2. CASE ~ (e = p /\ n = name)
    <3>1. Named(e, n)' = Named(e, n)
      BY <1>3, <2>2
    <3> QED
      BY <1>1, <2>2, <3>1 DEF TextOf
  <2> QED
    BY <2>1, <2>2
<1>9. Latest'
  <2> SUFFICES ASSUME NEW e, NEW n, Named(e, n)' # {}
               PROVE  Max(Named(e, n)') \in Named(e, n)'
    BY DEF Latest
  <2>1. CASE e = p /\ n = name
    BY <1>3, <1>7, <2>1
  <2>2. CASE ~ (e = p /\ n = name)
    <3>1. Named(e, n)' = Named(e, n)
      BY <1>3, <2>2
    <3> QED
      BY <3>1 DEF Latest
  <2> QED
    BY <2>1, <2>2
<1> QED
  BY <1>3, <1>4, <1>5, <1>8, <1>9 DEF y, k

\* A call is noted as what it is.
LEMMA CallNotes ==
  ASSUME DocumentCall
  PROVE  \/ StartElement /\ NoteStart(Head(tags).text) /\ Head(tags).call = "startElement"
         \/ EndElement /\ NoteEnd(Head(tags).text) /\ Head(tags).call = "endElement"
         \/ Characters /\ NoteText(Head(tags).text) /\ Head(tags).call = "characters"
<1>1. StartElement \/ EndElement \/ Characters
  BY DEF DocumentCall, Call
<1>2. CASE StartElement
  BY <1>2 DEF DocumentCall, StartElement
<1>3. CASE EndElement
  BY <1>3 DEF DocumentCall, EndElement
<1>4. CASE Characters
  BY <1>4 DEF DocumentCall, Characters
<1> QED
  BY <1>1, <1>2, <1>3, <1>4

\* The open elements are those that the calls have opened.
LEMMA CallReading ==
  ASSUME HandlerInv, Table, Reading, DocumentCall
  PROVE  OpenAtCall /\ Reading'
<1>1. PICK calls : calls = Calls[document]
  OBVIOUS
<1>2. PICK n \in 0 .. Len(calls) :
        AsRead(calls, n) /\ Len(open) = Depth(calls, n) /\ (n = 0 => elements = <<>>)
  BY <1>1 DEF Reading
<1>3. /\ document \in Documents /\ document' = document
      /\ tags \in Seq(CallType) /\ tags # <<>> /\ tags' = Tail(tags)
      /\ Head(tags).text \in Pieces
  BY NextTag DEF Reading, DocumentCall, Call, HandlerInv, HandlerTypeOK, CallType
<1>4. calls \in Seq(CallType) /\ Balanced(calls)
  BY <1>1, <1>3, CallsType
<1>5. /\ n + 1 \in 0 .. Len(calls) /\ n \in Nat /\ n # Len(calls)
      /\ Head(tags) = calls[n + 1] /\ AsRead(calls, n + 1)'
  BY <1>2, <1>3, <1>4, AsReadStep
<1>6. /\ Depth(calls, n) \in Int /\ Depth(calls, n + 1) \in Int /\ Depth(calls, n + 1) >= 0
      /\ Depth(calls, n + 1) =
           Depth(calls, n) + (IF Head(tags).call = "startElement" THEN 1 ELSE 0)
                           - (IF Head(tags).call = "endElement" THEN 1 ELSE 0)
      /\ Depth(calls, n) = 0 => n = 0
  <2>1. /\ Depth(calls, n) \in Int
        /\ Depth(calls, n + 1) =
             Depth(calls, n) + (IF Head(tags).call = "startElement" THEN 1 ELSE 0)
                             - (IF Head(tags).call = "endElement" THEN 1 ELSE 0)
    BY <1>5, DepthStep
  <2>2. Depth(calls, n + 1) >= 0 /\ (Depth(calls, n) = 0 => n = 0)
    BY <1>4, <1>5, BalancedDepth
  <2> QED
    BY <2>1, <2>2
<1>7. Len(open) \in Nat /\ (open = <<>> <=> Len(open) = 0)
  BY TableTypes, EmptySeq DEF Table
<1>8. OpenAtCall
  BY <1>2, <1>6, <1>7 DEF OpenAtCall
<1>9. Len(open') = Depth(calls, n + 1)
  <2>1. CASE NoteStart(Head(tags).text) /\ Head(tags).call = "startElement"
    <3>1. Len(open') = Len(open) + 1
      BY <1>3, <2>1, StartNotes
    <3> QED
      BY <1>2, <1>6, <1>7, <2>1, <3>1
  <2>2. CASE NoteEnd(Head(tags).text) /\ Head(tags).call = "endElement"
    <3>1. Len(open') = Len(open) - 1
      BY <1>8, <2>2, EndNotes DEF OpenAtCall
    <3> QED
      BY <1>2, <1>6, <1>7, <2>2, <3>1
  <2>3. CASE NoteText(Head(tags).text) /\ Head(tags).call = "characters"
    <3>1. open' = open
      BY <2>3 DEF NoteText
    <3> QED
      BY <1>2, <1>6, <1>7, <2>3, <3>1
  <2> QED
    BY <2>1, <2>2, <2>3, CallNotes
<1> QED
  <2>1. calls = Calls[document'] /\ document' \in Documents /\ n + 1 # 0
    BY <1>1, <1>3, <1>5
  <2> QED
    BY <1>5, <1>8, <1>9, <2>1 DEF Reading

\* The invariant of the notes, at each call.
LEMMA CallDocumentInv ==
  ASSUME HandlerInv, DocumentInv, DocumentCall
  PROVE  DocumentInv'
<1>1. Table /\ Latest /\ Reading /\ Head(tags).text \in Pieces
  BY NextTag DEF DocumentInv, DocumentCall
<1>2. OpenAtCall /\ Reading'
  BY <1>1, CallReading
<1>3. CASE NoteStart(Head(tags).text)
  <2>1. /\ Ended' = Ended /\ \A c \in 1 .. (Len(elements) + 1) - 1 : elements'[c] = elements[c]
    BY <1>1, <1>3, StartNotes
  <2>2. \A c \in DOMAIN elements : elements'[c] = elements[c]
    BY <1>1, <2>1, TableTypes
  <2>3. \A c \in Ended : elements'[c] = elements[c]
    BY <1>1, <2>2, NamedTypes
  <2>4. Latest'
    BY <1>1, <2>1, <2>2, <2>3, SameReference
  <2> QED
    BY <1>1, <1>2, <1>3, <2>4, StartTable DEF DocumentInv
<1>4. CASE NoteEnd(Head(tags).text) /\ Head(tags).call = "endElement"
  <2>1. open # <<>>
    BY <1>2, <1>4 DEF OpenAtCall
  <2> QED
    BY <1>1, <1>2, <1>4, <2>1, EndTable, EndReference DEF DocumentInv
<1>5. CASE NoteText(Head(tags).text)
  <2>1. /\ Ended' = Ended
        /\ \A c \in DOMAIN elements : /\ elements'[c].name = elements[c].name
                                      /\ elements'[c].parent = elements[c].parent
        /\ \A c \in Ended : elements'[c] = elements[c]
    BY <1>1, <1>2, <1>5, TextNotes
  <2>2. Latest'
    BY <1>1, <2>1, SameReference
  <2> QED
    BY <1>1, <1>2, <1>5, <2>2, TextTable DEF DocumentInv
<1> QED
  BY <1>3, <1>4, <1>5, CallNotes

\* Before the first call nothing is noted.
LEMMA InitDocumentInv == DocumentInit => DocumentInv
<1> SUFFICES ASSUME DocumentInit PROVE DocumentInv
  OBVIOUS
<1>1. Init /\ elements = <<>> /\ open = <<>>
  BY DEF DocumentInit
<1>2. Table
  BY <1>1, EmptySeq DEF Table
<1>3. Latest
  <2>1. \A e, n : Named(e, n) = {}
    BY <1>1 DEF Named, Ended
  <2> QED
    BY <2>1 DEF Latest
<1>4. Reading
  <2>1. PICK calls : calls = Calls[document]
    OBVIOUS
  <2>2. document \in Documents /\ tags = calls
    BY <1>1, <2>1 DEF Init
  <2>3. calls \in Seq(CallType) /\ Len(calls) \in Nat
    BY <2>1, <2>2, CallsType
  <2>4. AsRead(calls, 0)
    BY <2>2, <2>3, LenProperties DEF AsRead
  <2>5. Len(open) = Depth(calls, 0)
    BY <1>1, DepthStep
  <2>6. 0 \in 0 .. Len(calls)
    BY <2>3
  <2> QED
    BY <1>1, <2>1, <2>2, <2>4, <2>5, <2>6 DEF Reading
<1> QED
  BY <1>2, <1>3, <1>4 DEF DocumentInv

\* The other steps leave the reader's notes alone.
LEMMA OtherDocumentInv ==
  ASSUME DocumentInv, UNCHANGED <<document, tags, elements, open>>
  PROVE  DocumentInv'
<1>1. Table'
  BY DEF DocumentInv, Table
<1>2. \A e, n : Named(e, n)' = Named(e, n)
  BY DEF Named, Ended
<1>3. Latest'
  BY <1>2 DEF DocumentInv, Latest
<1>4. \A calls, n : AsRead(calls, n)' <=> AsRead(calls, n)
  BY DEF AsRead
<1>5. Reading'
  BY <1>4 DEF DocumentInv, Reading
<1> QED
  BY <1>1, <1>3, <1>5 DEF DocumentInv

-----------------------------------------------------------------------------
(***************************************************************************)
(* The open elements and the stack of their kinds, in a document that is a *)
(* description as far as it has been read.                                 *)
(***************************************************************************)
IsDevice(e) == elements[e].parent = 1 /\ elements[e].name = "device"

SoFar ==
  /\ 1 \in DOMAIN elements => elements[1].name = "root"
  /\ \A c, d \in DOMAIN elements : IsDevice(c) /\ IsDevice(d) => c = d
  /\ \A e \in DOMAIN elements :
       elements[e].parent # 0 => elements[elements[e].parent].name \notin TextNames

\* mStatusStack[i + 1] is the kind of the element open[i].  In an icon, a service
\* or an unknown element there is nothing but texts and unknown elements.
StackInv ==
  /\ Len(mStatusStack) = Len(open) + 1
  /\ \A i \in DOMAIN open :
       mStatusStack[i + 1] =
         IF i = 1 THEN "RootElement" ELSE Child(mStatusStack[i], elements[open[i]].name)
  /\ TextsOnTop(mStatusStack)
  /\ HoldsText(top) => mCharacterData = elements[open[Len(open)]].text
  /\ \A i, j \in DOMAIN mStatusStack :
       i < j /\ mStatusStack[i] \in {"IconElement", "ServiceElement", "UnknownElement"}
         => mStatusStack[j] \in {"DataElement", "UnknownElement"}

\* What is a description so far has been one all along.
LEMMA SoFarBack ==
  ASSUME Table, DOMAIN elements \subseteq DOMAIN elements',
         \A c \in DOMAIN elements : /\ elements'[c].name = elements[c].name
                                    /\ elements'[c].parent = elements[c].parent,
         SoFar'
  PROVE  SoFar
<1>1. 1 \in DOMAIN elements => elements[1].name = "root"
  BY DEF SoFar
<1>2. \A c, d \in DOMAIN elements : IsDevice(c) /\ IsDevice(d) => c = d
  BY DEF SoFar, IsDevice
<1>3. \A e \in DOMAIN elements :
         elements[e].parent # 0 => elements[elements[e].parent].name \notin TextNames
  <2> SUFFICES ASSUME NEW e \in DOMAIN elements, elements[e].parent # 0
               PROVE  elements[elements[e].parent].name \notin TextNames
    OBVIOUS
  <2>1. elements[e].parent \in DOMAIN elements
    BY TableTypes
  <2>2. e \in DOMAIN elements' /\ elements'[e].parent = elements[e].parent
    BY <2>1
  <2>3. elements'[elements'[e].parent].name \notin TextNames
    BY <2>2 DEF SoFar, TextNames
  <2> QED
    BY <2>1, <2>2, <2>3
<1> QED
  BY <1>1, <1>2, <1>3 DEF SoFar

\* What kinds of elements are in what.
LEMMA KindOf ==
  ASSUME NEW s, NEW name
  PROVE  LET x == Child(s, name) IN
           /\ x = "DeviceElement" <=>
                name = "device" /\ s \in {"RootElement", "DeviceListElement"}
           /\ x = "UrlBaseElement" <=> s = "RootElement" /\ name = "URLBase"
           /\ x = "DataElement" <=> \/ s = "DeviceElement" /\ name \in DeviceKeys
                                    \/ s = "IconElement" /\ name \in IconKeys
                                    \/ s = "ServiceElement" /\ name \in ServiceKeys
           /\ x = "IconListElement" <=> s = "DeviceElement" /\ name = "iconList"
           /\ x = "ServiceListElement" <=> s = "DeviceElement" /\ name = "serviceList"
           /\ x = "DeviceListElement" <=> s = "DeviceElement" /\ name = "deviceList"
           /\ x = "IconElement" <=> s = "IconListElement" /\ name = "icon"
           /\ x = "ServiceElement" <=> s = "ServiceListElement" /\ name = "service"
           /\ x \notin {"TopLevel", "RootElement"}
           /\ x \in Statuses
           /\ s \in {"IconElement", "ServiceElement", "UnknownElement"} =>
                x \in {"DataElement", "UnknownElement"}
  BY DEF Child, Statuses, DeviceKeys

\* The stack and the open elements, next to each other.
LEMMA StackAt ==
  ASSUME HandlerInv, Table, StackInv
  PROVE  LET k == Len(open) IN
           /\ k \in Nat /\ DOMAIN open = 1 .. k
           /\ mStatusStack \in Seq(Statuses) /\ DOMAIN mStatusStack = 1 .. k + 1
           /\ mStatusStack # <<>> /\ top = mStatusStack[k + 1] /\ mStatusStack[1] = "TopLevel"
           /\ k > 0 => mStatusStack[2] = "RootElement" /\ open[1] = 1
           /\ \A i \in 2 .. k :
                /\ mStatusStack[i + 1] = Child(mStatusStack[i], elements[open[i]].name)
                /\ elements[open[i]].parent = open[i - 1]
           /\ \A i \in 1 .. k : open[i] = 1 <=> i = 1
           /\ \A i \in 1 .. k + 1 : mStatusStack[i] = "RootElement" <=> i = 2
<1> DEFINE k == Len(open)
<1>1. /\ k \in Nat /\ DOMAIN open = 1 .. k
      /\ mStatusStack \in Seq(Statuses) /\ Len(mStatusStack) = k + 1 /\ Nests(mStatusStack)
  BY TableTypes DEF HandlerInv, HandlerTypeOK, Nesting, StackInv
<1>2. DOMAIN mStatusStack = 1 .. k + 1 /\ mStatusStack # <<>> /\ top = mStatusStack[k + 1]
  BY <1>1, EmptySeq, LenProperties DEF top, Last
<1> HIDE DEF k
<1>3. /\ mStatusStack[1] = "TopLevel"
      /\ \A i \in 1 .. k + 1 : mStatusStack[i] = "RootElement" <=> i = 2
  <2>1. \A i \in DOMAIN mStatusStack :
          (mStatusStack[i] = "TopLevel" <=> i = 1) /\ (mStatusStack[i] = "RootElement" <=> i = 2)
    BY <1>1 DEF Nests
  <2>2. 1 \in DOMAIN mStatusStack
    BY <1>1, <1>2
  <2> QED
    BY <1>2, <2>1, <2>2
<1>4. ASSUME k > 0
      PROVE  mStatusStack[2] = "RootElement" /\ open[1] = 1
  <2>1. 1 \in DOMAIN open
    BY <1>1, <1>4
  <2>2. elements[open[1]].parent = 0 /\ open[1] \in DOMAIN elements
    BY <2>1 DEF Table
  <2>3. mStatusStack[1 + 1] = "RootElement"
    BY <2>1 DEF StackInv
  <2> QED
    BY <2>2, <2>3 DEF Table
<1>5. \A i \in 2 .. k :
        /\ mStatusStack[i + 1] = Child(mStatusStack[i], elements[open[i]].name)
        /\ elements[open[i]].parent = open[i - 1]
  <2>1. \A i \in 2 .. k : i \in DOMAIN open /\ i # 1
    BY <1>1
  <2> QED
    BY <2>1 DEF StackInv, Table
<1>6. \A i \in 1 .. k : open[i] = 1 <=> i = 1
  <2> SUFFICES ASSUME NEW i \in 1 .. k PROVE open[i] = 1 <=> i = 1
    OBVIOUS
  <2>1. k > 0 /\ 1 \in DOMAIN open /\ i \in DOMAIN open /\ open[1] = 1
    BY <1>1, <1>4
  <2>2. i # 1 => 1 < i
    OBVIOUS
  <2>3. 1 < i => open[1] < open[i]
    BY <2>1 DEF Table
  <2> QED
    BY <2>1, <2>2, <2>3
<1> QED
  BY <1>1, <1>2, <1>3, <1>4, <1>5, <1>6 DEF k

\* The kind of an element that starts now.
Opened(name) == IF open = <<>> THEN "RootElement" ELSE Child(top, name)

\* A start tag: the element is noted on the stack, since the one around it does
\* not hold text.
LEMMA StartStack ==
  ASSUME HandlerInv, Table, OpenAtCall, StackInv, Call, StartElement,
         NEW name \in Pieces, name = Head(tags).text, NoteStart(name), SoFar'
  PROVE  LET k == Len(open)
             x == Opened(name)
         IN  /\ StackInv' /\ outcome' = "reading" /\ OpenElement(name) /\ ~ HoldsText(top)
             /\ mCharacterData' = NoText
             /\ UNCHANGED <<mCurrentService, mCurrentIcon, rootDevice, mBaseUrl>>
             /\ mStatusStack'[k + 2] = x
             /\ \A i \in 1 .. k + 1 : mStatusStack'[i] = mStatusStack[i]
<1> DEFINE k == Len(open)
           m == Len(elements) + 1
           S == mStatusStack
<1> PICK x : x = Opened(name)
  OBVIOUS
<1>1. /\ k \in Nat /\ DOMAIN open = 1 .. k /\ S \in Seq(Statuses) /\ DOMAIN S = 1 .. k + 1
      /\ top = S[k + 1] /\ S[1] = "TopLevel" /\ (open = <<>> <=> k = 0)
      /\ k > 0 => S[2] = "RootElement" /\ open[1] = 1
      /\ \A i \in 2 .. k : S[i + 1] = Child(S[i], elements[open[i]].name)
      /\ \A i \in 1 .. k + 1 : S[i] = "RootElement" <=> i = 2
  <2>1. open = <<>> <=> Len(open) = 0
    BY EmptySeq DEF Table
  <2> QED
    BY <2>1, StackAt
<1>2. /\ m \in Nat \ {0} /\ elements' \in Seq(Element) /\ DOMAIN elements' = 1 .. m
      /\ \A c \in 1 .. m - 1 : elements'[c] = elements[c]
      /\ elements'[m].name = name /\ elements'[m].text = NoText
      /\ elements'[m].parent = IF k = 0 THEN 0 ELSE open[k]
      /\ DOMAIN open' = 1 .. k + 1 /\ Len(open') = k + 1
      /\ \A i \in 1 .. k : open'[i] = open[i]
      /\ open'[k + 1] = m
  BY StartNotes, TableTypes
<1>3. /\ \A i \in 1 .. k : open[i] \in 1 .. m - 1
      /\ DOMAIN elements = 1 .. m - 1
      /\ open = <<>> => m = 1
  <2>1. DOMAIN elements = 1 .. m - 1
    BY <1>2, TableTypes
  <2>2. \A i \in 1 .. k : open[i] \in DOMAIN elements
    BY <1>1 DEF Table
  <2>3. open = <<>> => Len(elements) = 0
    BY EmptySeq DEF OpenAtCall, Table
  <2> QED
    BY <2>1, <2>2, <2>3
<1>4. /\ outcome = "reading" /\ mCharacterData' = NoText
      /\ UNCHANGED <<mCurrentService, mCurrentIcon, rootDevice, mBaseUrl>>
  BY DEF Call, StartElement
<1> HIDE DEF k, m
<1>5. top = "TopLevel" <=> k = 0
  <2>1. k + 1 \in DOMAIN S /\ Nests(S)
    BY <1>1 DEF HandlerInv, Nesting
  <2>2. S[k + 1] = "TopLevel" <=> k + 1 = 1
    BY <2>1, NestsAt
  <2> QED
    BY <1>1, <2>2
<1>6. OpenElement(name) /\ outcome' = "reading"
  <2>1. top = "TopLevel" => name = "root"
    <3> SUFFICES ASSUME top = "TopLevel" PROVE name = "root"
      OBVIOUS
    <3>1. m = 1 /\ 1 \in DOMAIN elements'
      BY <1>1, <1>2, <1>3, <1>5
    <3>2. elements'[1].name = "root"
      BY <3>1 DEF SoFar
    <3> QED
      BY <1>2, <3>1, <3>2
  <2> QED
    BY <1>4, <2>1 DEF StartElement
<1>7. ~ HoldsText(top)
  <2> SUFFICES ASSUME HoldsText(top) PROVE FALSE
    OBVIOUS
  <2>1. k # 0 /\ k # 1
    <3>1. k # 0
      BY <1>5 DEF HoldsText
    <3>2. k = 1 => top = "RootElement"
      BY <1>1
    <3> QED
      BY <3>1, <3>2 DEF HoldsText
  <2>2. k \in 2 .. k /\ k \in 1 .. k
    BY <1>1, <2>1
  <2>3. top = Child(S[k], elements[open[k]].name)
    BY <1>1, <2>2
  <2>4. elements[open[k]].name \in TextNames
    BY <2>3, KindOf DEF HoldsText, TextNames
  <2>5. open[k] \in 1 .. m - 1 /\ elements'[open[k]] = elements[open[k]]
    BY <1>2, <1>3, <2>2
  <2>6. m \in DOMAIN elements' /\ elements'[m].parent = open[k] /\ open[k] # 0
    BY <1>2, <2>1, <2>5
  <2>7. elements'[elements'[m].parent].name \notin TextNames
    BY <2>6 DEF SoFar, TextNames
  <2> QED
    BY <2>4, <2>5, <2>6, <2>7
<1>8. mStatusStack' = Append(S, x) /\ x \in Statuses
  <2>1. mStatusStack' = Append(S, x)
    BY <1>1, <1>5, <1>6, <1>7 DEF OpenElement, Opened
  <2>2. x \in Statuses
    BY KindOf DEF Opened, Statuses
  <2> QED
    BY <2>1, <2>2
<1>9. /\ DOMAIN mStatusStack' = 1 .. k + 2 /\ Len(mStatusStack') = k + 2
      /\ mStatusStack'[k + 2] = x /\ \A i \in 1 .. k + 1 : mStatusStack'[i] = S[i]
      /\ top' = x
  <2>1. Len(S) = k + 1 /\ (k + 1) + 1 = k + 2
    BY <1>1, LenProperties
  <2>2. /\ DOMAIN Append(S, x) = 1 .. k + 2 /\ Len(Append(S, x)) = k + 2
        /\ Append(S, x)[k + 2] = x /\ \A i \in 1 .. k + 1 : Append(S, x)[i] = S[i]
    BY <1>1, <1>8, <2>1, AppendLast
  <2> QED
    BY <1>8, <2>2 DEF top, Last
<1>10. StackInv'
  <2>1. Len(mStatusStack') = Len(open') + 1
    BY <1>1, <1>2, <1>9
  <2>2. ASSUME NEW i \in DOMAIN open'
        PROVE  mStatusStack'[i + 1] = IF i = 1 THEN "RootElement"
                                      ELSE Child(mStatusStack'[i], elements'[open'[i]].name)
    <3>1. CASE i = k + 1
      <4>1. mStatusStack'[i + 1] = x /\ mStatusStack'[i] = top /\ elements'[open'[i]].name = name
        BY <1>1, <1>2, <1>9, <3>1
      <4> QED
        BY <1>1, <3>1, <4>1 DEF Opened
    <3>2. CASE i # k + 1
      <4>1. /\ i \in 1 .. k /\ i \in 1 .. k + 1 /\ i + 1 \in 1 .. k + 1 /\ open'[i] = open[i]
            /\ elements'[open[i]] = elements[open[i]]
        BY <1>1, <1>2, <1>3, <3>2
      <4>2. S[i + 1] = IF i = 1 THEN "RootElement" ELSE Child(S[i], elements[open[i]].name)
        BY <1>1, <4>1 DEF StackInv
      <4> QED
        BY <1>9, <4>1, <4>2
    <3> QED
      BY <3>1, <3>2
  <2>3. TextsOnTop(mStatusStack')
    <3>1. \A i \in 1 .. k + 1 : ~ HoldsText(S[i])
      BY <1>1, <1>7 DEF StackInv, TextsOnTop
    <3>2. \A i \in 1 .. k + 2 : i \in 1 .. k + 1 \/ i = k + 2
      BY <1>1
    <3> QED
      BY <1>9, <3>1, <3>2 DEF TextsOnTop
  <2>4. mCharacterData' = elements'[open'[Len(open')]].text
    BY <1>2, <1>4
  <2>5. ASSUME NEW i \in DOMAIN mStatusStack', NEW j \in DOMAIN mStatusStack', i < j,
               mStatusStack'[i] \in {"IconElement", "ServiceElement", "UnknownElement"}
        PROVE  mStatusStack'[j] \in {"DataElement", "UnknownElement"}
    <3>1. i \in 1 .. k + 1 /\ mStatusStack'[i] = S[i]
      BY <1>1, <1>9, <2>5
    <3>2. CASE j = k + 2
      <4>1. top \in {"IconElement", "ServiceElement", "UnknownElement"}
        <5>1. CASE i = k + 1
          BY <1>1, <2>5, <3>1, <5>1
        <5>2. CASE i # k + 1
          <6>1. i < k + 1 /\ k + 1 \in DOMAIN S /\ i \in DOMAIN S
            BY <1>1, <3>1, <5>2
          <6>2. S[k + 1] \in {"DataElement", "UnknownElement"}
            BY <2>5, <3>1, <6>1 DEF StackInv
          <6> QED
            BY <1>1, <1>7, <6>2 DEF HoldsText
        <5> QED
          BY <5>1, <5>2
      <4>2. x \in {"DataElement", "UnknownElement"}
        BY <1>1, <1>5, <4>1, KindOf DEF Opened
      <4> QED
        BY <1>9, <3>2, <4>2
    <3>3. CASE j # k + 2
      <4>1. j \in 1 .. k + 1 /\ mStatusStack'[j] = S[j]
        BY <1>1, <1>9, <3>3
      <4> QED
        BY <1>1, <2>5, <3>1, <4>1 DEF StackInv
    <3> QED
      BY <3>2, <3>3
  <2> QED
    BY <2>1, <2>2, <2>3, <2>4, <2>5 DEF StackInv
<1> QED
  BY <1>4, <1>6, <1>7, <1>9, <1>10 DEF k

\* An end tag: it ends what the stack has on top.
LEMMA EndStack ==
  ASSUME HandlerInv, Table, StackInv, open # <<>>, EndElement, NEW name, NoteEnd(name)
  PROVE  /\ StackInv' /\ outcome' = outcome
         /\ \A i \in 1 .. Len(open) : mStatusStack'[i] = mStatusStack[i]
         /\ Last(pop) = mStatusStack[Len(open)]
<1> DEFINE k == Len(open)
           S == mStatusStack
<1>1. /\ k \in Nat \ {0} /\ DOMAIN open = 1 .. k /\ S \in Seq(Statuses) /\ DOMAIN S = 1 .. k + 1
      /\ S # <<>> /\ Len(S) = k + 1
  BY StackAt, EndNotes DEF StackInv
<1>2. /\ elements' = elements /\ DOMAIN open' = 1 .. k - 1 /\ Len(open') = k - 1
      /\ \A i \in 1 .. k - 1 : open'[i] = open[i]
  BY EndNotes
<1>3. mStatusStack' = Front(S) /\ pop = Front(S) /\ outcome' = outcome /\ top' = Last(Front(S))
  BY DEF EndElement, pop, top
<1> HIDE DEF k
<1>4. /\ Len(Front(S)) = k /\ DOMAIN Front(S) = 1 .. k /\ \A i \in 1 .. k : Front(S)[i] = S[i]
  <2>1. /\ Len(Front(S)) = Len(S) - 1 /\ DOMAIN Front(S) = 1 .. Len(S) - 1
        /\ \A i \in 1 .. Len(S) - 1 : Front(S)[i] = S[i]
    BY <1>1, FrontLast
  <2>2. Len(S) - 1 = k
    BY <1>1
  <2> QED
    BY <2>1, <2>2
<1>5. Last(Front(S)) = S[k]
  BY <1>1, <1>4 DEF Last
<1>6. TextsOnTop(Front(S)) /\ ~ HoldsText(S[k])
  <2>1. TextsOnTop(S)
    BY DEF StackInv
  <2>2. k \in DOMAIN S /\ k # Len(S)
    BY <1>1
  <2> QED
    BY <1>1, <2>1, <2>2, PopReads DEF TextsOnTop
<1>7. \A i \in DOMAIN open' :
        mStatusStack'[i + 1] = IF i = 1 THEN "RootElement"
                               ELSE Child(mStatusStack'[i], elements'[open'[i]].name)
  <2>1. \A i \in 1 .. k - 1 : i \in 1 .. k /\ i + 1 \in 1 .. k
    BY <1>1
  <2> QED
    BY <1>1, <1>2, <1>3, <1>4, <2>1 DEF StackInv
<1>8. \A i, j \in DOMAIN mStatusStack' :
        i < j /\ mStatusStack'[i] \in {"IconElement", "ServiceElement", "UnknownElement"}
          => mStatusStack'[j] \in {"DataElement", "UnknownElement"}
  <2>1. \A i \in 1 .. k : i \in DOMAIN S
    BY <1>1
  <2> QED
    BY <1>3, <1>4, <2>1 DEF StackInv
<1>9. StackInv'
  <2>1. Len(mStatusStack') = Len(open') + 1
    BY <1>1, <1>2, <1>3, <1>4
  <2> QED
    BY <1>3, <1>5, <1>6, <1>7, <1>8, <2>1 DEF StackInv
<1> QED
  BY <1>3, <1>4, <1>5, <1>9 DEF k

-----------------------------------------------------------------------------
(***************************************************************************)
(* The devices and the elements that they have been made for: at[d] is the *)
(* element of the device d, 0 if it has none yet, which only is so for the *)
(* device that the handler starts with.                                    *)
(***************************************************************************)
Placed(at) ==
  /\ at \in [DOMAIN device -> Nat]
  /\ \A d \in DOMAIN device :
       /\ at[d] = 0 => d = 1
       /\ at[d] # 0 => at[d] \in DOMAIN elements /\ elements[at[d]].name = "device"
       /\ \A e \in DOMAIN device : at[d] = at[e] => d = e
       /\ \A i \in DOMAIN open : open[i] = at[d] => mStatusStack[i + 1] = "DeviceElement"

\* The first device is that of the root element.
RootPlaced(at) ==
  /\ at[1] # 0 => elements[at[1]].parent = 1
  /\ \A c \in DOMAIN elements : IsDevice(c) => at[1] = c
  /\ at[1] \in Ended => rootDevice = 1

\* The device of an open element that the one on mDeviceStack[j] is around of.
Inner(j) == IF j = Len(mDeviceStack) THEN mCurrentDevice ELSE mDeviceStack[j + 1]

\* The current device is the innermost one of those open, and those around it
\* are on the stack.
OpenPlaced(at) ==
  /\ \A i \in DOMAIN open :
       /\ mStatusStack[i + 1] = "DeviceElement"
       /\ \A j \in DOMAIN open : i < j => mStatusStack[j + 1] # "DeviceElement"
       => at[mCurrentDevice] = open[i]
  /\ \A j \in DOMAIN mDeviceStack :
       LET e == at[Inner(j)] IN
         /\ e # 0 /\ elements[e].parent # 0
         /\ elements[elements[e].parent].parent = at[mDeviceStack[j]]

Blank(d) ==
  /\ device[d].properties = NewDevice.properties
  /\ device[d].icons = <<>> /\ device[d].services = <<>> /\ device[d].devices = <<>>

\* What a start tag of the kind x does to the devices: from now on nd is the
\* device of its element, 0 if it is not that of a device.
DeviceOpened(x, nd) ==
  /\ nd \in Nat /\ (nd # 0 <=> x = "DeviceElement")
  /\ nd \in DOMAIN device => nd = 1
  /\ nd = 1 <=> x = "DeviceElement" /\ top = "RootElement"
  /\ DOMAIN device' = DOMAIN device \cup ({nd} \ {0})
  /\ \A d \in DOMAIN device : device'[d] = device[d]
  /\ nd \notin DOMAIN device \cup {0} => Blank(nd)'
  /\ \A d \in DOMAIN device : nd \notin ToSet(device[d].devices)
  /\ \A j \in DOMAIN mDeviceStack : mDeviceStack[j] # nd
  /\ mCurrentDevice' = IF nd = 0 THEN mCurrentDevice ELSE nd
  /\ nd = 1 => mDeviceStack = <<>>
  /\ IF nd \in {0, 1} THEN mDeviceStack' = mDeviceStack
     ELSE mDeviceStack' = Append(mDeviceStack, mCurrentDevice) /\ top = "DeviceListElement"

\* What the handler has in hand is on the heap.
LEMMA HandlerTypes ==
  ASSUME HandlerInv
  PROVE  /\ device \in Seq(DevicePrivate) /\ DOMAIN device = 1 .. Len(device) /\ Len(device) \in Nat
         /\ 1 \in DOMAIN device /\ mCurrentDevice \in DOMAIN device
         /\ mDeviceStack \in Seq(DOMAIN device) /\ DOMAIN mDeviceStack = 1 .. Len(mDeviceStack)
         /\ Len(mDeviceStack) \in Nat
         /\ \A j \in DOMAIN mDeviceStack :
              mDeviceStack[j] \in DOMAIN device /\ Inner(j) \in DOMAIN device
<1>1. /\ device \in Seq(DevicePrivate) /\ mDeviceStack \in Seq(DOMAIN device)
      /\ mCurrentDevice \in DOMAIN device
  BY DEF HandlerInv, HandlerTypeOK
<1>2. DOMAIN device = 1 .. Len(device) /\ Len(device) \in Nat
  BY <1>1, LenProperties
<1>3. /\ DOMAIN mDeviceStack = 1 .. Len(mDeviceStack) /\ Len(mDeviceStack) \in Nat
      /\ \A j \in DOMAIN mDeviceStack : mDeviceStack[j] \in DOMAIN device
  BY <1>1, LenProperties, ElementOfSeq
<1>4. \A j \in DOMAIN mDeviceStack : Inner(j) \in DOMAIN device
  BY <1>1, <1>3 DEF Inner
<1>5. 1 \in DOMAIN device
  BY <1>1, <1>2
<1> QED
  BY <1>1, <1>2, <1>3, <1>4, <1>5

\* A start tag opens a device or it does not; the first one is there already.
LEMMA StartDevices ==
  ASSUME HandlerInv, Table, StackInv, outcome = "reading", NEW name, OpenElement(name),
         ~ HoldsText(top)
  PROVE  \E nd : DeviceOpened(Opened(name), nd)
<1> DEFINE k == Len(open)
           ds == mDeviceStack
<1> PICK x : x = Opened(name)
  OBVIOUS
<1> PICK n : n = Len(device) + 1
  OBVIOUS
<1>1. /\ k \in Nat /\ DOMAIN open = 1 .. k /\ mStatusStack \in Seq(Statuses)
      /\ DOMAIN mStatusStack = 1 .. k + 1 /\ Len(mStatusStack) = k + 1
      /\ top = mStatusStack[k + 1] /\ mStatusStack[1] = "TopLevel"
      /\ open = <<>> <=> k = 0
      /\ k > 0 => mStatusStack[2] = "RootElement"
      /\ \A i \in 1 .. k + 1 : mStatusStack[i] = "RootElement" <=> i = 2
  <2>1. open = <<>> <=> Len(open) = 0
    BY EmptySeq DEF Table
  <2> QED
    BY <2>1, StackAt DEF StackInv
<1>2. /\ DOMAIN device = 1 .. n - 1 /\ n \in Nat \ {0} /\ 1 \in DOMAIN device
      /\ DOMAIN ds = 1 .. Len(ds) /\ Len(ds) \in Nat /\ ds \in Seq(DOMAIN device)
      /\ device \in Seq(DevicePrivate)
      /\ \A j \in DOMAIN ds : ds[j] \in DOMAIN device
  BY HandlerTypes
<1>3. /\ \A p \in DOMAIN device : ToSet(device[p].devices) \subseteq DOMAIN device
      /\ \A c, p \in DOMAIN device : c \in ToSet(device[p].devices) => device[c].parent = p
      /\ 0 \notin DOMAIN device
  BY <1>2, Lists
<1>4. top = "DeviceListElement" /\ name = "device" => x = "DeviceElement"
  <2>1. top = "DeviceListElement" => open # <<>>
    <3>1. k = 0 => top = mStatusStack[1]
      BY <1>1
    <3> QED
      BY <1>1, <3>1
  <2> QED
    BY <2>1, KindOf DEF Opened
<1>5. x = "DeviceElement" => /\ name = "device" /\ top \in {"RootElement", "DeviceListElement"}
  BY KindOf DEF Opened
<1> HIDE DEF k
<1>6. CASE top = "DeviceListElement" /\ name = "device"
  <2>1. /\ ds' = Append(ds, mCurrentDevice) /\ device' = Append(device, NewDevice)
        /\ mCurrentDevice' = n
    BY <1>6 DEF OpenElement
  <2>2. /\ DOMAIN device' = 1 .. n /\ device'[n] = NewDevice
        /\ \A d \in 1 .. n - 1 : device'[d] = device[d]
    <3>1. NewDevice \in DevicePrivate
      BY NewTypes
    <3>2. DOMAIN Append(device, NewDevice) = 1 .. n /\ Append(device, NewDevice)[n] = NewDevice
          /\ \A d \in 1 .. n - 1 : Append(device, NewDevice)[d] = device[d]
      <4>1. n - 1 = Len(device)
        BY <1>2, HandlerTypes
      <4> QED
        BY <1>2, <3>1, <4>1, AppendLast
    <3> QED
      BY <2>1, <3>2
  <2>3. Blank(n)'
    BY <2>2 DEF Blank, NewDevice
  <2>4. n # 1 /\ n \notin DOMAIN device /\ DOMAIN device' = DOMAIN device \cup ({n} \ {0})
    BY <1>2, <2>2
  <2>5. DeviceOpened(x, n)
    BY <1>2, <1>3, <1>4, <1>6, <2>1, <2>2, <2>3, <2>4 DEF DeviceOpened
  <2> QED
    BY <2>5
<1>7. CASE ~ (top = "DeviceListElement" /\ name = "device") /\ x # "DeviceElement"
  <2>1. UNCHANGED <<mDeviceStack, device, mCurrentDevice>>
    BY <1>7 DEF OpenElement
  <2>2. DeviceOpened(x, 0)
    BY <1>2, <1>3, <1>7, <2>1 DEF DeviceOpened
  <2> QED
    BY <2>2
<1>8. CASE ~ (top = "DeviceListElement" /\ name = "device") /\ x = "DeviceElement"
  <2>1. UNCHANGED <<mDeviceStack, device, mCurrentDevice>>
    BY <1>8 DEF OpenElement
  <2>2. top = "RootElement" /\ k = 1
    BY <1>1, <1>5, <1>8
  <2>3. ds = <<>>
    <3>1. Embedded(mStatusStack) = {}
      BY <1>1, <2>2 DEF Embedded
    <3>2. Len(ds) = 0
      BY <3>1, FS_EmptySet DEF HandlerInv, StacksAgree, Embedded
    <3> QED
      BY <1>2, <3>2, EmptySeq
  <2>4. mCurrentDevice = 1
    BY <2>3 DEF HandlerInv, DevicesNest
  <2>5. \A d \in DOMAIN device : 1 \notin ToSet(device[d].devices)
    <3>1. device[1].parent = 0
      BY <2>4, Holders DEF OpenDevices
    <3> QED
      BY <1>2, <1>3, <3>1
  <2>6. DeviceOpened(x, 1)
    BY <1>2, <1>3, <1>8, <2>1, <2>2, <2>3, <2>4, <2>5 DEF DeviceOpened
  <2> QED
    BY <2>6
<1> QED
  BY <1>6, <1>7, <1>8

\* A start tag keeps the devices placed.
StartsOn(name, nd, at, later) ==
  /\ NoteStart(name) /\ DeviceOpened(Opened(name), nd)
  /\ mStatusStack'[Len(open) + 2] = Opened(name)
  /\ \A i \in 1 .. Len(open) + 1 : mStatusStack'[i] = mStatusStack[i]
  /\ rootDevice' = rootDevice
  /\ later = [d \in DOMAIN device' |-> IF d = nd THEN Len(elements) + 1 ELSE at[d]]

LEMMA StartPlaced ==
  ASSUME HandlerInv, Table, OpenAtCall, StackInv, SoFar',
         NEW name \in Pieces, NEW nd, NEW at, NEW later, StartsOn(name, nd, at, later),
         Placed(at), RootPlaced(at), OpenPlaced(at)
  PROVE  Placed(later)' /\ RootPlaced(later)' /\ OpenPlaced(later)'
<1> PICK k, m, x : k = Len(open) /\ m = Len(elements) + 1 /\ x = Opened(name)
  OBVIOUS
<1> DEFINE S == mStatusStack
           ds == mDeviceStack
<1>1. /\ k \in Nat /\ DOMAIN open = 1 .. k /\ DOMAIN S = 1 .. k + 1
      /\ top = S[k + 1] /\ (open = <<>> <=> k = 0)
      /\ S[1] = "TopLevel"
      /\ k > 0 => S[2] = "RootElement" /\ open[1] = 1
      /\ \A i \in 1 .. k : open[i] = 1 <=> i = 1
      /\ \A i \in 2 .. k : elements[open[i]].parent = open[i - 1]
      /\ \A i \in 1 .. k + 1 : S[i] = "RootElement" <=> i = 2
      /\ \A i \in 2 .. k : S[i + 1] = Child(S[i], elements[open[i]].name)
  <2>1. open = <<>> <=> Len(open) = 0
    BY EmptySeq DEF Table
  <2> QED
    BY <2>1, StackAt
<1>2. /\ m \in Nat \ {0} /\ DOMAIN elements' = 1 .. m /\ DOMAIN elements = 1 .. m - 1
      /\ \A c \in 1 .. m - 1 : elements'[c] = elements[c]
      /\ elements'[m].name = name
      /\ elements'[m].parent = IF k = 0 THEN 0 ELSE open[k]
      /\ DOMAIN open' = 1 .. k + 1 /\ Len(open') = k + 1
      /\ \A i \in 1 .. k : open'[i] = open[i]
      /\ open'[k + 1] = m
      /\ Ended' = Ended
  BY StartNotes, TableTypes DEF StartsOn
<1>3. /\ \A i \in 1 .. k : open[i] \in 1 .. m - 1
      /\ \A c \in 1 .. m - 1 : elements[c].parent \in Nat
                               /\ (elements[c].parent # 0 => elements[c].parent \in 1 .. m - 1)
      /\ Ended \subseteq 1 .. m - 1
  BY <1>1, <1>2, TableTypes, NamedTypes DEF Table
<1>4. /\ S'[k + 2] = x /\ \A i \in 1 .. k + 1 : S'[i] = S[i]
      /\ rootDevice' = rootDevice
      /\ later = [d \in DOMAIN device' |-> IF d = nd THEN m ELSE at[d]]
  BY DEF StartsOn
<1>5. /\ nd \in Nat /\ (nd # 0 <=> x = "DeviceElement")
      /\ nd \in DOMAIN device => nd = 1
      /\ nd = 1 <=> x = "DeviceElement" /\ top = "RootElement"
      /\ DOMAIN device' = DOMAIN device \cup ({nd} \ {0})
      /\ \A j \in DOMAIN ds : ds[j] # nd
      /\ mCurrentDevice' = IF nd = 0 THEN mCurrentDevice ELSE nd
      /\ nd = 1 => ds = <<>>
      /\ IF nd \in {0, 1} THEN ds' = ds
         ELSE ds' = Append(ds, mCurrentDevice) /\ top = "DeviceListElement"
  BY DEF StartsOn, DeviceOpened
<1>6. /\ 1 \in DOMAIN device /\ mCurrentDevice \in DOMAIN device
      /\ ds \in Seq(DOMAIN device) /\ DOMAIN ds = 1 .. Len(ds) /\ Len(ds) \in Nat
      /\ \A j \in DOMAIN ds : ds[j] \in DOMAIN device /\ Inner(j) \in DOMAIN device
      /\ 0 \notin DOMAIN device
  <2>1. DOMAIN device = 1 .. Len(device)
    BY HandlerTypes
  <2> QED
    BY <2>1, HandlerTypes
<1>7. x = "DeviceElement" => name = "device" /\ top \in {"RootElement", "DeviceListElement"}
  BY KindOf DEF Opened
<1>8. /\ at \in [DOMAIN device -> Nat]
      /\ \A d \in DOMAIN device :
           /\ at[d] = 0 => d = 1
           /\ at[d] # 0 => at[d] \in 1 .. m - 1 /\ elements[at[d]].name = "device"
           /\ \A e \in DOMAIN device : at[d] = at[e] => d = e
           /\ \A i \in DOMAIN open : open[i] = at[d] => S[i + 1] = "DeviceElement"
  BY <1>2 DEF Placed
<1>9. /\ later \in [DOMAIN device' -> Nat]
      /\ nd # 0 => later[nd] = m
      /\ \A d \in DOMAIN device' : d # nd => d \in DOMAIN device /\ later[d] = at[d] /\ at[d] # m
      /\ \A d \in DOMAIN device : d # nd => d \in DOMAIN device' /\ later[d] = at[d]
  <2>1. \A d \in DOMAIN device' : d # nd => d \in DOMAIN device
    BY <1>5
  <2>2. \A d \in DOMAIN device : d \in DOMAIN device' /\ at[d] \in Nat /\ at[d] # m
    BY <1>2, <1>5, <1>8
  <2>3. nd # 0 => nd \in DOMAIN device'
    BY <1>5
  <2> QED
    BY <1>2, <1>4, <2>1, <2>2, <2>3
<1> HIDE DEF S, ds
<1>10. Placed(later)'
  <2>1. ASSUME NEW d \in DOMAIN device'
        PROVE  /\ later[d] = 0 => d = 1
               /\ later[d] # 0 => later[d] \in DOMAIN elements' /\ elements'[later[d]].name = "device"
               /\ \A e \in DOMAIN device' : later[d] = later[e] => d = e
               /\ \A i \in DOMAIN open' : open'[i] = later[d] => S'[i + 1] = "DeviceElement"
    <3>1. CASE d = nd
      <4>1. d # 0 /\ later[d] = m /\ x = "DeviceElement" /\ name = "device"
        <5>1. d # 0
          BY <1>5, <1>6, <3>1
        <5> QED
          BY <1>5, <1>7, <1>9, <3>1, <5>1
      <4>2. \A e \in DOMAIN device' : later[d] = later[e] => d = e
        BY <1>9, <3>1, <4>1
      <4>3. \A i \in DOMAIN open' : open'[i] = m => i = k + 1
        BY <1>1, <1>2, <1>3
      <4>4. \A i \in DOMAIN open' : open'[i] = later[d] => S'[i + 1] = "DeviceElement"
        BY <1>1, <1>4, <4>1, <4>3
      <4> QED
        BY <1>2, <4>1, <4>2, <4>4
    <3>2. CASE d # nd
      <4>1. d \in DOMAIN device /\ later[d] = at[d] /\ at[d] # m
        BY <1>9, <3>2
      <4>2. later[d] # 0 => later[d] \in DOMAIN elements' /\ elements'[later[d]].name = "device"
        BY <1>2, <1>8, <4>1
      <4>3. \A e \in DOMAIN device' : later[d] = later[e] => d = e
        <5> SUFFICES ASSUME NEW e \in DOMAIN device', later[d] = later[e] PROVE d = e
          OBVIOUS
        <5>1. CASE e = nd
          <6>1. e # 0
            BY <1>5, <1>6, <5>1
          <6> QED
            BY <1>9, <4>1, <5>1, <6>1
        <5>2. CASE e # nd
          BY <1>8, <1>9, <4>1, <5>2
        <5> QED
          BY <5>1, <5>2
      <4>4. \A i \in DOMAIN open' : open'[i] = later[d] => S'[i + 1] = "DeviceElement"
        <5> SUFFICES ASSUME NEW i \in DOMAIN open', open'[i] = later[d]
                     PROVE  S'[i + 1] = "DeviceElement"
          OBVIOUS
        <5>1. i # k + 1
          BY <1>2, <4>1
        <5>2. i \in 1 .. k /\ i + 1 \in 1 .. k + 1 /\ open'[i] = open[i]
          BY <1>1, <1>2, <5>1
        <5>3. S[i + 1] = "DeviceElement"
          BY <1>1, <1>8, <4>1, <5>2
        <5> QED
          BY <1>4, <5>2, <5>3
      <4> QED
        BY <1>8, <4>1, <4>2, <4>3, <4>4
    <3> QED
      BY <3>1, <3>2
  <2> QED
    BY <1>9, <2>1 DEF Placed, S
<1>11. RootPlaced(later)'
  <2>1. ASSUME later[1] # 0
        PROVE  elements'[later[1]].parent = 1
    <3>1. CASE nd = 1
      <4>1. k + 1 = 2
        <5>1. S[k + 1] = "RootElement" /\ k + 1 \in 1 .. k + 1
          BY <1>1, <1>5, <3>1 DEF S
        <5> QED
          BY <1>1, <5>1 DEF S
      <4>2. k = 1 /\ 1 \in 1 .. k
        BY <1>1, <4>1
      <4>3. later[1] = m /\ elements'[m].parent = open[1] /\ open[1] = 1
        BY <1>1, <1>2, <1>9, <3>1, <4>2
      <4> QED
        BY <4>3
    <3>2. CASE nd # 1
      <4>1. later[1] = at[1] /\ at[1] \in 1 .. m - 1
        BY <1>6, <1>8, <1>9, <2>1, <3>2
      <4> QED
        BY <1>2, <2>1, <4>1 DEF RootPlaced
    <3> QED
      BY <3>1, <3>2
  <2>2. ASSUME NEW c \in DOMAIN elements', elements'[c].parent = 1, elements'[c].name = "device"
        PROVE  later[1] = c
    <3>1. CASE c = m
      <4>1. k # 0 /\ open[k] = 1
        BY <1>2, <2>2, <3>1
      <4>2. k = 1
        <5>1. k \in 1 .. k
          BY <1>1, <4>1
        <5> QED
          BY <1>1, <4>1, <5>1
      <4>3. top = "RootElement" /\ name = "device" /\ open # <<>>
        BY <1>1, <1>2, <2>2, <3>1, <4>2 DEF S
      <4>4. x = "DeviceElement"
        BY <4>3, KindOf DEF Opened
      <4> QED
        BY <1>5, <1>9, <3>1, <4>3, <4>4
    <3>2. CASE c # m
      <4>1. c \in DOMAIN elements /\ IsDevice(c) /\ c \in 1 .. m - 1
        BY <1>2, <2>2, <3>2 DEF IsDevice
      <4>2. at[1] = c
        BY <4>1 DEF RootPlaced
      <4>3. nd # 1
        <5> SUFFICES ASSUME nd = 1 PROVE FALSE
          OBVIOUS
        <5>1. k + 1 = 2
          <6>1. S[k + 1] = "RootElement" /\ k + 1 \in 1 .. k + 1
            BY <1>1, <1>5 DEF S
          <6> QED
            BY <1>1, <6>1 DEF S
        <5>2. k = 1 /\ 1 \in 1 .. k
          BY <1>1, <5>1
        <5>3. elements'[m].parent = 1 /\ elements'[m].name = "device"
          BY <1>1, <1>2, <1>5, <1>7, <5>2
        <5>4. m \in DOMAIN elements'
          BY <1>2
        <5>5. c = m
          BY <2>2, <5>3, <5>4 DEF SoFar, IsDevice
        <5> QED
          BY <3>2, <5>5
      <4> QED
        BY <1>6, <1>9, <4>2, <4>3
    <3> QED
      BY <3>1, <3>2
  <2>3. ASSUME later[1] \in Ended'
        PROVE  rootDevice' = 1
    <3>1. later[1] # m
      BY <1>2, <1>3, <2>3
    <3>2. nd # 1
      BY <1>9, <3>1
    <3>3. at[1] \in Ended
      BY <1>2, <1>6, <1>9, <2>3, <3>2
    <3> QED
      BY <1>4, <3>3 DEF RootPlaced
  <2> QED
    BY <2>1, <2>2, <2>3 DEF RootPlaced, IsDevice
<1>12. ASSUME NEW i \in DOMAIN open', S'[i + 1] = "DeviceElement",
              \A j \in DOMAIN open' : i < j => S'[j + 1] # "DeviceElement"
       PROVE  later[mCurrentDevice'] = open'[i]
  <2>1. k + 1 \in DOMAIN open' /\ S'[(k + 1) + 1] = x
    <3>1. (k + 1) + 1 = k + 2
      BY <1>1
    <3> QED
      BY <1>1, <1>2, <1>4, <3>1
  <2>2. CASE i = k + 1
    <3>1. x = "DeviceElement"
      BY <1>12, <2>1, <2>2
    <3> QED
      BY <1>2, <1>5, <1>9, <2>2, <3>1
  <2>3. CASE i # k + 1
    <3>1. i \in 1 .. k /\ i + 1 \in 1 .. k + 1 /\ i < k + 1
      BY <1>1, <1>2, <2>3
    <3>2. x # "DeviceElement"
      BY <1>12, <2>1, <3>1
    <3>3. nd = 0 /\ mCurrentDevice' = mCurrentDevice
      BY <1>5, <3>2
    <3>4. S[i + 1] = "DeviceElement"
      BY <1>4, <1>12, <3>1
    <3>5. ASSUME NEW j \in DOMAIN open, i < j
          PROVE  S[j + 1] # "DeviceElement"
      <4>1. j \in DOMAIN open' /\ j + 1 \in 1 .. k + 1
        BY <1>1, <1>2
      <4>2. S'[j + 1] # "DeviceElement"
        BY <1>12, <3>5, <4>1
      <4> QED
        BY <1>4, <4>1, <4>2
    <3>6. at[mCurrentDevice] = open[i]
      BY <1>1, <3>1, <3>4, <3>5 DEF OpenPlaced, S
    <3> QED
      BY <1>2, <1>6, <1>9, <3>1, <3>3, <3>6
  <2> QED
    BY <2>2, <2>3
<1>13. ASSUME NEW j \in DOMAIN ds, NEW e, e = at[Inner(j)]
       PROVE  /\ e # 0 /\ elements'[e].parent # 0
              /\ elements'[elements'[e].parent].parent = at[ds[j]]
  <2>1. e # 0 /\ elements[e].parent # 0 /\ elements[elements[e].parent].parent = at[ds[j]]
    BY <1>13 DEF OpenPlaced, ds
  <2>2. e \in 1 .. m - 1
    BY <1>6, <1>8, <1>13, <2>1
  <2>3. elements[e].parent \in 1 .. m - 1
    BY <1>3, <2>1, <2>2
  <2> QED
    BY <1>2, <2>1, <2>2, <2>3
<1>14. ASSUME NEW j \in DOMAIN ds'
       PROVE  LET e == later[Inner(j)'] IN
                /\ e # 0 /\ elements'[e].parent # 0
                /\ elements'[elements'[e].parent].parent = later[ds'[j]]
  <2>1. CASE nd \in {0, 1}
    <3>1. ds' = ds /\ j \in DOMAIN ds
      BY <1>5, <1>14, <2>1
    <3>2. nd = 0
      <4>1. nd = 1 => ds = <<>>
        BY <1>5
      <4> QED
        BY <2>1, <3>1, <4>1
    <3>3. Inner(j)' = Inner(j)
      BY <1>5, <3>1, <3>2 DEF Inner, ds
    <3>4. Inner(j) \in DOMAIN device /\ ds[j] \in DOMAIN device
      BY <1>6, <3>1
    <3>5. later[Inner(j)] = at[Inner(j)] /\ later[ds[j]] = at[ds[j]]
      BY <1>6, <1>9, <3>2, <3>4
    <3> QED
      BY <1>13, <3>1, <3>3, <3>5
  <2>2. CASE nd \notin {0, 1}
    <3>1. ds' = Append(ds, mCurrentDevice) /\ top = "DeviceListElement" /\ mCurrentDevice' = nd
          /\ nd \notin DOMAIN device
      BY <1>5, <2>2
    <3>2. /\ DOMAIN ds' = 1 .. Len(ds) + 1 /\ Len(ds') = Len(ds) + 1
          /\ ds'[Len(ds) + 1] = mCurrentDevice
          /\ \A i \in 1 .. Len(ds) : ds'[i] = ds[i]
      BY <1>6, <3>1, AppendLast
    <3>3. CASE j = Len(ds) + 1
      <4>1. Inner(j)' = nd /\ later[nd] = m
        BY <1>5, <1>9, <2>2, <3>1, <3>2, <3>3 DEF Inner, ds
      <4>2. k >= 2
        <5>1. k = 0 => top = S[1]
          BY <1>1 DEF S
        <5>2. k = 1 => top = S[2]
          BY <1>1 DEF S
        <5> QED
          BY <1>1, <3>1, <5>1, <5>2 DEF S
      <4>3. k \in 2 .. k /\ k \in 1 .. k /\ k - 1 \in DOMAIN open /\ (k - 1) + 1 = k
        BY <1>1, <4>2
      <4>4. S[k] = "DeviceElement" /\ S[k + 1] = "DeviceListElement"
        <5>1. S[k + 1] = Child(S[k], elements[open[k]].name)
          BY <1>1, <4>3 DEF S
        <5>2. S[k + 1] = "DeviceListElement"
          BY <1>1, <3>1 DEF S
        <5>3. \A s, n : Child(s, n) = "DeviceListElement" => s = "DeviceElement"
          BY KindOf
        <5> QED
          BY <5>1, <5>2, <5>3
      <4>5. \A i \in DOMAIN open : k - 1 < i => i = k
        BY <1>1, <4>2
      <4>6. at[mCurrentDevice] = open[k - 1]
        BY <4>3, <4>4, <4>5 DEF OpenPlaced, S
      <4>7. later[mCurrentDevice] = open[k - 1]
        BY <1>6, <1>9, <3>1, <4>6
      <4>8. elements'[m].parent = open[k] /\ open[k] \in 1 .. m - 1 /\ elements[open[k]].parent = open[k - 1]
        BY <1>1, <1>2, <1>3, <4>3
      <4>9. /\ m # 0 /\ elements'[m].parent # 0
            /\ elements'[elements'[m].parent].parent = open[k - 1]
        BY <1>2, <4>8
      <4> QED
        BY <3>2, <3>3, <4>1, <4>7, <4>9
    <3>4. CASE j # Len(ds) + 1
      <4>1. j \in DOMAIN ds /\ ds'[j] = ds[j] /\ j \in 1 .. Len(ds)
        BY <1>6, <1>14, <3>2, <3>4
      <4>2. Inner(j)' = Inner(j)
        <5>1. Inner(j)' = ds'[j + 1]
          BY <3>2, <3>4 DEF Inner, ds
        <5>2. CASE j = Len(ds)
          BY <3>2, <5>1, <5>2 DEF Inner, ds
        <5>3. CASE j # Len(ds)
          <6>1. j + 1 \in 1 .. Len(ds)
            BY <1>6, <4>1, <5>3
          <6> QED
            BY <3>2, <5>1, <5>3, <6>1 DEF Inner, ds
        <5> QED
          BY <5>2, <5>3
      <4>3. Inner(j) \in DOMAIN device /\ ds[j] \in DOMAIN device
        BY <1>6, <4>1
      <4>4. later[Inner(j)] = at[Inner(j)] /\ later[ds[j]] = at[ds[j]]
        BY <1>9, <3>1, <4>3
      <4> QED
        BY <1>13, <4>1, <4>2, <4>4
    <3> QED
      BY <3>3, <3>4
  <2> QED
    BY <2>1, <2>2
<1> QED
  BY <1>10, <1>11, <1>12, <1>14 DEF OpenPlaced, S, ds

-----------------------------------------------------------------------------
(***************************************************************************)
(* What has been read is in the devices, or in the handler's hands.        *)
(***************************************************************************)
Filled(at) ==
  \A d \in DOMAIN device : IF at[d] = 0 THEN Blank(d) ELSE Describes(at[d], d, at)

InHand ==
  /\ \A i \in DOMAIN open :
       /\ mStatusStack[i + 1] = "IconElement" => mCurrentIcon = IconOf(open[i])
       /\ mStatusStack[i + 1] = "ServiceElement" =>
            mCurrentService.properties = TextsOf(open[i], ServiceKeys)
  /\ (\A i \in DOMAIN open : mStatusStack[i + 1] # "IconElement") => mCurrentIcon = NewIcon
  /\ (\A i \in DOMAIN open : mStatusStack[i + 1] # "ServiceElement") =>
       mCurrentService = NewService

\* Nothing that has ended is in e.
Hollow(e) ==
  (\A name : Named(e, name) = {}) /\ (\A list, name : Listed(e, list, name) = {})

SameTexts ==
  /\ \A e, name : Named(e, name)' = Named(e, name)
  /\ \A e, list, name : Listed(e, list, name)' = Listed(e, list, name)
  /\ \A e, key : TextOf(e, key)' = TextOf(e, key)
  /\ \A e, keys : TextsOf(e, keys)' = TextsOf(e, keys)
  /\ \A e : IconOf(e)' = IconOf(e)

\* The length of a list that is given by its members.
LEMMA MapLen ==
  ASSUME NEW n \in Nat, NEW S, NEW f \in [1 .. n -> S]
  PROVE  f \in Seq(S) /\ Len(f) = n
<1>1. f \in Seq(S)
  OBVIOUS
<1>2. Len(f) \in Nat /\ DOMAIN f = 1 .. Len(f)
  BY <1>1, LenProperties
<1>3. 1 .. Len(f) = 1 .. n
  BY <1>2
<1> QED
  BY <1>1, <1>2, <1>3

\* The texts of an element without anything in it.
LEMMA HollowTexts ==
  ASSUME NEW e, \A name : Named(e, name) = {}
  PROVE  /\ \A key : TextOf(e, key) = NoText
         /\ \A keys : TextsOf(e, keys) = [k \in keys |-> NoText]
         /\ IconOf(e) = NewIcon
<1>1. \A key : TextOf(e, key) = NoText
  BY DEF TextOf
<1>2. \A keys : TextsOf(e, keys) = [k \in keys |-> NoText]
  BY <1>1 DEF TextsOf
<1>3. ToInt(NoText) = 0
  BY NumeralsAssumption DEF ToInt
<1>4. IconOf(e) = NewIcon
  BY <1>1, <1>3 DEF IconOf, NewIcon
<1> QED
  BY <1>1, <1>2, <1>4

\* Nothing is in order.
LEMMA NothingInOrder ==
  ASSUME NEW meaning
  PROVE  InOrder(<<>>, {}, meaning)
  BY FS_EmptySet DEF InOrder

\* An element without anything in it describes a device without anything in it.
LEMMA BlankDescribed ==
  ASSUME NEW e, NEW d, NEW of, Blank(d), Hollow(e)
  PROVE  Describes(e, d, of)
<1>1. device[d].properties = TextsOf(e, DeviceKeys)
  BY HollowTexts DEF Blank, Hollow, NewDevice
<1>2. /\ [i \in DOMAIN device[d].services |-> device[d].services[i].properties] = <<>>
      /\ [i \in DOMAIN device[d].devices |-> of[device[d].devices[i]]] = <<>>
  BY DEF Blank
<1>3. \A list, name : Listed(e, list, name) = {}
  BY DEF Hollow
<1>4. InOrder(device[d].icons, {}, [c \in {} |-> IconOf(c)])
  BY NothingInOrder DEF Blank
<1>5. InOrder(<<>>, {}, [c \in {} |-> TextsOf(c, ServiceKeys)])
  BY NothingInOrder
<1>6. InOrder(<<>>, {}, [c \in {} |-> c])
  BY NothingInOrder
<1> QED
  BY <1>1, <1>2, <1>3, <1>4, <1>5, <1>6 DEF Describes

\* A description goes on to hold when nothing has ended.
LEMMA SameDescribes ==
  ASSUME NEW e, NEW d, NEW at, NEW later, Describes(e, d, at), SameTexts, device'[d] = device[d],
         \A i \in DOMAIN device[d].devices :
           later[device[d].devices[i]] = at[device[d].devices[i]]
  PROVE  Describes(e, d, later)'
<1>1. device'[d].properties = TextsOf(e, DeviceKeys)'
  BY DEF Describes, SameTexts
<1>2. /\ [i \in DOMAIN device'[d].services |-> device'[d].services[i].properties] =
           [i \in DOMAIN device[d].services |-> device[d].services[i].properties]
      /\ [i \in DOMAIN device'[d].devices |-> later[device'[d].devices[i]]] =
           [i \in DOMAIN device[d].devices |-> at[device[d].devices[i]]]
  OBVIOUS
<1>3. \A list, name : Listed(e, list, name)' = Listed(e, list, name)
  BY DEF SameTexts
<1>4. \A S : /\ [c \in S |-> IconOf(c)'] = [c \in S |-> IconOf(c)]
             /\ [c \in S |-> TextsOf(c, ServiceKeys)'] = [c \in S |-> TextsOf(c, ServiceKeys)]
  BY DEF SameTexts
<1>5. InOrder(device'[d].icons, Listed(e, "iconList", "icon")',
              [c \in Listed(e, "iconList", "icon")' |-> IconOf(c)'])
  BY <1>3, <1>4 DEF Describes
<1>6. InOrder([i \in DOMAIN device'[d].services |-> device'[d].services[i].properties],
              Listed(e, "serviceList", "service")',
              [c \in Listed(e, "serviceList", "service")' |-> TextsOf(c, ServiceKeys)'])
  BY <1>2, <1>3, <1>4 DEF Describes
<1>7. InOrder([i \in DOMAIN device'[d].devices |-> later[device'[d].devices[i]]],
              Listed(e, "deviceList", "device")',
              [c \in Listed(e, "deviceList", "device")' |-> c])
  BY <1>2, <1>3 DEF Describes
<1> QED
  BY <1>1, <1>5, <1>6, <1>7 DEF Describes

\* The same, for all elements, now and after a step.
LEMMA BlankAlways == \A e, d, of : Blank(d) /\ Hollow(e) => Describes(e, d, of)
  BY BlankDescribed

LEMMA BlankDescribedNext == (\A e, d, of : Blank(d) /\ Hollow(e) => Describes(e, d, of))'
  BY BlankAlways, PTL

\* And what the texts of such an element are.
LEMMA HollowAlways ==
  \A e : Hollow(e) => /\ \A keys : TextsOf(e, keys) = [k \in keys |-> NoText]
                      /\ IconOf(e) = NewIcon
  BY HollowTexts DEF Hollow

LEMMA HollowTextsNext ==
  (\A e : Hollow(e) => /\ \A keys : TextsOf(e, keys) = [k \in keys |-> NoText]
                       /\ IconOf(e) = NewIcon)'
  BY HollowAlways, PTL

\* Nothing is in an element that starts.
LEMMA StartHollow ==
  ASSUME Table, Latest, NEW name \in Pieces, NoteStart(name), NEW m, m = Len(elements) + 1
  PROVE  SameTexts /\ Hollow(m)'
<1>1. /\ DOMAIN elements = 1 .. m - 1 /\ m \in Nat \ {0}
      /\ \A c \in 1 .. m - 1 : elements'[c] = elements[c]
      /\ Ended' = Ended
  BY StartNotes, TableTypes
<1>2. Ended \subseteq DOMAIN elements
  BY NamedTypes
<1>3. SameTexts
  <2>1. /\ \A c \in DOMAIN elements : /\ elements'[c].name = elements[c].name
                                      /\ elements'[c].parent = elements[c].parent
        /\ \A c \in Ended : elements'[c] = elements[c]
    BY <1>1, <1>2
  <2> QED
    BY <1>1, <2>1, SameReference DEF SameTexts
<1>4. \A c \in Ended : /\ elements[c].parent # m
                       /\ elements[c].parent # 0 => elements[elements[c].parent].parent # m
  <2> SUFFICES ASSUME NEW c \in Ended
               PROVE  /\ elements[c].parent # m
                      /\ elements[c].parent # 0 => elements[elements[c].parent].parent # m
    OBVIOUS
  <2>1. \A e \in DOMAIN elements :
          /\ elements[e].parent < e /\ elements[e].parent \in Nat
          /\ elements[e].parent # 0 => elements[e].parent \in DOMAIN elements
    BY TableTypes DEF Table
  <2>2. c \in DOMAIN elements
    BY <1>2
  <2> QED
    BY <1>1, <2>1, <2>2
<1>5. Hollow(m)
  BY <1>4 DEF Hollow, Named, Listed
<1>6. Hollow(m)'
  BY <1>3, <1>5 DEF Hollow, SameTexts
<1> QED
  BY <1>3, <1>6

\* What the handler has in hand is what it was, after a start tag.
LEMMA StartInHand ==
  ASSUME HandlerInv, Table, Latest, StackInv, InHand,
         NEW name \in Pieces, NEW nd, NEW at, NEW later, StartsOn(name, nd, at, later),
         UNCHANGED <<mCurrentService, mCurrentIcon>>
  PROVE  InHand'
<1> PICK k, m, x : k = Len(open) /\ m = Len(elements) + 1 /\ x = Opened(name)
  OBVIOUS
<1> DEFINE S == mStatusStack
<1>1. /\ k \in Nat /\ DOMAIN open = 1 .. k /\ DOMAIN S = 1 .. k + 1 /\ top = S[k + 1]
      /\ (open = <<>> <=> k = 0)
  <2>1. open = <<>> <=> Len(open) = 0
    BY EmptySeq DEF Table
  <2> QED
    BY <2>1, StackAt
<1>2. /\ DOMAIN open' = 1 .. k + 1 /\ open'[k + 1] = m
      /\ \A i \in 1 .. k : open'[i] = open[i]
  BY StartNotes DEF StartsOn
<1>3. SameTexts /\ Hollow(m)'
  BY StartHollow DEF StartsOn
<1>4. S'[k + 2] = x /\ \A i \in 1 .. k + 1 : S'[i] = S[i]
  BY DEF StartsOn
<1>5. IconOf(m)' = NewIcon /\ TextsOf(m, ServiceKeys)' = NewService.properties
  BY <1>3, HollowTextsNext DEF NewService
<1>6. ASSUME x \in {"IconElement", "ServiceElement"}
      PROVE  \A i \in DOMAIN open : S[i + 1] \notin {"IconElement", "ServiceElement"}
  <2>1. top \in {"IconListElement", "ServiceListElement"}
    BY <1>6, KindOf DEF Opened
  <2> SUFFICES ASSUME NEW i \in DOMAIN open, S[i + 1] \in {"IconElement", "ServiceElement"}
               PROVE  FALSE
    OBVIOUS
  <2>2. i + 1 # k + 1
    BY <1>1, <2>1
  <2>3. i + 1 \in DOMAIN S /\ k + 1 \in DOMAIN S /\ i + 1 < k + 1
    BY <1>1, <2>2
  <2>4. S[k + 1] \in {"DataElement", "UnknownElement"}
    BY <2>3 DEF StackInv
  <2> QED
    BY <1>1, <2>1, <2>4
<1>7. k + 1 \in DOMAIN open' /\ (k + 1) + 1 = k + 2
  BY <1>1, <1>2
<1>8. \A i \in DOMAIN open : i \in DOMAIN open' /\ open'[i] = open[i] /\ S'[i + 1] = S[i + 1]
  BY <1>1, <1>2, <1>4
<1> HIDE DEF S
<1>9. ASSUME NEW i \in DOMAIN open'
      PROVE  /\ S'[i + 1] = "IconElement" => mCurrentIcon' = IconOf(open[i])'
             /\ S'[i + 1] = "ServiceElement" =>
                  mCurrentService'.properties = TextsOf(open[i], ServiceKeys)'
  <2>1. CASE i = k + 1
    <3>1. S'[i + 1] = x /\ open'[i] = m
      BY <1>2, <1>4, <1>7, <2>1
    <3>2. IconOf(open[i])' = IconOf(m)' /\ TextsOf(open[i], ServiceKeys)' = TextsOf(m, ServiceKeys)'
      BY <3>1
    <3>3. x = "IconElement" => mCurrentIcon = NewIcon
      BY <1>6 DEF InHand, S
    <3>4. x = "ServiceElement" => mCurrentService = NewService
      BY <1>6 DEF InHand, S
    <3> QED
      BY <1>5, <3>1, <3>2, <3>3, <3>4
  <2>2. CASE i # k + 1
    <3>1. i \in DOMAIN open /\ open'[i] = open[i] /\ S'[i + 1] = S[i + 1]
      BY <1>1, <1>2, <1>8, <2>2
    <3>2. IconOf(open[i])' = IconOf(open[i]) /\ TextsOf(open[i], ServiceKeys)' = TextsOf(open[i], ServiceKeys)
      BY <1>3, <3>1 DEF SameTexts
    <3> QED
      BY <3>1, <3>2 DEF InHand, S
  <2> QED
    BY <2>1, <2>2
<1>10. (\A i \in DOMAIN open' : S'[i + 1] # "IconElement") => mCurrentIcon' = NewIcon
  BY <1>8 DEF InHand, S
<1>11. (\A i \in DOMAIN open' : S'[i + 1] # "ServiceElement") => mCurrentService' = NewService
  BY <1>8 DEF InHand, S
<1> QED
  BY <1>9, <1>10, <1>11 DEF InHand, S

\* A device that is new is blank, as its element is; the other ones are as they were.
LEMMA StartFilled ==
  ASSUME HandlerInv, Table, Latest, StackInv, SoFar',
         NEW name \in Pieces, NEW nd, NEW at, NEW later, StartsOn(name, nd, at, later),
         Placed(at), RootPlaced(at), RootPlaced(later)', Filled(at)
  PROVE  Filled(later)'
<1> PICK m : m = Len(elements) + 1
  OBVIOUS
<1>1. SameTexts /\ Hollow(m)'
  BY StartHollow DEF StartsOn
<1>2. /\ m # 0 /\ elements \in Seq(Element)
      /\ DOMAIN elements = 1 .. m - 1
      /\ \A c \in DOMAIN elements : c \in DOMAIN elements' /\ elements'[c] = elements[c]
  <2>1. /\ DOMAIN elements = 1 .. m - 1 /\ m \in Nat \ {0} /\ DOMAIN elements' = 1 .. m
        /\ \A c \in 1 .. m - 1 : elements'[c] = elements[c]
    BY StartNotes, TableTypes DEF StartsOn
  <2> QED
    BY <2>1 DEF Table
<1>3. /\ nd \in Nat /\ (nd \in DOMAIN device => nd = 1)
      /\ DOMAIN device' = DOMAIN device \cup ({nd} \ {0})
      /\ \A d \in DOMAIN device : device'[d] = device[d]
      /\ nd \notin DOMAIN device \cup {0} => Blank(nd)'
      /\ \A d \in DOMAIN device : nd \notin ToSet(device[d].devices)
      /\ later = [d \in DOMAIN device' |-> IF d = nd THEN m ELSE at[d]]
  BY DEF StartsOn, DeviceOpened
<1>4. /\ 0 \notin DOMAIN device
      /\ \A d \in DOMAIN device : ToSet(device[d].devices) \subseteq DOMAIN device
  BY Lists
<1>5. ASSUME NEW d \in DOMAIN device', d = nd
      PROVE  later[d] = m /\ Describes(m, d, later)'
  <2>1. later[d] = m /\ nd # 0
    BY <1>3, <1>4, <1>5
  <2>2. Blank(d)'
    <3>1. CASE nd \notin DOMAIN device
      BY <1>3, <1>5, <2>1, <3>1
    <3>2. CASE nd \in DOMAIN device
      <4>1. nd = 1 /\ 1 \in DOMAIN device
        BY <1>3, <3>2
      <4>2. at[1] = 0
        <5> SUFFICES ASSUME at[1] # 0 PROVE FALSE
          OBVIOUS
        <5>1. at[1] \in DOMAIN elements /\ elements[at[1]].name = "device" /\ elements[at[1]].parent = 1
          BY <4>1 DEF Placed, RootPlaced
        <5>2. at[1] \in DOMAIN elements' /\ IsDevice(at[1])'
          BY <1>2, <5>1 DEF IsDevice
        <5>3. later[1] = at[1]
          BY <5>2 DEF RootPlaced
        <5>4. later[1] = m
          BY <1>5, <2>1, <4>1
        <5> QED
          BY <1>2, <5>1, <5>3, <5>4
      <4>3. Blank(1)
        BY <4>1, <4>2 DEF Filled
      <4> QED
        BY <1>3, <1>5, <4>1, <4>3 DEF Blank
    <3> QED
      BY <3>1, <3>2
  <2>3. Describes(m, d, later)'
    BY <1>1, <2>2, BlankDescribedNext
  <2> QED
    BY <2>1, <2>3
<1>6. ASSUME NEW d \in DOMAIN device', d # nd
      PROVE  IF later[d] = 0 THEN Blank(d)' ELSE Describes(later[d], d, later)'
  <2>1. d \in DOMAIN device /\ later[d] = at[d] /\ device'[d] = device[d]
    BY <1>3, <1>6
  <2>2. CASE at[d] = 0
    <3>1. Blank(d)
      BY <2>1, <2>2 DEF Filled
    <3> QED
      BY <2>1, <2>2, <3>1 DEF Blank
  <2>3. CASE at[d] # 0
    <3>1. Describes(at[d], d, at)
      BY <2>1, <2>3 DEF Filled
    <3>2. \A i \in DOMAIN device[d].devices :
            later[device[d].devices[i]] = at[device[d].devices[i]]
      <4> SUFFICES ASSUME NEW i \in DOMAIN device[d].devices
                   PROVE  later[device[d].devices[i]] = at[device[d].devices[i]]
        OBVIOUS
      <4>1. device[d].devices[i] \in ToSet(device[d].devices)
        BY DEF ToSet
      <4>2. device[d].devices[i] \in DOMAIN device /\ device[d].devices[i] # nd
        BY <1>3, <1>4, <2>1, <4>1
      <4> QED
        BY <1>3, <4>2
    <3>3. Describes(at[d], d, later)'
      BY <1>1, <2>1, <3>1, <3>2, SameDescribes
    <3> QED
      BY <2>1, <2>3, <3>3
  <2> QED
    BY <2>2, <2>3
<1> QED
  <2>1. ASSUME NEW d \in DOMAIN device'
        PROVE  IF later[d] = 0 THEN Blank(d)' ELSE Describes(later[d], d, later)'
    BY <1>2, <1>5, <1>6
  <2> QED
    BY <2>1 DEF Filled

\* The parts of the invariant that a device map is about.
Built(at) == Placed(at) /\ RootPlaced(at) /\ OpenPlaced(at) /\ Filled(at)

BuildInv ==
  SoFar =>
    /\ outcome = "reading" => StackInv /\ InHand
    /\ outcome \in {"reading", "done"} =>
         /\ mBaseUrl = TextOf(1, "URLBase")
         /\ \E at : Built(at)

\* The invariant, at a start tag.
LEMMA StartBuilds ==
  ASSUME HandlerInv, DocumentInv, OpenAtCall, BuildInv, Call, StartElement,
         NoteStart(Head(tags).text)
  PROVE  BuildInv'
<1> SUFFICES ASSUME SoFar' PROVE BuildInv'
  BY DEF BuildInv
<1> PICK name : name = Head(tags).text
  OBVIOUS
<1>1. /\ name \in Pieces /\ NoteStart(name) /\ Table /\ Latest /\ outcome = "reading"
  BY NextTag DEF DocumentInv
<1>2. SoFar
  <2>1. /\ DOMAIN elements = 1 .. Len(elements) /\ Len(elements) \in Nat
        /\ DOMAIN elements' = 1 .. Len(elements) + 1
        /\ \A c \in 1 .. (Len(elements) + 1) - 1 : elements'[c] = elements[c]
    BY <1>1, StartNotes, TableTypes
  <2>2. \A c \in DOMAIN elements : c \in DOMAIN elements' /\ elements'[c] = elements[c]
    BY <2>1
  <2> QED
    BY <1>1, <2>2, SoFarBack
<1>3. /\ StackInv /\ InHand /\ mBaseUrl = TextOf(1, "URLBase")
      /\ \E at : Built(at)
  BY <1>1, <1>2 DEF BuildInv
<1>4. /\ StackInv' /\ outcome' = "reading" /\ OpenElement(name) /\ ~ HoldsText(top)
      /\ UNCHANGED <<mCurrentService, mCurrentIcon, rootDevice, mBaseUrl>>
      /\ mStatusStack'[Len(open) + 2] = Opened(name)
      /\ \A i \in 1 .. Len(open) + 1 : mStatusStack'[i] = mStatusStack[i]
  BY <1>1, <1>3, StartStack
<1>5. PICK nd : DeviceOpened(Opened(name), nd)
  BY <1>1, <1>3, <1>4, StartDevices
<1>6. PICK at : Built(at)
  BY <1>3
<1>7. PICK later : later = [d \in DOMAIN device' |-> IF d = nd THEN Len(elements) + 1 ELSE at[d]]
  OBVIOUS
<1>8. StartsOn(name, nd, at, later)
  BY <1>1, <1>4, <1>5, <1>7 DEF StartsOn
<1>9. Placed(at) /\ RootPlaced(at) /\ OpenPlaced(at) /\ Filled(at)
  BY <1>6 DEF Built
<1>10. Placed(later)' /\ RootPlaced(later)' /\ OpenPlaced(later)'
  BY <1>1, <1>3, <1>8, <1>9, StartPlaced
<1>11. Filled(later)'
  BY <1>1, <1>3, <1>8, <1>9, <1>10, StartFilled
<1>12. InHand'
  BY <1>1, <1>3, <1>4, <1>8, StartInHand
<1>13. mBaseUrl' = TextOf(1, "URLBase")'
  <2>1. SameTexts
    BY <1>1, StartHollow
  <2> QED
    BY <1>3, <1>4, <2>1 DEF SameTexts
<1> QED
  BY <1>4, <1>10, <1>11, <1>12, <1>13 DEF BuildInv, Built

\* A step that only adds a piece to the text of an open element, or nothing.
LEMMA SameBuilt ==
  ASSUME HandlerInv, Table, SameTexts, Ended' = Ended, open' = open,
         DOMAIN elements' = DOMAIN elements,
         \A c \in DOMAIN elements : /\ elements'[c].name = elements[c].name
                                    /\ elements'[c].parent = elements[c].parent,
         UNCHANGED <<mDeviceStack, mCurrentDevice, rootDevice, device>>,
         \A i \in DOMAIN open : mStatusStack'[i + 1] = mStatusStack[i + 1],
         NEW at, Built(at)
  PROVE  Built(at)'
<1>1. Placed(at) /\ RootPlaced(at) /\ OpenPlaced(at) /\ Filled(at)
  BY DEF Built
<1>2. Placed(at)'
  BY <1>1 DEF Placed
<1>3. RootPlaced(at)'
  <2>1. 1 \in DOMAIN device
    BY HandlerTypes
  <2>2. at[1] # 0 => at[1] \in DOMAIN elements
    BY <1>1, <2>1 DEF Placed
  <2> QED
    BY <1>1, <2>2 DEF RootPlaced, IsDevice
<1>4. OpenPlaced(at)'
  <2>1. ASSUME NEW j \in DOMAIN mDeviceStack, NEW e, e = at[Inner(j)]
        PROVE  /\ e # 0 /\ elements'[e].parent # 0
               /\ elements'[elements'[e].parent].parent = at[mDeviceStack[j]]
    <3>1. /\ e # 0 /\ elements[e].parent # 0
          /\ elements[elements[e].parent].parent = at[mDeviceStack[j]]
      BY <1>1, <2>1 DEF OpenPlaced
    <3>2. Inner(j) \in DOMAIN device
      BY HandlerTypes
    <3>3. e \in DOMAIN elements
      BY <1>1, <2>1, <3>1, <3>2 DEF Placed
    <3>4. elements[e].parent \in DOMAIN elements
      BY <3>1, <3>3, TableTypes
    <3> QED
      BY <3>1, <3>3, <3>4
  <2>2. \A j : Inner(j)' = Inner(j)
    BY DEF Inner
  <2>3. \A i \in DOMAIN open :
          /\ mStatusStack'[i + 1] = "DeviceElement"
          /\ \A j \in DOMAIN open : i < j => mStatusStack'[j + 1] # "DeviceElement"
          => at[mCurrentDevice] = open[i]
    BY <1>1 DEF OpenPlaced
  <2> QED
    BY <2>1, <2>2, <2>3 DEF OpenPlaced
<1>5. Filled(at)'
  <2> SUFFICES ASSUME NEW d \in DOMAIN device
               PROVE  IF at[d] = 0 THEN Blank(d)' ELSE Describes(at[d], d, at)'
    BY DEF Filled
  <2>1. CASE at[d] = 0
    BY <1>1, <2>1 DEF Filled, Blank
  <2>2. CASE at[d] # 0
    <3>1. Describes(at[d], d, at)
      BY <1>1, <2>2 DEF Filled
    <3>2. Describes(at[d], d, at)'
      BY <3>1, SameDescribes
    <3> QED
      BY <2>2, <3>2
  <2> QED
    BY <2>1, <2>2
<1> QED
  BY <1>2, <1>3, <1>4, <1>5 DEF Built

\* The invariant, at a text: that of an open element, which no device has yet.
LEMMA TextBuilds ==
  ASSUME HandlerInv, DocumentInv, OpenAtCall, BuildInv, Call, Characters,
         NoteText(Head(tags).text)
  PROVE  BuildInv'
<1> SUFFICES ASSUME SoFar' PROVE BuildInv'
  BY DEF BuildInv
<1> PICK piece, k : piece = Head(tags).text /\ k = Len(open)
  OBVIOUS
<1>1. /\ piece \in Pieces /\ NoteText(piece) /\ Table /\ Latest /\ outcome = "reading"
  BY NextTag DEF DocumentInv
<1>2. /\ DOMAIN elements' = DOMAIN elements /\ open' = open /\ Ended' = Ended
      /\ \A c \in DOMAIN elements : /\ elements'[c].name = elements[c].name
                                    /\ elements'[c].parent = elements[c].parent
      /\ \A c \in Ended : elements'[c] = elements[c]
      /\ k # 0 => elements'[open[k]].text = Append(elements[open[k]].text, piece)
  BY <1>1, TextNotes
<1>3. SoFar /\ SameTexts
  BY <1>1, <1>2, SoFarBack, SameReference DEF SameTexts
<1>4. /\ StackInv /\ InHand /\ mBaseUrl = TextOf(1, "URLBase")
      /\ \E at : Built(at)
  BY <1>1, <1>3 DEF BuildInv
<1>5. /\ mCharacterData' = Append(mCharacterData, piece)
      /\ UNCHANGED <<mStatusStack, mDeviceStack, mCurrentDevice, mCurrentService, mCurrentIcon,
                     rootDevice, device, mBaseUrl, outcome>>
  BY DEF Characters, current
<1>6. StackInv'
  <2>1. HoldsText(top) => k # 0
    <3>1. k = 0 => top = "TopLevel"
      BY <1>1, <1>4, StackAt
    <3> QED
      BY <3>1 DEF HoldsText
  <2>2. HoldsText(top) => mCharacterData' = elements'[open[k]].text
    BY <1>2, <1>4, <1>5, <2>1 DEF StackInv
  <2>3. \A i \in DOMAIN open : elements'[open[i]].name = elements[open[i]].name
    BY <1>1, <1>2 DEF Table
  <2>4. top' = top
    BY <1>5 DEF top
  <2>5. TextsOnTop(mStatusStack)'
    BY <1>4, <1>5 DEF StackInv, TextsOnTop
  <2> QED
    BY <1>2, <1>4, <1>5, <2>2, <2>3, <2>4, <2>5 DEF StackInv
<1>7. InHand'
  BY <1>2, <1>3, <1>4, <1>5 DEF InHand, SameTexts
<1>8. mBaseUrl' = TextOf(1, "URLBase")'
  BY <1>3, <1>4, <1>5 DEF SameTexts
<1>9. \E at : Built(at)'
  BY <1>1, <1>2, <1>3, <1>4, <1>5, SameBuilt
<1> QED
  BY <1>6, <1>7, <1>8, <1>9 DEF BuildInv

\* The invariant, before the first call.
LEMMA InitBuilds == DocumentInit /\ DocumentInv => BuildInv
<1> SUFFICES ASSUME DocumentInit, DocumentInv PROVE BuildInv
  OBVIOUS
<1>1. /\ elements = <<>> /\ open = <<>> /\ Init
      /\ DOMAIN elements = {} /\ DOMAIN open = {} /\ Len(open) = 0
  BY DEF DocumentInit
<1>2. /\ mStatusStack = <<"TopLevel">> /\ mDeviceStack = <<>> /\ device = <<NewDevice>>
      /\ mCurrentService = NewService /\ mCurrentIcon = NewIcon /\ mBaseUrl = NoText
      /\ DOMAIN device = {1} /\ device[1] = NewDevice
      /\ DOMAIN mDeviceStack = {}
  BY <1>1 DEF Init
<1>3. StackInv
  <2>1. Len(mStatusStack) = 1 /\ top = "TopLevel" /\ DOMAIN mStatusStack = {1}
        /\ mStatusStack[1] = "TopLevel"
    BY <1>2 DEF top, Last
  <2>2. \A i, j \in DOMAIN mStatusStack : ~ i < j
    BY <2>1
  <2> QED
    BY <1>1, <2>1, <2>2 DEF StackInv, TextsOnTop, HoldsText
<1>4. InHand
  BY <1>1, <1>2 DEF InHand
<1>5. Ended = {}
  BY <1>1 DEF Ended
<1>6. mBaseUrl = TextOf(1, "URLBase")
  BY <1>2, <1>5 DEF TextOf, Named
<1>7. PICK at : at = [d \in {1} |-> 0]
  OBVIOUS
<1>8. Built(at)
  <2>1. Placed(at)
    BY <1>1, <1>2, <1>7 DEF Placed
  <2>2. RootPlaced(at)
    BY <1>1, <1>5, <1>7 DEF RootPlaced
  <2>3. OpenPlaced(at)
    BY <1>1, <1>2 DEF OpenPlaced
  <2>4. Filled(at)
    BY <1>2, <1>7 DEF Filled, Blank, NewDevice
  <2> QED
    BY <2>1, <2>2, <2>3, <2>4 DEF Built
<1> QED
  BY <1>3, <1>4, <1>6, <1>8 DEF BuildInv

\* When no call is left, every element has ended.
LEMMA EndOfDocument ==
  ASSUME DocumentInv, tags = <<>>
  PROVE  open = <<>> /\ DOMAIN open = {}
<1>1. PICK calls : calls = Calls[document]
  OBVIOUS
<1>2. PICK n \in 0 .. Len(calls) : AsRead(calls, n) /\ Len(open) = Depth(calls, n)
  BY <1>1 DEF DocumentInv, Reading
<1>3. Balanced(calls) /\ Len(calls) \in Nat
  BY <1>1, CallsType DEF DocumentInv, Reading
<1>4. n = Len(calls)
  BY <1>2, <1>3 DEF AsRead
<1>5. Len(open) = 0
  BY <1>2, <1>3, <1>4 DEF Balanced
<1>6. DOMAIN open = 1 .. Len(open)
  BY TableTypes DEF DocumentInv
<1>7. open \in Seq(Nat)
  BY DEF DocumentInv, Table
<1> QED
  BY <1>5, <1>6, <1>7, EmptySeq

\* The end of the document, or of the reading.
LEMMA OtherBuilds ==
  ASSUME HandlerInv, DocumentInv, BuildInv, UNCHANGED <<elements, open>>,
         EndDocument \/ ParseError \/ Underflow \/ UNCHANGED vars
  PROVE  BuildInv'
<1> SUFFICES ASSUME SoFar', outcome' \in {"reading", "done"} PROVE BuildInv'
  BY DEF BuildInv
<1>1. CASE EndDocument
  <2>1. /\ outcome = "reading" /\ outcome' = "done" /\ tags = <<>>
        /\ UNCHANGED <<mDeviceStack, mCurrentDevice, rootDevice, device, mBaseUrl>>
    BY <1>1 DEF EndDocument, current
  <2>2. DOMAIN open = {}
    BY <2>1, EndOfDocument
  <2>3. Ended' = Ended /\ SameTexts
    <3>1. Ended' = Ended
      BY DEF Ended
    <3> QED
      BY <3>1, NamedTypes, SameReference DEF DocumentInv, SameTexts
  <2>4. SoFar
    BY DEF SoFar, IsDevice
  <2>5. mBaseUrl = TextOf(1, "URLBase") /\ \E at : Built(at)
    BY <2>1, <2>4 DEF BuildInv
  <2>6. \E at : Built(at)'
    BY <2>1, <2>2, <2>3, <2>5, SameBuilt DEF DocumentInv
  <2> QED
    BY <2>1, <2>3, <2>5, <2>6 DEF BuildInv, SameTexts
<1>2. CASE UNCHANGED vars
  <2>1. UNCHANGED <<outcome, mStatusStack, mDeviceStack, mCurrentDevice, mCurrentService,
                    mCurrentIcon, mCharacterData, rootDevice, device, mBaseUrl>>
    BY <1>2 DEF vars
  <2>2. Ended' = Ended /\ SameTexts
    <3>1. Ended' = Ended
      BY DEF Ended
    <3> QED
      BY <3>1, NamedTypes, SameReference DEF DocumentInv, SameTexts
  <2>3. SoFar
    BY DEF SoFar, IsDevice
  <2>4. outcome = "reading" => StackInv' /\ InHand'
    <3>1. TextsOnTop(mStatusStack)' <=> TextsOnTop(mStatusStack)
      BY <2>1 DEF TextsOnTop
    <3>2. StackInv => StackInv'
      BY <2>1, <3>1 DEF StackInv, top
    <3>3. InHand => InHand'
      BY <2>1, <2>2 DEF InHand, SameTexts
    <3> QED
      BY <2>3, <3>2, <3>3 DEF BuildInv
  <2>5. mBaseUrl = TextOf(1, "URLBase") /\ \E at : Built(at)
    BY <2>1, <2>3 DEF BuildInv
  <2>6. \E at : Built(at)'
    BY <2>1, <2>2, <2>5, SameBuilt DEF DocumentInv
  <2> QED
    BY <2>1, <2>2, <2>4, <2>5, <2>6 DEF BuildInv, SameTexts
<1>3. CASE ParseError \/ Underflow
  BY <1>3 DEF ParseError, Underflow
<1> QED
  BY <1>1, <1>2, <1>3

-----------------------------------------------------------------------------
(***************************************************************************)
(* An end tag.  The element y ends, in p, which is in g.                   *)
(***************************************************************************)
Ends(name, at) ==
  /\ HandlerInv /\ Table /\ Latest /\ StackInv /\ InHand /\ Built(at)
  /\ SoFar /\ open # <<>>
  /\ Call /\ EndElement /\ name = Head(tags).text /\ NoteEnd(name)

Around(p) == IF p = 0 THEN 0 ELSE elements[p].parent

Ending(k, y, p, g) ==
  k = Len(open) /\ y = open[k] /\ p = elements[y].parent /\ g = Around(p)

\* Where y, p and g are, and what the stack has there.
LEMMA EndAt ==
  ASSUME NEW name, NEW at, Ends(name, at), NEW k, NEW y, NEW p, NEW g, Ending(k, y, p, g)
  PROVE  /\ k \in Nat \ {0} /\ DOMAIN open = 1 .. k /\ DOMAIN open' = 1 .. k - 1
         /\ \A i \in 1 .. k - 1 : open'[i] = open[i]
         /\ y \in DOMAIN elements /\ y # 0 /\ y \notin Ended
         /\ elements' = elements /\ Ended' = Ended \cup {y}
         /\ DOMAIN mStatusStack = 1 .. k + 1
         /\ top = mStatusStack[k + 1] /\ Last(pop) = mStatusStack[k]
         /\ \A i \in 1 .. k : mStatusStack'[i] = mStatusStack[i]
         /\ mStatusStack[1] = "TopLevel"
         /\ \A i \in 1 .. k + 1 : mStatusStack[i] = "RootElement" <=> i = 2
         /\ k = 1 => p = 0 /\ g = 0
         /\ k # 1 => /\ k - 1 \in 1 .. k /\ (k - 1) + 1 = k
                     /\ p = open[k - 1] /\ p # 0 /\ p \in DOMAIN elements
                     /\ top = Child(mStatusStack[k], name)
         /\ k = 2 => p = 1 /\ g = 0
         /\ k # 1 /\ k # 2 => /\ k - 2 \in 1 .. k /\ (k - 2) + 1 = k - 1
                              /\ p # 1 /\ g = open[k - 2] /\ g # 0
                              /\ mStatusStack[k] = Child(mStatusStack[k - 1], elements[p].name)
         /\ p \notin Ended'
<1>1. /\ HandlerInv /\ Table /\ StackInv /\ open # <<>> /\ EndElement /\ NoteEnd(name)
      /\ k = Len(open) /\ y = open[k] /\ p = elements[y].parent /\ g = Around(p) /\ SoFar
  BY DEF Ends, Ending
<1>2. /\ k \in Nat \ {0} /\ elements' = elements /\ y \in DOMAIN elements
      /\ elements[y].name = name
      /\ DOMAIN open' = 1 .. k - 1 /\ \A i \in 1 .. k - 1 : open'[i] = open[i]
      /\ Ended' = Ended \cup {y} /\ y \notin Ended
  BY <1>1, EndNotes
<1>3. /\ DOMAIN open = 1 .. k /\ DOMAIN mStatusStack = 1 .. k + 1
      /\ top = mStatusStack[k + 1] /\ mStatusStack[1] = "TopLevel"
      /\ k > 0 => open[1] = 1
      /\ \A i \in 2 .. k : /\ mStatusStack[i + 1] = Child(mStatusStack[i], elements[open[i]].name)
                           /\ elements[open[i]].parent = open[i - 1]
      /\ \A i \in 1 .. k : open[i] = 1 <=> i = 1
      /\ \A i \in 1 .. k + 1 : mStatusStack[i] = "RootElement" <=> i = 2
  BY <1>1, StackAt
<1>4. Last(pop) = mStatusStack[k] /\ \A i \in 1 .. k : mStatusStack'[i] = mStatusStack[i]
  BY <1>1, EndStack
<1>5. /\ DOMAIN elements = 1 .. Len(elements) /\ Len(elements) \in Nat
      /\ \A i \in 1 .. k : open[i] \in DOMAIN elements
      /\ \A c \in DOMAIN elements : c # 0
      /\ \A c \in DOMAIN elements : elements[c].parent < c
  <2>1. DOMAIN elements = 1 .. Len(elements) /\ Len(elements) \in Nat
    BY <1>1, TableTypes
  <2>2. \A c \in DOMAIN elements : c # 0
    BY <2>1
  <2>3. /\ \A i \in DOMAIN open : open[i] \in DOMAIN elements
        /\ \A c \in DOMAIN elements : elements[c].parent < c
    BY <1>1 DEF Table
  <2> QED
    BY <1>3, <2>1, <2>2, <2>3
<1>6. k = 1 => p = 0 /\ g = 0
  <2> SUFFICES ASSUME k = 1 PROVE p = 0 /\ g = 0
    OBVIOUS
  <2>1. 1 \in DOMAIN open /\ y = open[1]
    BY <1>1, <1>2, <1>3
  <2>2. elements[open[1]].parent = 0
    BY <1>1, <2>1 DEF Table
  <2> QED
    BY <1>1, <2>1, <2>2 DEF Around
<1>7. k # 1 => /\ k - 1 \in 1 .. k /\ (k - 1) + 1 = k /\ k \in 2 .. k
               /\ p = open[k - 1] /\ p # 0 /\ p \in DOMAIN elements
               /\ top = Child(mStatusStack[k], name)
  <2> SUFFICES ASSUME k # 1
               PROVE /\ k - 1 \in 1 .. k /\ (k - 1) + 1 = k /\ k \in 2 .. k
                     /\ p = open[k - 1] /\ p # 0 /\ p \in DOMAIN elements
                     /\ top = Child(mStatusStack[k], name)
    OBVIOUS
  <2>1. k - 1 \in 1 .. k /\ (k - 1) + 1 = k /\ k \in 2 .. k
    BY <1>2
  <2>2. /\ mStatusStack[k + 1] = Child(mStatusStack[k], elements[y].name)
        /\ p = open[k - 1]
    BY <1>1, <1>3, <2>1
  <2> QED
    BY <1>2, <1>3, <1>5, <2>1, <2>2
<1>8. k = 2 => p = 1 /\ g = 0
  <2> SUFFICES ASSUME k = 2 PROVE p = 1 /\ g = 0
    OBVIOUS
  <2>1. p = 1 /\ 1 \in DOMAIN open /\ open[1] = 1
    BY <1>3, <1>7
  <2>2. elements[open[1]].parent = 0
    BY <1>1, <2>1 DEF Table
  <2> QED
    BY <1>1, <2>1, <2>2 DEF Around
<1>9. k # 1 /\ k # 2 => /\ k - 2 \in 1 .. k /\ (k - 2) + 1 = k - 1
                        /\ p # 1 /\ g = open[k - 2] /\ g # 0
                        /\ mStatusStack[k] = Child(mStatusStack[k - 1], elements[p].name)
  <2> SUFFICES ASSUME k # 1, k # 2
               PROVE  /\ k - 2 \in 1 .. k /\ (k - 2) + 1 = k - 1
                      /\ p # 1 /\ g = open[k - 2] /\ g # 0
                      /\ mStatusStack[k] = Child(mStatusStack[k - 1], elements[p].name)
    OBVIOUS
  <2>1. /\ k - 2 \in 1 .. k /\ (k - 2) + 1 = k - 1 /\ k - 1 \in 2 .. k /\ k - 1 \in 1 .. k
        /\ k - 1 # 1 /\ (k - 1) - 1 = k - 2 /\ (k - 1) + 1 = k
    BY <1>2
  <2>2. p = open[k - 1] /\ p # 0
    BY <1>7
  <2>3. p # 1
    BY <1>3, <2>1, <2>2
  <2>4. g = elements[p].parent
    BY <1>1, <2>2 DEF Around
  <2>5. /\ mStatusStack[(k - 1) + 1] = Child(mStatusStack[k - 1], elements[open[k - 1]].name)
        /\ elements[open[k - 1]].parent = open[(k - 1) - 1]
    BY <1>3, <2>1
  <2> QED
    BY <1>5, <2>1, <2>2, <2>3, <2>4, <2>5
<1>10. p \notin Ended'
  <2>1. k = 1 => p \notin DOMAIN elements
    BY <1>5, <1>6
  <2>2. k # 1 => p \notin Ended /\ p # y
    <3> SUFFICES ASSUME k # 1 PROVE p \notin Ended /\ p # y
      OBVIOUS
    <3>1. p = open[k - 1] /\ k - 1 \in DOMAIN open
      BY <1>3, <1>7
    <3>2. p < y /\ y \in Nat
      BY <1>1, <1>2, <1>5
    <3> QED
      BY <1>1, <3>1, <3>2, NamedTypes
  <2> QED
    BY <1>1, <1>2, <2>1, <2>2, NamedTypes
<1> QED
  BY <1>2, <1>3, <1>4, <1>5, <1>6, <1>7, <1>8, <1>9, <1>10

\* The device of the element that ends, or that it says something of.
LEMMA EndDevices ==
  ASSUME NEW name, NEW at, Ends(name, at), NEW k, NEW y, NEW p, NEW g, Ending(k, y, p, g)
  PROVE  /\ top = "DataElement" /\ mStatusStack[k] = "DeviceElement" =>
              at[mCurrentDevice] = p /\ p # 0 /\ name \in DeviceKeys
         /\ top = "IconElement" =>
              /\ at[mCurrentDevice] = g /\ g # 0 /\ p # 0
              /\ name = "icon" /\ elements[p].name = "iconList" /\ elements[p].parent = g
         /\ top = "ServiceElement" =>
              /\ at[mCurrentDevice] = g /\ g # 0 /\ p # 0
              /\ name = "service" /\ elements[p].name = "serviceList" /\ elements[p].parent = g
         /\ top = "DeviceElement" => at[mCurrentDevice] = y /\ name = "device"
         /\ top = "DeviceElement" /\ mStatusStack[k] = "DeviceListElement" /\ mDeviceStack # <<>> =>
              /\ at[Last(mDeviceStack)] = g /\ g # 0 /\ p # 0
              /\ elements[p].name = "deviceList" /\ elements[p].parent = g
              /\ k # 1 /\ k # 2 /\ mStatusStack[k - 1] = "DeviceElement"
<1> DEFINE S == mStatusStack
<1>1. /\ k \in Nat \ {0} /\ DOMAIN open = 1 .. k
      /\ y \in DOMAIN elements /\ y # 0
      /\ top = S[k + 1] /\ S[1] = "TopLevel"
      /\ \A i \in 1 .. k + 1 : S[i] = "RootElement" <=> i = 2
      /\ k # 1 => /\ k - 1 \in 1 .. k /\ (k - 1) + 1 = k /\ p = open[k - 1] /\ p # 0
                  /\ top = Child(S[k], name)
      /\ k # 1 /\ k # 2 => /\ k - 2 \in 1 .. k /\ (k - 2) + 1 = k - 1 /\ g = open[k - 2] /\ g # 0
                           /\ S[k] = Child(S[k - 1], elements[p].name)
  BY EndAt
<1>2. /\ OpenPlaced(at) /\ HandlerInv /\ y = open[k] /\ p = elements[y].parent /\ g = Around(p)
  BY DEF Ends, Ending, Built
<1>3. k = 1 => top = "RootElement"
  BY <1>1
<1>4. k = 2 => S[k] = "RootElement"
  BY <1>1
<1>5. k # 1 => g = elements[p].parent
  BY <1>1, <1>2 DEF Around
<1>6. \A i \in 1 .. k :
        /\ S[i + 1] = "DeviceElement"
        /\ \A j \in 1 .. k : i < j => S[j + 1] # "DeviceElement"
        => at[mCurrentDevice] = open[i]
  BY <1>1, <1>2 DEF OpenPlaced
<1> HIDE DEF S
<1>7. /\ \A s, n : Child(s, n) = "DataElement" =>
           \/ s = "DeviceElement" /\ n \in DeviceKeys
           \/ s = "IconElement"
           \/ s = "ServiceElement"
      /\ \A s, n : Child(s, n) = "IconElement" => s = "IconListElement" /\ n = "icon"
      /\ \A s, n : Child(s, n) = "ServiceElement" => s = "ServiceListElement" /\ n = "service"
      /\ \A s, n : Child(s, n) = "DeviceElement" => n = "device"
      /\ \A s, n : Child(s, n) = "IconListElement" => s = "DeviceElement" /\ n = "iconList"
      /\ \A s, n : Child(s, n) = "ServiceListElement" => s = "DeviceElement" /\ n = "serviceList"
      /\ \A s, n : Child(s, n) = "DeviceListElement" => s = "DeviceElement" /\ n = "deviceList"
  BY KindOf
\* The device around a list, when what ends is not a device.
<1>8. ASSUME k # 1, k # 2, S[k - 1] = "DeviceElement", S[k] # "DeviceElement",
             top # "DeviceElement"
      PROVE  at[mCurrentDevice] = g /\ g # 0
  <2>1. k - 2 \in 1 .. k /\ (k - 2) + 1 = k - 1 /\ g = open[k - 2] /\ g # 0
    BY <1>1, <1>8
  <2>2. \A j \in 1 .. k : k - 2 < j => j + 1 = k \/ j + 1 = k + 1
    BY <1>1
  <2> QED
    BY <1>1, <1>6, <1>8, <2>1, <2>2
<1>9. ASSUME top = "DataElement", S[k] = "DeviceElement"
      PROVE  at[mCurrentDevice] = p /\ p # 0 /\ name \in DeviceKeys
  <2>1. k # 1
    BY <1>3, <1>9
  <2>2. \A j \in 1 .. k : k - 1 < j => j + 1 = k + 1
    BY <1>1
  <2>3. at[mCurrentDevice] = open[k - 1]
    BY <1>1, <1>6, <1>9, <2>1, <2>2
  <2> QED
    BY <1>1, <1>7, <1>9, <2>1, <2>3
<1>10. ASSUME top = "IconElement"
       PROVE  /\ at[mCurrentDevice] = g /\ g # 0 /\ p # 0
              /\ name = "icon" /\ elements[p].name = "iconList" /\ elements[p].parent = g
  <2>1. k # 1
    BY <1>3, <1>10
  <2>2. S[k] = "IconListElement" /\ name = "icon"
    BY <1>1, <1>7, <1>10, <2>1
  <2>3. k # 2
    BY <1>4, <2>2
  <2>4. S[k - 1] = "DeviceElement" /\ elements[p].name = "iconList"
    BY <1>1, <1>7, <2>1, <2>2, <2>3
  <2> QED
    BY <1>1, <1>5, <1>8, <1>10, <2>1, <2>2, <2>3, <2>4
<1>11. ASSUME top = "ServiceElement"
       PROVE  /\ at[mCurrentDevice] = g /\ g # 0 /\ p # 0
              /\ name = "service" /\ elements[p].name = "serviceList" /\ elements[p].parent = g
  <2>1. k # 1
    BY <1>3, <1>11
  <2>2. S[k] = "ServiceListElement" /\ name = "service"
    BY <1>1, <1>7, <1>11, <2>1
  <2>3. k # 2
    BY <1>4, <2>2
  <2>4. S[k - 1] = "DeviceElement" /\ elements[p].name = "serviceList"
    BY <1>1, <1>7, <2>1, <2>2, <2>3
  <2> QED
    BY <1>1, <1>5, <1>8, <1>11, <2>1, <2>2, <2>3, <2>4
<1>12. ASSUME top = "DeviceElement"
       PROVE  at[mCurrentDevice] = y /\ name = "device"
  <2>1. k # 1
    BY <1>3, <1>12
  <2>2. k \in 1 .. k /\ \A j \in 1 .. k : ~ k < j
    BY <1>1
  <2>3. at[mCurrentDevice] = open[k]
    BY <1>1, <1>6, <1>12, <2>2
  <2> QED
    BY <1>1, <1>2, <1>7, <1>12, <2>1, <2>3
<1>13. ASSUME top = "DeviceElement", S[k] = "DeviceListElement", mDeviceStack # <<>>
       PROVE  /\ at[Last(mDeviceStack)] = g /\ g # 0 /\ p # 0
              /\ elements[p].name = "deviceList" /\ elements[p].parent = g
              /\ k # 1 /\ k # 2 /\ S[k - 1] = "DeviceElement"
  <2>1. k # 1 /\ k # 2
    BY <1>3, <1>4, <1>13
  <2>2. S[k - 1] = "DeviceElement" /\ elements[p].name = "deviceList"
    BY <1>1, <1>7, <1>13, <2>1
  <2>3. /\ Len(mDeviceStack) \in DOMAIN mDeviceStack
        /\ Last(mDeviceStack) = mDeviceStack[Len(mDeviceStack)]
    BY <1>2, <1>13, HandlerTypes, EmptySeq DEF Last
  <2>4. Inner(Len(mDeviceStack)) = mCurrentDevice
    BY DEF Inner
  <2>5. elements[elements[at[mCurrentDevice]].parent].parent = at[Last(mDeviceStack)]
    BY <1>2, <2>3, <2>4 DEF OpenPlaced
  <2>6. at[mCurrentDevice] = y
    BY <1>12, <1>13
  <2> QED
    BY <1>1, <1>2, <1>5, <2>1, <2>2, <2>5, <2>6
<1> QED
  BY <1>9, <1>10, <1>11, <1>12, <1>13 DEF S

\* The record of d after an end tag.
LEMMA EndHeap ==
  ASSUME HandlerInv, Call, EndElement, NEW name, name = Head(tags).text,
         NEW below, below = Last(pop), NEW d \in DOMAIN device
  PROVE  /\ DOMAIN device' = DOMAIN device
         /\ device'[d].properties =
              IF top = "DataElement" /\ below = "DeviceElement" /\ d = mCurrentDevice
              THEN SetProperty(device[d].properties, name, mCharacterData)
              ELSE device[d].properties
         /\ device'[d].icons =
              IF top = "IconElement" /\ d = mCurrentDevice
              THEN Append(device[d].icons, mCurrentIcon) ELSE device[d].icons
         /\ device'[d].services =
              IF top = "ServiceElement" /\ d = mCurrentDevice
              THEN Append(device[d].services, [mCurrentService EXCEPT !.device = mCurrentDevice])
              ELSE device[d].services
         /\ device'[d].devices =
              IF top = "DeviceElement" /\ below # "RootElement" /\ d = Last(mDeviceStack)
              THEN Append(device[d].devices, mCurrentDevice) ELSE device[d].devices
<1>1. /\ mCurrentDevice \in DOMAIN device /\ device[d] \in DevicePrivate
      /\ device[mCurrentDevice] \in DevicePrivate
  BY HandlerTypes, HeapType
<1>2. CASE top = "DataElement"
  <2>1. CASE CloseDeviceData(name)
    BY <1>1, <1>2, <2>1 DEF CloseDeviceData, DevicePrivate
  <2>2. CASE CloseServiceData(name) \/ CloseIconData(name)
    BY <1>2, <2>2 DEF CloseServiceData, CloseIconData
  <2>3. CloseDeviceData(name) \/ CloseServiceData(name) \/ CloseIconData(name)
    BY <1>2 DEF EndElement
  <2> QED
    BY <2>1, <2>2, <2>3
<1>3. CASE top = "IconElement"
  <2>1. CloseIcon
    BY <1>3 DEF EndElement
  <2>2. device' = [device EXCEPT ![mCurrentDevice].icons = Append(@, mCurrentIcon)]
    BY <2>1 DEF CloseIcon, AddIcon
  <2> QED
    BY <1>1, <1>3, <2>2 DEF DevicePrivate
<1>4. CASE top = "ServiceElement"
  <2>1. CloseService
    BY <1>4 DEF EndElement
  <2>2. device' = [device EXCEPT ![mCurrentDevice].services =
                     Append(@, [mCurrentService EXCEPT !.device = mCurrentDevice])]
    BY <2>1 DEF CloseService, AddService
  <2> QED
    BY <1>1, <1>4, <2>2 DEF DevicePrivate
<1>5. CASE top = "DeviceElement"
  <2>1. CASE CloseRootDevice
    BY <1>1, <1>5, <2>1 DEF CloseRootDevice, SetRootDevice, DevicePrivate
  <2>2. CASE CloseEmbeddedDevice
    <3> PICK c, parent : c = mCurrentDevice /\ parent = Last(mDeviceStack)
      OBVIOUS
    <3>1. below # "RootElement" /\ device' = AddDevice(SetRootDevice(device, c), parent, c)
      BY <2>2 DEF CloseEmbeddedDevice, ResumeDevice
    <3> DEFINE heap == SetRootDevice(device, c)
    <3>2. /\ DOMAIN heap = DOMAIN device
          /\ heap[d].properties = device[d].properties /\ heap[d].icons = device[d].icons
          /\ heap[d].services = device[d].services /\ heap[d].devices = device[d].devices
          /\ heap[d] \in DevicePrivate
      BY <1>1 DEF SetRootDevice, DevicePrivate
    <3> HIDE DEF heap
    <3>3. DOMAIN device' = DOMAIN heap
      BY <3>1 DEF AddDevice, heap
    <3>4. /\ device'[d].properties = heap[d].properties /\ device'[d].icons = heap[d].icons
          /\ device'[d].services = heap[d].services
          /\ device'[d].devices = IF d = parent THEN Append(heap[d].devices, c) ELSE heap[d].devices
      <4>1. device' = [heap EXCEPT ![c].parent = parent, ![parent].devices = Append(@, c)]
        BY <3>1 DEF AddDevice, heap
      <4>2. d \in DOMAIN heap
        BY <3>2
      <4> QED
        BY <3>2, <4>1, <4>2 DEF DevicePrivate
    <3> QED
      BY <1>5, <3>1, <3>2, <3>3, <3>4
  <2> QED
    BY <1>5, <2>1, <2>2 DEF EndElement
<1>6. CASE top \notin {"DataElement", "IconElement", "ServiceElement", "DeviceElement"}
  BY <1>6 DEF EndElement
<1> QED
  BY <1>2, <1>3, <1>4, <1>5, <1>6

\* What the handler has in hand after it.
LEMMA EndHands ==
  ASSUME HandlerInv, Call, EndElement, NEW name, name = Head(tags).text,
         NEW below, below = Last(pop)
  PROVE  /\ mCurrentIcon' =
              IF top = "DataElement" /\ below = "IconElement"
              THEN SetIconProperty(mCurrentIcon, name, mCharacterData)
              ELSE IF top = "IconElement" THEN NewIcon ELSE mCurrentIcon
         /\ mCurrentService' =
              IF top = "DataElement" /\ below = "ServiceElement"
              THEN [mCurrentService EXCEPT
                      !.properties = SetProperty(mCurrentService.properties, name, mCharacterData)]
              ELSE IF top = "ServiceElement" THEN NewService ELSE mCurrentService
         /\ IF top = "DeviceElement" /\ below # "RootElement"
            THEN /\ mDeviceStack # <<>> /\ below = "DeviceListElement"
                 /\ mDeviceStack' = Front(mDeviceStack) /\ mCurrentDevice' = Last(mDeviceStack)
            ELSE mDeviceStack' = mDeviceStack /\ mCurrentDevice' = mCurrentDevice
         /\ rootDevice' = IF top = "DeviceElement" /\ below = "RootElement"
                          THEN mCurrentDevice ELSE rootDevice
<1>1. CASE top = "DataElement"
  BY <1>1 DEF EndElement, CloseDeviceData, CloseServiceData, CloseIconData, current
<1>2. CASE top = "IconElement"
  BY <1>2 DEF EndElement, CloseIcon
<1>3. CASE top = "ServiceElement"
  BY <1>3 DEF EndElement, CloseService
<1>4. CASE top = "DeviceElement"
  <2>1. CASE CloseRootDevice
    BY <1>4, <2>1 DEF CloseRootDevice
  <2>2. CASE CloseEmbeddedDevice
    <3>1. /\ below # "RootElement" /\ mDeviceStack' = Front(mDeviceStack)
          /\ mCurrentDevice' = Last(mDeviceStack)
          /\ UNCHANGED <<mCurrentService, mCurrentIcon, rootDevice>>
      BY <2>2 DEF CloseEmbeddedDevice, ResumeDevice
    <3>2. /\ mStatusStack # <<>> /\ mStatusStack \in Seq(Statuses) /\ Nests(mStatusStack)
          /\ Len(mDeviceStack) = Cardinality(Embedded(mStatusStack))
      BY EndElementPops
    <3>3. below \in {"RootElement", "DeviceListElement"} /\ Cardinality(Embedded(mStatusStack)) # 0
      BY <1>4, <3>1, <3>2, DeviceOnTop DEF top, pop
    <3>4. mDeviceStack # <<>>
      BY <3>2, <3>3
    <3> QED
      BY <1>4, <3>1, <3>3, <3>4
  <2> QED
    BY <1>4, <2>1, <2>2 DEF EndElement
<1>5. CASE top \notin {"DataElement", "IconElement", "ServiceElement", "DeviceElement"}
  BY <1>5 DEF EndElement, current
<1> QED
  BY <1>1, <1>2, <1>3, <1>4, <1>5

\* The devices stay where they are; the one around the current one takes its
\* place if its element has ended.
LEMMA EndPlaced ==
  ASSUME NEW name, NEW at, Ends(name, at), NEW k, NEW y, NEW p, NEW g, Ending(k, y, p, g)
  PROVE  Placed(at)' /\ RootPlaced(at)' /\ OpenPlaced(at)'
<1> DEFINE S == mStatusStack
           ds == mDeviceStack
           cur == mCurrentDevice
<1> PICK below : below = Last(pop)
  OBVIOUS
<1>1. /\ HandlerInv /\ Call /\ EndElement /\ name = Head(tags).text /\ Table
      /\ Placed(at) /\ RootPlaced(at) /\ OpenPlaced(at)
      /\ y = open[k] /\ p = elements[y].parent
  BY DEF Ends, Ending, Built
<1>2. /\ k \in Nat \ {0} /\ DOMAIN open = 1 .. k /\ DOMAIN open' = 1 .. k - 1
      /\ \A i \in 1 .. k - 1 : open'[i] = open[i]
      /\ y \in DOMAIN elements /\ y # 0
      /\ elements' = elements /\ Ended' = Ended \cup {y}
      /\ top = S[k + 1] /\ below = S[k]
      /\ \A i \in 1 .. k : S'[i] = S[i]
      /\ \A i \in 1 .. k + 1 : S[i] = "RootElement" <=> i = 2
      /\ k = 1 => p = 0
      /\ k # 1 /\ k # 2 => p # 1 /\ g = open[k - 2]
  BY EndAt
<1>3. /\ top = "DeviceElement" => at[cur] = y
      /\ top = "DeviceElement" /\ below = "DeviceListElement" /\ ds # <<>> =>
           at[Last(ds)] = g /\ k # 1 /\ k # 2 /\ S[k - 1] = "DeviceElement"
  BY <1>2, EndDevices
<1>4. /\ DOMAIN device' = DOMAIN device
      /\ IF top = "DeviceElement" /\ below # "RootElement"
         THEN /\ ds # <<>> /\ below = "DeviceListElement"
              /\ ds' = Front(ds) /\ cur' = Last(ds)
         ELSE ds' = ds /\ cur' = cur
      /\ rootDevice' = IF top = "DeviceElement" /\ below = "RootElement" THEN cur ELSE rootDevice
  <2>1. 1 \in DOMAIN device
    BY <1>1, HandlerTypes
  <2> QED
    BY <1>1, <2>1, EndHeap, EndHands
<1>5. /\ ds \in Seq(DOMAIN device) /\ DOMAIN ds = 1 .. Len(ds) /\ Len(ds) \in Nat
      /\ cur \in DOMAIN device /\ 1 \in DOMAIN device
      /\ \A j \in DOMAIN ds : Inner(j) \in DOMAIN device /\ ds[j] \in DOMAIN device
      /\ 0 \notin DOMAIN device
  <2>1. 0 \notin DOMAIN device
    BY <1>1, HandlerTypes
  <2> QED
    BY <1>1, <2>1, HandlerTypes
<1>6. \A i \in 1 .. k - 1 : i \in 1 .. k /\ i + 1 \in 1 .. k /\ S'[i + 1] = S[i + 1]
  BY <1>2
<1>12. /\ at \in [DOMAIN device -> Nat]
       /\ \A d \in DOMAIN device :
            /\ at[d] = 0 => d = 1
            /\ at[d] # 0 => at[d] \in DOMAIN elements /\ elements[at[d]].name = "device"
            /\ \A e \in DOMAIN device : at[d] = at[e] => d = e
            /\ \A i \in 1 .. k : open[i] = at[d] => S[i + 1] = "DeviceElement"
  BY <1>1, <1>2 DEF Placed
<1> HIDE DEF S, ds, cur
<1>7. Placed(at)'
  <2>1. \A d \in DOMAIN device : \A i \in 1 .. k - 1 :
          open'[i] = at[d] => S'[i + 1] = "DeviceElement"
    <3> SUFFICES ASSUME NEW d \in DOMAIN device, NEW i \in 1 .. k - 1, open'[i] = at[d]
                 PROVE  S'[i + 1] = "DeviceElement"
      OBVIOUS
    <3>1. i \in 1 .. k /\ S'[i + 1] = S[i + 1] /\ open'[i] = open[i]
      BY <1>2, <1>6
    <3> QED
      BY <1>12, <3>1
  <2> QED
    BY <1>2, <1>4, <1>12, <2>1 DEF Placed, S
<1>8. RootPlaced(at)'
  <2>1. ASSUME at[1] \in Ended PROVE rootDevice' = 1
    <3>1. HandlerInv'
      BY <1>1, EndElementKeeps
    <3>2. rootDevice = 1 /\ rootDevice' \in {0, 1}
      BY <1>1, <2>1, <3>1 DEF RootPlaced, HandlerInv, DevicesNest
    <3> QED
      BY <1>4, <1>5, <3>2
  <2>2. ASSUME at[1] = y PROVE rootDevice' = 1
    <3>1. top = "DeviceElement"
      <4>1. k \in 1 .. k
        BY <1>2
      <4> QED
        BY <1>1, <1>2, <1>5, <1>12, <2>2, <4>1
    <3>2. p = 1
      BY <1>1, <1>2, <2>2 DEF RootPlaced
    <3>3. k = 2
      BY <1>2, <3>2
    <3>4. below = "RootElement"
      BY <1>2, <3>3
    <3>5. at[cur] = at[1]
      BY <1>3, <2>2, <3>1
    <3> QED
      BY <1>1, <1>4, <1>5, <3>1, <3>4, <3>5 DEF Placed
  <2> QED
    BY <1>1, <1>2, <2>1, <2>2 DEF RootPlaced, IsDevice
<1>9. ASSUME NEW i \in 1 .. k - 1, S[i + 1] = "DeviceElement",
             \A j \in 1 .. k - 1 : i < j => S[j + 1] # "DeviceElement"
      PROVE  at[cur'] = open[i]
  <2>1. CASE top # "DeviceElement"
    <3>1. \A j \in 1 .. k : i < j => S[j + 1] # "DeviceElement"
      <4>1. \A j \in 1 .. k : j \in 1 .. k - 1 \/ j = k
        BY <1>2
      <4> QED
        BY <1>2, <1>9, <2>1, <4>1
    <3>2. at[cur] = open[i]
      BY <1>1, <1>2, <1>6, <1>9, <3>1 DEF OpenPlaced, S, cur
    <3> QED
      BY <1>4, <2>1, <3>2
  <2>2. CASE top = "DeviceElement" /\ below = "RootElement"
    <3>1. k \in 1 .. k + 1
      BY <1>2
    <3>2. k = 2
      BY <1>2, <2>2, <3>1
    <3>3. i + 1 = 2 /\ 2 \in 1 .. k + 1
      BY <3>2
    <3>4. S[2] = "RootElement"
      BY <1>2, <3>3
    <3> QED
      BY <1>9, <3>3, <3>4
  <2>3. CASE top = "DeviceElement" /\ below # "RootElement"
    <3>1. /\ at[cur'] = g /\ k # 1 /\ k # 2 /\ S[k - 1] = "DeviceElement"
          /\ S[k] = "DeviceListElement" /\ g = open[k - 2]
      BY <1>2, <1>3, <1>4, <2>3
    <3>2. k - 2 \in 1 .. k - 1 /\ (k - 2) + 1 = k - 1 /\ (k - 1) + 1 = k
      BY <1>2, <3>1
    <3>3. i # k - 1
      BY <1>9, <3>1, <3>2
    <3>4. ~ i < k - 2
      BY <1>9, <3>1, <3>2
    <3>5. i = k - 2
      BY <1>2, <3>3, <3>4
    <3> QED
      BY <3>1, <3>5
  <2> QED
    BY <2>1, <2>2, <2>3
<1>10. ASSUME NEW j \in DOMAIN ds'
       PROVE  j \in DOMAIN ds /\ Inner(j)' = Inner(j) /\ ds'[j] = ds[j]
  <2>1. CASE ds' = ds /\ cur' = cur
    BY <1>10, <2>1 DEF Inner, ds, cur
  <2>2. CASE ds # <<>> /\ ds' = Front(ds) /\ cur' = Last(ds)
    <3>1. /\ Len(ds) \in Nat \ {0} /\ Len(ds') = Len(ds) - 1 /\ DOMAIN ds' = 1 .. Len(ds) - 1
          /\ \A i \in 1 .. Len(ds) - 1 : ds'[i] = ds[i]
          /\ cur' = ds[Len(ds)]
      BY <1>5, <2>2, FrontLast
    <3>2. j \in 1 .. Len(ds) - 1 /\ j # Len(ds) /\ j \in DOMAIN ds
      BY <1>5, <1>10, <3>1
    <3>3. Inner(j) = ds[j + 1]
      BY <3>2 DEF Inner, ds
    <3>4. Inner(j)' = IF j = Len(ds') THEN cur' ELSE ds'[j + 1]
      BY DEF Inner, ds, cur
    <3>5. j # Len(ds') => j + 1 \in 1 .. Len(ds) - 1
      BY <3>1, <3>2
    <3>6. j = Len(ds') => j + 1 = Len(ds)
      BY <3>1, <3>2
    <3> QED
      BY <3>1, <3>2, <3>3, <3>4, <3>5, <3>6
  <2> QED
    BY <1>4, <2>1, <2>2
<1>11. OpenPlaced(at)'
  <2>1. \A i \in DOMAIN open' :
          /\ S'[i + 1] = "DeviceElement"
          /\ \A j \in DOMAIN open' : i < j => S'[j + 1] # "DeviceElement"
          => at[cur'] = open'[i]
    BY <1>2, <1>6, <1>9
  <2>2. \A j \in DOMAIN ds' :
          LET e == at[Inner(j)'] IN
            /\ e # 0 /\ elements'[e].parent # 0
            /\ elements'[elements'[e].parent].parent = at[ds'[j]]
    BY <1>1, <1>2, <1>10 DEF OpenPlaced, ds
  <2> QED
    BY <2>1, <2>2 DEF OpenPlaced, S, ds, cur
<1> QED
  BY <1>7, <1>8, <1>11

\* One more has ended, the last one in the order of the document.
OneMore(list, set, meaning, more, y, later) ==
  /\ IsFiniteSet(set) /\ set \subseteq Nat /\ y \in Nat /\ \A c \in set : c < y
  /\ InOrder(list, set, meaning)
  /\ Len(more) = Len(list) + 1 /\ \A i \in 1 .. Len(list) : more[i] = list[i]
  /\ \A c \in set : later[c] = meaning[c]
  /\ more[Len(list) + 1] = later[y]

\* It is the last one of the list then.
LEMMA InOrderAppend ==
  ASSUME NEW list, NEW set, NEW meaning, NEW more, NEW y, NEW later,
         OneMore(list, set, meaning, more, y, later)
  PROVE  InOrder(more, set \cup {y}, later)
<1> DEFINE next == set \cup {y}
           n == Len(list)
<1>0. /\ IsFiniteSet(set) /\ set \subseteq Nat /\ y \in Nat /\ \A c \in set : c < y
      /\ InOrder(list, set, meaning)
      /\ Len(more) = n + 1 /\ \A i \in 1 .. n : more[i] = list[i]
      /\ \A c \in set : later[c] = meaning[c]
      /\ more[n + 1] = later[y]
  BY DEF OneMore
<1>1. n \in Nat /\ n = Cardinality(set)
  BY <1>0, FS_CardinalityType DEF InOrder
<1>2. Cardinality(next) = n + 1
  <2>1. y \notin set
    BY <1>0
  <2>2. Cardinality(set \cup {y}) = Cardinality(set) + 1
    BY <1>0, <2>1, FS_AddElement
  <2> QED
    BY <1>1, <2>2
<1>3. ASSUME NEW e \in next
      PROVE  more[Cardinality({c \in next : c <= e})] = later[e]
  <2>1. CASE e = y
    <3>1. {c \in next : c <= e} = next
      <4>1. \A c \in next : c <= y
        BY <1>0
      <4> QED
        BY <2>1, <4>1
    <3> QED
      BY <1>0, <1>2, <2>1, <3>1
  <2>2. CASE e \in set
    <3> DEFINE upto == {c \in set : c <= e}
    <3>1. {c \in next : c <= e} = upto
      <4>1. ~ y <= e
        BY <1>0, <2>2
      <4> QED
        BY <4>1
    <3>2. IsFiniteSet(upto) /\ Cardinality(upto) <= n
      BY <1>0, <1>1, FS_Subset
    <3>3. Cardinality(upto) # 0
      <4>1. e \in upto
        BY <1>0, <2>2
      <4> QED
        BY <3>2, <4>1, FS_EmptySet
    <3>4. Cardinality(upto) \in 1 .. n
      BY <1>1, <3>2, <3>3, FS_CardinalityType
    <3>5. list[Cardinality(upto)] = meaning[e]
      BY <1>0, <2>2 DEF InOrder
    <3> QED
      BY <1>0, <2>2, <3>1, <3>4, <3>5
  <2> QED
    BY <2>1, <2>2
<1> QED
  BY <1>0, <1>1, <1>2, <1>3 DEF InOrder

\* What the texts are that an end tag adds to.
LEMMA EndTexts ==
  ASSUME NEW name, NEW at, Ends(name, at), NEW k, NEW y, NEW p, NEW g, Ending(k, y, p, g)
  PROVE  /\ \A e : e # p => IconOf(e)' = IconOf(e)
         /\ \A e, keys : e # p => TextsOf(e, keys)' = TextsOf(e, keys)
         /\ \A keys : TextsOf(p, keys)' = SetProperty(TextsOf(p, keys), name, elements[y].text)
         /\ IconOf(p)' = SetIconProperty(IconOf(p), name, elements[y].text)
         /\ \A e, n : e # p \/ n # name => TextOf(e, n)' = TextOf(e, n)
         /\ TextOf(p, name)' = elements[y].text
<1>1. \A e, n : TextOf(e, n)' = IF e = p /\ n = name THEN elements[y].text ELSE TextOf(e, n)
  BY EndReference DEF Ends, Ending
<1>2. \A e, keys : TextsOf(e, keys) = [n \in keys |-> TextOf(e, n)]
  BY DEF TextsOf
<1>3. \A e, keys : TextsOf(e, keys)' = [n \in keys |-> TextOf(e, n)']
  BY DEF TextsOf
<1>4. \A e, keys : e # p => TextsOf(e, keys)' = TextsOf(e, keys)
  BY <1>1, <1>2, <1>3
<1>5. ASSUME NEW keys
      PROVE  TextsOf(p, keys)' = SetProperty(TextsOf(p, keys), name, elements[y].text)
  BY <1>1, <1>2, <1>3 DEF SetProperty
<1>6. \A e : e # p => IconOf(e)' = IconOf(e)
  BY <1>1 DEF IconOf
<1>7. IconOf(p)' = SetIconProperty(IconOf(p), name, elements[y].text)
  <2>1. IconOf(p)' = [n \in IconKeys |-> IF n \in IconSizes THEN ToInt(TextOf(p, n)')
                                                            ELSE TextOf(p, n)']
    BY DEF IconOf, ToInt
  <2>2. DOMAIN IconOf(p) = IconKeys
    BY DEF IconOf
  <2>3. CASE name \notin IconKeys
    BY <1>1, <2>1, <2>2, <2>3 DEF SetIconProperty, SetProperty, IconOf
  <2>4. CASE name \in IconKeys
    BY <1>1, <2>1, <2>2, <2>4 DEF SetIconProperty, SetProperty, IconOf
  <2> QED
    BY <2>3, <2>4
<1> QED
  BY <1>1, <1>4, <1>5, <1>6, <1>7

\* If something of a device ends, then the handler knows what it is, and that
\* the device is the current one, or the one around it.
LEMMA EndKinds ==
  ASSUME NEW name, NEW at, Ends(name, at), NEW k, NEW y, NEW p, NEW g, Ending(k, y, p, g),
         NEW d \in DOMAIN device, NEW e, e = at[d], e # 0
  PROVE  /\ e = p /\ name \in DeviceKeys =>
              top = "DataElement" /\ mStatusStack[k] = "DeviceElement"
         /\ p # 0 /\ elements[p].parent = e =>
              /\ e = g
              /\ name = "icon" /\ elements[p].name = "iconList" => top = "IconElement"
              /\ name = "service" /\ elements[p].name = "serviceList" => top = "ServiceElement"
              /\ name = "device" /\ elements[p].name = "deviceList" =>
                   top = "DeviceElement" /\ mStatusStack[k] = "DeviceListElement"
<1> DEFINE S == mStatusStack
<1>1. /\ k \in Nat \ {0} /\ DOMAIN open = 1 .. k
      /\ k = 1 => p = 0 /\ g = 0
      /\ k # 1 => /\ k - 1 \in 1 .. k /\ (k - 1) + 1 = k
                  /\ p = open[k - 1] /\ top = Child(S[k], name)
      /\ k = 2 => p = 1 /\ g = 0
      /\ k # 1 /\ k # 2 => /\ k - 2 \in 1 .. k /\ (k - 2) + 1 = k - 1
                           /\ g = open[k - 2]
                           /\ S[k] = Child(S[k - 1], elements[p].name)
  BY EndAt
<1>2. \A i \in 1 .. k : open[i] = e => S[i + 1] = "DeviceElement"
  BY <1>1 DEF Ends, Built, Placed
<1> HIDE DEF S
<1>3. ASSUME e = p, name \in DeviceKeys PROVE top = "DataElement" /\ S[k] = "DeviceElement"
  <2>1. k # 1
    BY <1>1, <1>3
  <2>2. S[k] = "DeviceElement"
    BY <1>1, <1>2, <1>3, <2>1
  <2> QED
    BY <1>1, <1>3, <2>1, <2>2, KindOf
<1>4. ASSUME p # 0, elements[p].parent = e
      PROVE  e = g /\ k # 1 /\ k # 2 /\ S[k - 1] = "DeviceElement"
  <2>1. e = g
    BY <1>4 DEF Ending, Around
  <2>2. k # 1 /\ k # 2
    BY <1>1, <2>1
  <2> QED
    BY <1>1, <1>2, <2>1, <2>2
<1>5. ASSUME p # 0, elements[p].parent = e
      PROVE  /\ name = "icon" /\ elements[p].name = "iconList" => top = "IconElement"
             /\ name = "service" /\ elements[p].name = "serviceList" => top = "ServiceElement"
             /\ name = "device" /\ elements[p].name = "deviceList" =>
                  top = "DeviceElement" /\ S[k] = "DeviceListElement"
  <2>1. k # 1 /\ k # 2 /\ S[k - 1] = "DeviceElement"
    BY <1>4, <1>5
  <2>2. S[k] = Child("DeviceElement", elements[p].name) /\ top = Child(S[k], name)
    BY <1>1, <2>1
  <2>3. \A s, n : /\ s = "DeviceElement" /\ n = "iconList" => Child(s, n) = "IconListElement"
                  /\ s = "DeviceElement" /\ n = "serviceList" => Child(s, n) = "ServiceListElement"
                  /\ s = "DeviceElement" /\ n = "deviceList" => Child(s, n) = "DeviceListElement"
                  /\ s = "IconListElement" /\ n = "icon" => Child(s, n) = "IconElement"
                  /\ s = "ServiceListElement" /\ n = "service" => Child(s, n) = "ServiceElement"
                  /\ s = "DeviceListElement" /\ n = "device" => Child(s, n) = "DeviceElement"
    BY KindOf
  <2> QED
    BY <2>2, <2>3
<1> QED
  BY <1>3, <1>4, <1>5 DEF S

\* The lists of the element of a device, after an end tag.
LEMMA EndListed ==
  ASSUME NEW name, NEW at, Ends(name, at), NEW k, NEW y, NEW p, NEW g, Ending(k, y, p, g),
         NEW e, NEW l, NEW n
  PROVE  /\ IsFiniteSet(Listed(e, l, n)) /\ Listed(e, l, n) \subseteq Nat /\ y \in Nat
         /\ \A c \in Listed(e, l, n) : c # p
         /\ y # p
         /\ IF n = name /\ p # 0 /\ elements[p].name = l /\ elements[p].parent = e
            THEN /\ Listed(e, l, n)' = Listed(e, l, n) \cup {y}
                 /\ \A c \in Listed(e, l, n) : c < y
            ELSE Listed(e, l, n)' = Listed(e, l, n)
<1>1. /\ Table /\ Latest /\ NoteEnd(name) /\ open # <<>>
      /\ y = open[Len(open)] /\ p = elements[y].parent
  BY DEF Ends, Ending
<1>2. y \in DOMAIN elements /\ p \notin Ended' /\ Ended' = Ended \cup {y}
  BY EndAt
<1>3. /\ Listed(e, l, n) \subseteq Ended /\ Ended \subseteq 1 .. Len(elements)
      /\ Len(elements) \in Nat /\ y \in Nat
  BY <1>1, <1>2, NamedTypes, TableTypes
<1>4. IsFiniteSet(Listed(e, l, n))
  <2>1. IsFiniteSet(1 .. Len(elements))
    BY <1>3, FS_Interval
  <2>2. Listed(e, l, n) \subseteq 1 .. Len(elements)
    BY <1>3
  <2> QED
    BY <2>1, <2>2, FS_Subset
<1>5. \A c \in Listed(e, l, n) : c # p
  BY <1>2, <1>3
<1>6. /\ Listed(e, l, n)' =
           IF n = name /\ p # 0 /\ elements[p].name = l /\ elements[p].parent = e
           THEN Listed(e, l, n) \cup {y} ELSE Listed(e, l, n)
      /\ p # 0 => \A c \in Listed(elements[p].parent, l, n) : c < y
  BY <1>1, EndReference
<1>7. y # p
  BY <1>2
<1>8. Listed(e, l, n) \subseteq Nat
  <2>1. \A c \in 1 .. Len(elements) : c \in Nat
    OBVIOUS
  <2> QED
    BY <1>3, <2>1
<1>9. ASSUME n = name /\ p # 0 /\ elements[p].name = l /\ elements[p].parent = e
      PROVE  \A c \in Listed(e, l, n) : c < y
  BY <1>6, <1>9
<1> QED
  BY <1>3, <1>4, <1>5, <1>6, <1>7, <1>8, <1>9

\* What a device is described by goes on to describe it.
LEMMA EndDescribes ==
  ASSUME NEW name, NEW at, Ends(name, at), NEW k, NEW y, NEW p, NEW g, Ending(k, y, p, g),
         NEW d \in DOMAIN device, NEW e, e = at[d], e # 0
  PROVE  Describes(e, d, at)'
<1> PICK below, cur, around :
      below = Last(pop) /\ cur = mCurrentDevice /\ around = Last(mDeviceStack)
  OBVIOUS
<1>1. /\ HandlerInv /\ Call /\ EndElement /\ name = Head(tags).text
      /\ Describes(e, d, at) /\ below = mStatusStack[k]
      /\ device \in Seq(DevicePrivate) /\ device[d] \in DevicePrivate
      /\ mCurrentDevice \in DOMAIN device
  <2>1. HandlerInv
    BY DEF Ends
  <2>2. device \in Seq(DevicePrivate) /\ mCurrentDevice \in DOMAIN device
    BY <2>1, HandlerTypes
  <2>3. device[d] \in DevicePrivate
    BY <2>2, HeapType
  <2> QED
    BY <2>2, <2>3, EndAt DEF Ends, Built, Filled
<1>2. \A f \in DOMAIN device : at[f] = e => f = d
  BY DEF Ends, Built, Placed
<1>3. /\ device'[d].properties =
           IF top = "DataElement" /\ below = "DeviceElement" /\ d = cur
           THEN SetProperty(device[d].properties, name, mCharacterData)
           ELSE device[d].properties
      /\ device'[d].icons =
           IF top = "IconElement" /\ d = cur
           THEN Append(device[d].icons, mCurrentIcon) ELSE device[d].icons
      /\ device'[d].services =
           IF top = "ServiceElement" /\ d = cur
           THEN Append(device[d].services, [mCurrentService EXCEPT !.device = cur])
           ELSE device[d].services
      /\ device'[d].devices =
           IF top = "DeviceElement" /\ below # "RootElement" /\ d = around
           THEN Append(device[d].devices, cur) ELSE device[d].devices
  BY <1>1, EndHeap
<1>4. /\ \A keys : TextsOf(p, keys)' = SetProperty(TextsOf(p, keys), name, elements[y].text)
      /\ \A c, keys : c # p => TextsOf(c, keys)' = TextsOf(c, keys)
      /\ \A c : c # p => IconOf(c)' = IconOf(c)
  BY EndTexts
<1>5. /\ e = p /\ name \in DeviceKeys => top = "DataElement" /\ below = "DeviceElement"
      /\ p # 0 /\ elements[p].parent = e =>
           /\ e = g
           /\ name = "icon" /\ elements[p].name = "iconList" => top = "IconElement"
           /\ name = "service" /\ elements[p].name = "serviceList" => top = "ServiceElement"
           /\ name = "device" /\ elements[p].name = "deviceList" =>
                top = "DeviceElement" /\ below = "DeviceListElement"
  BY <1>1, EndKinds
<1>6. /\ top = "DataElement" /\ below = "DeviceElement" => at[cur] = p /\ name \in DeviceKeys
      /\ top = "IconElement" =>
           /\ at[cur] = g /\ p # 0 /\ name = "icon"
           /\ elements[p].name = "iconList" /\ elements[p].parent = g
      /\ top = "ServiceElement" =>
           /\ at[cur] = g /\ p # 0 /\ name = "service"
           /\ elements[p].name = "serviceList" /\ elements[p].parent = g
      /\ top = "DeviceElement" => at[cur] = y /\ name = "device"
      /\ top = "DeviceElement" /\ below = "DeviceListElement" /\ mDeviceStack # <<>> =>
           /\ at[around] = g /\ p # 0
           /\ elements[p].name = "deviceList" /\ elements[p].parent = g
  BY <1>1, EndDevices
<1>7. \A l, n :
        /\ IsFiniteSet(Listed(e, l, n)) /\ Listed(e, l, n) \subseteq Nat /\ y \in Nat
        /\ \A c \in Listed(e, l, n) : c # p
        /\ y # p
        /\ IF n = name /\ p # 0 /\ elements[p].name = l /\ elements[p].parent = e
           THEN /\ Listed(e, l, n)' = Listed(e, l, n) \cup {y}
                /\ \A c \in Listed(e, l, n) : c < y
           ELSE Listed(e, l, n)' = Listed(e, l, n)
  BY EndListed
<1>8. k \in 1 .. k /\ DOMAIN open = 1 .. k /\ top = mStatusStack[k + 1] /\ y = open[k]
  BY EndAt DEF Ending
<1>9. device'[d].properties = TextsOf(e, DeviceKeys)'
  <2>1. device[d].properties = TextsOf(e, DeviceKeys)
    BY <1>1 DEF Describes
  <2>2. CASE e = p /\ name \in DeviceKeys
    <3>1. d = cur
      BY <1>1, <1>2, <1>5, <1>6, <2>2
    <3>2. mCharacterData = elements[y].text
      BY <1>5, <1>8, <2>2 DEF Ends, Ending, StackInv, HoldsText
    <3> QED
      BY <1>3, <1>4, <1>5, <2>1, <2>2, <3>1, <3>2
  <2>3. CASE ~ (e = p /\ name \in DeviceKeys)
    <3>1. TextsOf(e, DeviceKeys)' = TextsOf(e, DeviceKeys)
      <4>1. DOMAIN TextsOf(e, DeviceKeys) = DeviceKeys
        BY DEF TextsOf
      <4> QED
        BY <1>4, <2>3, <4>1 DEF SetProperty
    <3> QED
      BY <1>3, <1>6, <2>1, <2>3, <3>1
  <2> QED
    BY <2>2, <2>3
<1>10. InOrder(device'[d].icons, Listed(e, "iconList", "icon")',
               [c \in Listed(e, "iconList", "icon")' |-> IconOf(c)'])
  <2> PICK set, meaning, list : /\ set = Listed(e, "iconList", "icon")
                                /\ meaning = [c \in set |-> IconOf(c)]
                                /\ list = device[d].icons
    OBVIOUS
  <2> PICK next, later, more : /\ next = Listed(e, "iconList", "icon")'
                               /\ later = [c \in next |-> IconOf(c)']
                               /\ more = device'[d].icons
    OBVIOUS
  <2>1. InOrder(list, set, meaning)
    BY <1>1 DEF Describes
  <2>2. \A c \in set : c # p /\ IconOf(c)' = IconOf(c)
    BY <1>4, <1>7
  <2>3. CASE name = "icon" /\ p # 0 /\ elements[p].name = "iconList" /\ elements[p].parent = e
    <3>1. top = "IconElement" /\ d = cur
      BY <1>1, <1>2, <1>5, <1>6, <2>3
    <3>2. mCurrentIcon = IconOf(y)
      BY <1>8, <3>1 DEF Ends, InHand
    <3>3. more = Append(list, IconOf(y))
      BY <1>3, <3>1, <3>2
    <3>4. list \in Seq(IconPrivate) /\ mCurrentIcon \in IconPrivate
      BY <1>1 DEF DevicePrivate, HandlerInv, HandlerTypeOK
    <3>5. /\ Len(more) = Len(list) + 1 /\ \A i \in 1 .. Len(list) : more[i] = list[i]
          /\ more[Len(list) + 1] = IconOf(y)
      BY <3>2, <3>3, <3>4, AppendLast
    <3>6. /\ next = set \cup {y} /\ \A c \in set : c < y
          /\ IsFiniteSet(set) /\ set \subseteq Nat /\ y \in Nat /\ y # p
      BY <1>7, <2>3
    <3>7. later[y] = IconOf(y) /\ \A c \in set : later[c] = meaning[c]
      BY <1>4, <2>2, <3>6
    <3>8. InOrder(more, set \cup {y}, later)
      <4>1. more[Len(list) + 1] = later[y]
        BY <3>5, <3>7
      <4>2. OneMore(list, set, meaning, more, y, later)
        BY <2>1, <3>5, <3>6, <3>7, <4>1 DEF OneMore
      <4> QED
        BY <4>2, InOrderAppend
    <3> QED
      BY <3>6, <3>8
  <2>4. CASE ~ (name = "icon" /\ p # 0 /\ elements[p].name = "iconList"
                /\ elements[p].parent = e)
    <3>1. next = set
      BY <1>7, <2>4
    <3>2. more = list
      BY <1>3, <1>6, <2>4
    <3>3. later = meaning
      BY <2>2, <3>1
    <3> QED
      BY <2>1, <3>1, <3>2, <3>3
  <2> QED
    BY <2>3, <2>4
<1>11. InOrder([i \in DOMAIN device'[d].services |-> device'[d].services[i].properties],
               Listed(e, "serviceList", "service")',
               [c \in Listed(e, "serviceList", "service")' |-> TextsOf(c, ServiceKeys)'])
  <2> PICK set, meaning, list :
        /\ set = Listed(e, "serviceList", "service")
        /\ meaning = [c \in set |-> TextsOf(c, ServiceKeys)]
        /\ list = [i \in DOMAIN device[d].services |-> device[d].services[i].properties]
    OBVIOUS
  <2> PICK next, later, more :
        /\ next = Listed(e, "serviceList", "service")'
        /\ later = [c \in next |-> TextsOf(c, ServiceKeys)']
        /\ more = [i \in DOMAIN device'[d].services |-> device'[d].services[i].properties]
    OBVIOUS
  <2>1. InOrder(list, set, meaning)
    BY <1>1 DEF Describes
  <2>2. \A c \in set : c # p /\ TextsOf(c, ServiceKeys)' = TextsOf(c, ServiceKeys)
    BY <1>4, <1>7
  <2>3. CASE /\ name = "service" /\ p # 0 /\ elements[p].name = "serviceList"
             /\ elements[p].parent = e
    <3>1. top = "ServiceElement" /\ d = cur
      BY <1>1, <1>2, <1>5, <1>6, <2>3
    <3>2. mCurrentService.properties = TextsOf(y, ServiceKeys)
      BY <1>8, <3>1 DEF Ends, InHand
    <3> PICK service, services : /\ service = [mCurrentService EXCEPT !.device = cur]
                                 /\ services = device[d].services
      OBVIOUS
    <3>3. device'[d].services = Append(services, service)
      BY <1>3, <3>1
    <3>4. /\ services \in Seq(ServicePrivate) /\ service \in ServicePrivate
          /\ service.properties = TextsOf(y, ServiceKeys)
      <4>1. mCurrentService \in ServicePrivate /\ cur \in Nat
        <5>1. DOMAIN device = 1 .. Len(device)
          BY <1>1, HandlerTypes
        <5> QED
          BY <1>1, <5>1 DEF HandlerInv, HandlerTypeOK
      <4> QED
        BY <1>1, <3>2, <4>1 DEF DevicePrivate, ServicePrivate
    <3>5. /\ Len(services) \in Nat /\ DOMAIN services = 1 .. Len(services)
          /\ DOMAIN Append(services, service) = 1 .. Len(services) + 1
          /\ \A i \in 1 .. Len(services) : Append(services, service)[i] = services[i]
          /\ Append(services, service)[Len(services) + 1] = service
      BY <3>4, AppendLast
    <3>6. Len(list) = Len(services) /\ Len(more) = Len(services) + 1
      <4>1. /\ list \in [1 .. Len(services) -> {services[i].properties : i \in 1 .. Len(services)}]
            /\ more \in [1 .. Len(services) + 1 ->
                           {device'[d].services[i].properties : i \in 1 .. Len(services) + 1}]
        BY <3>3, <3>5
      <4>2. Len(services) + 1 \in Nat
        BY <3>5
      <4> QED
        BY <3>5, <4>1, <4>2, MapLen
    <3>7. /\ \A i \in 1 .. Len(list) : more[i] = list[i]
          /\ more[Len(list) + 1] = TextsOf(y, ServiceKeys)
      <4>1. \A i \in 1 .. Len(services) : i \in 1 .. Len(services) + 1
        BY <3>5
      <4>2. Len(services) + 1 \in 1 .. Len(services) + 1
        BY <3>5
      <4> QED
        BY <3>3, <3>4, <3>5, <3>6, <4>1, <4>2
    <3>8. /\ next = set \cup {y} /\ \A c \in set : c < y
          /\ IsFiniteSet(set) /\ set \subseteq Nat /\ y \in Nat /\ y # p
      BY <1>7, <2>3
    <3>9. later[y] = TextsOf(y, ServiceKeys) /\ \A c \in set : later[c] = meaning[c]
      BY <1>4, <2>2, <3>8
    <3>10. InOrder(more, set \cup {y}, later)
      <4>1. more[Len(list) + 1] = later[y] /\ Len(more) = Len(list) + 1
        BY <3>6, <3>7, <3>9
      <4>2. OneMore(list, set, meaning, more, y, later)
        BY <2>1, <3>7, <3>8, <3>9, <4>1 DEF OneMore
      <4> QED
        BY <4>2, InOrderAppend
    <3> QED
      BY <3>8, <3>10
  <2>4. CASE ~ (name = "service" /\ p # 0 /\ elements[p].name = "serviceList"
                /\ elements[p].parent = e)
    <3>1. next = set
      BY <1>7, <2>4
    <3>2. device'[d].services = device[d].services
      BY <1>3, <1>6, <2>4
    <3>3. later = meaning /\ more = list
      BY <2>2, <3>1, <3>2
    <3> QED
      BY <2>1, <3>1, <3>3
  <2> QED
    BY <2>3, <2>4
<1>12. InOrder([i \in DOMAIN device'[d].devices |-> at[device'[d].devices[i]]],
               Listed(e, "deviceList", "device")',
               [c \in Listed(e, "deviceList", "device")' |-> c])
  <2> PICK set, meaning, list :
        /\ set = Listed(e, "deviceList", "device")
        /\ meaning = [c \in set |-> c]
        /\ list = [i \in DOMAIN device[d].devices |-> at[device[d].devices[i]]]
    OBVIOUS
  <2> PICK next, later, more :
        /\ next = Listed(e, "deviceList", "device")'
        /\ later = [c \in next |-> c]
        /\ more = [i \in DOMAIN device'[d].devices |-> at[device'[d].devices[i]]]
    OBVIOUS
  <2>1. InOrder(list, set, meaning)
    BY <1>1 DEF Describes
  <2>2. top = "DeviceElement" /\ below # "RootElement" =>
          mDeviceStack # <<>> /\ below = "DeviceListElement" /\ around \in DOMAIN device
    <3>1. top = "DeviceElement" /\ below # "RootElement" =>
            mDeviceStack # <<>> /\ below = "DeviceListElement"
      BY <1>1, EndHands
    <3>2. mDeviceStack # <<>> => around \in DOMAIN device
      BY <1>1, HandlerTypes, FrontLast
    <3> QED
      BY <3>1, <3>2
  <2>3. CASE /\ name = "device" /\ p # 0 /\ elements[p].name = "deviceList"
             /\ elements[p].parent = e
    <3>1. top = "DeviceElement" /\ below # "RootElement" /\ d = around /\ at[cur] = y
      BY <1>2, <1>5, <1>6, <2>2, <2>3
    <3> PICK devices : devices = device[d].devices
      OBVIOUS
    <3>2. device'[d].devices = Append(devices, cur)
      BY <1>3, <3>1
    <3>3. devices \in Seq(Nat) /\ cur \in Nat
      <4>1. DOMAIN device = 1 .. Len(device)
        BY <1>1, HandlerTypes
      <4> QED
        BY <1>1, <4>1 DEF DevicePrivate
    <3>4. /\ Len(devices) \in Nat /\ DOMAIN devices = 1 .. Len(devices)
          /\ DOMAIN Append(devices, cur) = 1 .. Len(devices) + 1
          /\ \A i \in 1 .. Len(devices) : Append(devices, cur)[i] = devices[i]
          /\ Append(devices, cur)[Len(devices) + 1] = cur
      BY <3>3, AppendLast
    <3>5. Len(list) = Len(devices) /\ Len(more) = Len(devices) + 1
      <4>1. /\ list \in [1 .. Len(devices) -> {at[devices[i]] : i \in 1 .. Len(devices)}]
            /\ more \in [1 .. Len(devices) + 1 ->
                           {at[device'[d].devices[i]] : i \in 1 .. Len(devices) + 1}]
        BY <3>2, <3>4
      <4>2. Len(devices) + 1 \in Nat
        BY <3>4
      <4> QED
        BY <3>4, <4>1, <4>2, MapLen
    <3>6. /\ \A i \in 1 .. Len(list) : more[i] = list[i]
          /\ more[Len(list) + 1] = y
      <4>1. \A i \in 1 .. Len(devices) : i \in 1 .. Len(devices) + 1
        BY <3>4
      <4>2. Len(devices) + 1 \in 1 .. Len(devices) + 1
        BY <3>4
      <4> QED
        BY <3>1, <3>2, <3>4, <3>5, <4>1, <4>2
    <3>7. /\ next = set \cup {y} /\ \A c \in set : c < y
          /\ IsFiniteSet(set) /\ set \subseteq Nat /\ y \in Nat
      BY <1>7, <2>3
    <3>8. later[y] = y /\ \A c \in set : later[c] = meaning[c]
      BY <3>7
    <3>9. InOrder(more, set \cup {y}, later)
      <4>1. more[Len(list) + 1] = later[y] /\ Len(more) = Len(list) + 1
        BY <3>5, <3>6, <3>8
      <4>2. OneMore(list, set, meaning, more, y, later)
        BY <2>1, <3>6, <3>7, <3>8, <4>1 DEF OneMore
      <4> QED
        BY <4>2, InOrderAppend
    <3> QED
      BY <3>7, <3>9
  <2>4. CASE ~ (name = "device" /\ p # 0 /\ elements[p].name = "deviceList"
                /\ elements[p].parent = e)
    <3>1. next = set
      BY <1>7, <2>4
    <3>2. device'[d].devices = device[d].devices
      BY <1>3, <1>6, <2>2, <2>4
    <3>3. later = meaning /\ more = list
      BY <3>1, <3>2
    <3> QED
      BY <2>1, <3>1, <3>3
  <2> QED
    BY <2>3, <2>4
<1> QED
  BY <1>9, <1>10, <1>11, <1>12 DEF Describes

\* The devices are filled after an end tag, and those without an element are blank.
LEMMA EndFilled ==
  ASSUME NEW name, NEW at, Ends(name, at), NEW k, NEW y, NEW p, NEW g, Ending(k, y, p, g)
  PROVE  Filled(at)'
<1>1. /\ HandlerInv /\ Call /\ EndElement /\ name = Head(tags).text
      /\ Filled(at) /\ 1 \in DOMAIN device /\ mCurrentDevice \in DOMAIN device
  <2>1. HandlerInv
    BY DEF Ends
  <2> QED
    BY <2>1, HandlerTypes DEF Ends, Built
<1>2. DOMAIN device' = DOMAIN device
  BY <1>1, EndHeap
<1>3. ASSUME NEW d \in DOMAIN device, at[d] = 0
      PROVE  Blank(d)'
  <2> PICK below, around : below = Last(pop) /\ around = Last(mDeviceStack)
    OBVIOUS
  <2>1. below = mStatusStack[k] /\ y # 0
    BY EndAt
  <2>2. /\ top = "DataElement" /\ below = "DeviceElement" => d # mCurrentDevice
        /\ top \in {"IconElement", "ServiceElement"} => d # mCurrentDevice
        /\ top = "DeviceElement" /\ below # "RootElement" => d # around
    <3>1. top = "DeviceElement" /\ below # "RootElement" =>
            mDeviceStack # <<>> /\ below = "DeviceListElement"
      BY <1>1, EndHands
    <3> QED
      BY <1>3, <2>1, <3>1, EndDevices
  <2>3. /\ device'[d].properties = device[d].properties /\ device'[d].icons = device[d].icons
        /\ device'[d].services = device[d].services /\ device'[d].devices = device[d].devices
    BY <1>1, <2>2, EndHeap
  <2>4. Blank(d)
    BY <1>1, <1>3 DEF Filled
  <2> QED
    BY <2>3, <2>4 DEF Blank
<1>4. \A d \in DOMAIN device : at[d] # 0 => Describes(at[d], d, at)'
  BY EndDescribes
<1> QED
  BY <1>2, <1>3, <1>4 DEF Filled

\* In an icon or a service that goes on, a text has ended, or something unknown.
LEMMA EndInside ==
  ASSUME NEW name, NEW at, Ends(name, at), NEW k, NEW y, NEW p, NEW g, Ending(k, y, p, g),
         NEW i \in 1 .. k - 1, NEW kind \in {"IconElement", "ServiceElement"},
         mStatusStack[i + 1] = kind
  PROVE  /\ top \in {"DataElement", "UnknownElement"}
         /\ i = k - 1 => /\ open[i] = p /\ Last(pop) = kind
                         /\ top = Child(kind, name)
         /\ i # k - 1 => /\ open[i] # p
                         /\ Last(pop) \notin {"IconElement", "ServiceElement"}
<1> DEFINE S == mStatusStack
<1>1. /\ k \in Nat \ {0} /\ DOMAIN open = 1 .. k
      /\ DOMAIN S = 1 .. k + 1 /\ top = S[k + 1] /\ Last(pop) = S[k]
      /\ k # 1 => k - 1 \in 1 .. k /\ (k - 1) + 1 = k /\ p = open[k - 1] /\ top = Child(S[k], name)
  BY EndAt
<1>2. /\ \A h, j \in DOMAIN S :
           h < j /\ S[h] \in {"IconElement", "ServiceElement", "UnknownElement"}
             => S[j] \in {"DataElement", "UnknownElement"}
      /\ \A h, j \in DOMAIN open : h < j => open[h] < open[j]
      /\ \A h \in DOMAIN open : open[h] \in Nat
  <2>1. Table /\ StackInv
    BY DEF Ends
  <2> QED
    BY <2>1, TableTypes DEF Table, StackInv
<1> HIDE DEF S
<1>3. k # 1 /\ i \in 1 .. k /\ i + 1 \in 1 .. k + 1 /\ k + 1 \in 1 .. k + 1 /\ i + 1 < k + 1
      /\ k \in 1 .. k + 1
  BY <1>1
<1>4. S[i + 1] = kind
  BY DEF S
<1>5. top \in {"DataElement", "UnknownElement"}
  BY <1>1, <1>2, <1>3, <1>4
<1>6. i = k - 1 => open[i] = p /\ S[k] = kind /\ top = Child(kind, name)
  BY <1>1, <1>3, <1>4
<1>7. ASSUME i # k - 1
      PROVE  open[i] # p /\ S[k] \notin {"IconElement", "ServiceElement"}
  <2>1. i + 1 < k /\ i < k - 1 /\ k - 1 \in 1 .. k
    BY <1>1, <1>3, <1>7
  <2>2. S[k] \in {"DataElement", "UnknownElement"}
    BY <1>1, <1>2, <1>3, <1>4, <2>1
  <2>3. open[i] < open[k - 1] /\ open[i] \in Nat /\ open[k - 1] \in Nat
    BY <1>1, <1>2, <1>3, <2>1
  <2>4. open[i] # open[k - 1]
    BY <2>3
  <2> QED
    BY <1>1, <1>3, <2>2, <2>4
<1> QED
  BY <1>1, <1>5, <1>6, <1>7

\* The icon and the service in hand have what their elements have.
LEMMA EndInHand ==
  ASSUME NEW name, NEW at, Ends(name, at), NEW k, NEW y, NEW p, NEW g, Ending(k, y, p, g)
  PROVE  InHand'
<1> DEFINE S == mStatusStack
<1> PICK below : below = Last(pop)
  OBVIOUS
<1>1. /\ k \in Nat \ {0} /\ DOMAIN open = 1 .. k /\ DOMAIN open' = 1 .. k - 1
      /\ \A i \in 1 .. k - 1 : open'[i] = open[i]
      /\ top = S[k + 1] /\ below = S[k] /\ S[1] = "TopLevel"
      /\ \A i \in 1 .. k : S'[i] = S[i]
      /\ y \notin Ended /\ p \notin Ended'
  BY EndAt
<1>2. /\ HandlerInv /\ Call /\ EndElement /\ name = Head(tags).text /\ InHand /\ StackInv
      /\ y = open[k] /\ k = Len(open)
  BY DEF Ends, Ending
<1>3. /\ mCurrentIcon' =
           IF top = "DataElement" /\ below = "IconElement"
           THEN SetIconProperty(mCurrentIcon, name, mCharacterData)
           ELSE IF top = "IconElement" THEN NewIcon ELSE mCurrentIcon
      /\ mCurrentService' =
           IF top = "DataElement" /\ below = "ServiceElement"
           THEN [mCurrentService EXCEPT
                   !.properties = SetProperty(mCurrentService.properties, name, mCharacterData)]
           ELSE IF top = "ServiceElement" THEN NewService ELSE mCurrentService
  BY <1>2, EndHands
<1>4. top = "DataElement" => mCharacterData = elements[y].text
  BY <1>2 DEF StackInv, HoldsText
<1>5. /\ \A e : e # p => IconOf(e)' = IconOf(e)
      /\ \A e, keys : e # p => TextsOf(e, keys)' = TextsOf(e, keys)
      /\ \A keys : TextsOf(p, keys)' = SetProperty(TextsOf(p, keys), name, elements[y].text)
      /\ IconOf(p)' = SetIconProperty(IconOf(p), name, elements[y].text)
      /\ DOMAIN IconOf(p) = IconKeys /\ DOMAIN TextsOf(p, ServiceKeys) = ServiceKeys
  BY EndTexts DEF IconOf, TextsOf
<1>6. \A i \in 1 .. k - 1 : i \in 1 .. k /\ i + 1 \in 1 .. k /\ S'[i + 1] = S[i + 1]
  BY <1>1
<1>7. /\ \A i \in 1 .. k : S[i + 1] = "IconElement" => mCurrentIcon = IconOf(open[i])
      /\ \A i \in 1 .. k : S[i + 1] = "ServiceElement" =>
           mCurrentService.properties = TextsOf(open[i], ServiceKeys)
      /\ (\A i \in 1 .. k : S[i + 1] # "IconElement") => mCurrentIcon = NewIcon
      /\ (\A i \in 1 .. k : S[i + 1] # "ServiceElement") => mCurrentService = NewService
  BY <1>1, <1>2 DEF InHand
<1> HIDE DEF S
<1>8. ASSUME NEW i \in 1 .. k - 1, S[i + 1] = "IconElement"
      PROVE  mCurrentIcon' = IconOf(open[i])'
  <2>1. /\ top \in {"DataElement", "UnknownElement"}
        /\ i = k - 1 => open[i] = p /\ below = "IconElement" /\ top = Child("IconElement", name)
        /\ i # k - 1 => open[i] # p /\ below \notin {"IconElement", "ServiceElement"}
    BY <1>8, EndInside DEF S
  <2>2. mCurrentIcon = IconOf(open[i])
    BY <1>6, <1>7, <1>8
  <2>3. CASE i # k - 1
    BY <1>1, <1>3, <1>5, <2>1, <2>2, <2>3
  <2>4. CASE i = k - 1 /\ name \in IconKeys
    <3>1. top = "DataElement"
      BY <2>1, <2>4, KindOf
    <3>2. mCurrentIcon' = SetIconProperty(IconOf(p), name, elements[y].text)
      BY <1>3, <1>4, <2>1, <2>2, <2>4, <3>1
    <3>3. open'[i] = p
      BY <1>1, <2>1, <2>4
    <3> QED
      BY <1>1, <1>5, <2>1, <2>4, <3>2
  <2>5. CASE i = k - 1 /\ name \notin IconKeys
    <3>1. top # "DataElement"
      <4>1. \A n : Child("IconElement", n) = "DataElement" => n \in IconKeys
        BY KindOf
      <4> QED
        BY <2>1, <2>5, <4>1
    <3>2. mCurrentIcon' = IconOf(p)
      BY <1>3, <2>1, <2>2, <2>5, <3>1
    <3>3. IconOf(p)' = IconOf(p)
      BY <1>5, <2>5 DEF SetIconProperty, SetProperty
    <3> QED
      BY <1>1, <2>1, <2>5, <3>2, <3>3
  <2> QED
    BY <2>3, <2>4, <2>5
<1>9. ASSUME NEW i \in 1 .. k - 1, S[i + 1] = "ServiceElement"
      PROVE  mCurrentService'.properties = TextsOf(open[i], ServiceKeys)'
  <2>1. /\ top \in {"DataElement", "UnknownElement"}
        /\ i = k - 1 =>
             open[i] = p /\ below = "ServiceElement" /\ top = Child("ServiceElement", name)
        /\ i # k - 1 => open[i] # p /\ below \notin {"IconElement", "ServiceElement"}
    BY <1>9, EndInside DEF S
  <2>2. mCurrentService.properties = TextsOf(open[i], ServiceKeys)
    BY <1>6, <1>7, <1>9
  <2>3. CASE i # k - 1
    BY <1>1, <1>3, <1>5, <2>1, <2>2, <2>3
  <2>4. CASE i = k - 1 /\ name \in ServiceKeys
    <3>1. top = "DataElement"
      BY <2>1, <2>4, KindOf
    <3>2. mCurrentService \in ServicePrivate
      BY <1>2 DEF HandlerInv, HandlerTypeOK
    <3>3. mCurrentService'.properties =
            SetProperty(mCurrentService.properties, name, mCharacterData)
      BY <1>3, <2>1, <2>4, <3>1, <3>2 DEF ServicePrivate
    <3> QED
      BY <1>1, <1>4, <1>5, <2>1, <2>2, <2>4, <3>1, <3>3
  <2>5. CASE i = k - 1 /\ name \notin ServiceKeys
    <3>1. top # "DataElement"
      <4>1. \A n : Child("ServiceElement", n) = "DataElement" => n \in ServiceKeys
        BY KindOf
      <4> QED
        BY <2>1, <2>5, <4>1
    <3>2. mCurrentService' = mCurrentService
      BY <1>3, <2>1, <3>1
    <3>3. TextsOf(p, ServiceKeys)' = TextsOf(p, ServiceKeys)
      BY <1>5, <2>5 DEF SetProperty
    <3> QED
      BY <1>1, <2>1, <2>2, <2>5, <3>2, <3>3
  <2> QED
    BY <2>3, <2>4, <2>5
<1>10. \A kind \in {"IconElement", "ServiceElement"} :
         (\A i \in 1 .. k - 1 : S[i + 1] # kind) =>
           /\ below # kind
           /\ top # kind => \A i \in 1 .. k : S[i + 1] # kind
  <2> SUFFICES ASSUME NEW kind \in {"IconElement", "ServiceElement"},
                      \A i \in 1 .. k - 1 : S[i + 1] # kind
               PROVE  /\ below # kind
                      /\ top # kind => \A i \in 1 .. k : S[i + 1] # kind
    OBVIOUS
  <2>1. below # kind
    <3>1. k = 1 => below = "TopLevel"
      BY <1>1
    <3>2. k # 1 => k - 1 \in 1 .. k - 1 /\ (k - 1) + 1 = k
      BY <1>1
    <3> QED
      BY <1>1, <3>1, <3>2
  <2>2. \A i \in 1 .. k : i \in 1 .. k - 1 \/ i = k
    BY <1>1
  <2> QED
    BY <1>1, <2>1, <2>2
<1>11. (\A i \in 1 .. k - 1 : S[i + 1] # "IconElement") => mCurrentIcon' = NewIcon
  BY <1>3, <1>7, <1>10
<1>12. (\A i \in 1 .. k - 1 : S[i + 1] # "ServiceElement") => mCurrentService' = NewService
  BY <1>3, <1>7, <1>10
<1>13. /\ \A i \in 1 .. k - 1 : S'[i + 1] = "IconElement" => mCurrentIcon' = IconOf(open[i])'
       /\ \A i \in 1 .. k - 1 : S'[i + 1] = "ServiceElement" =>
            mCurrentService'.properties = TextsOf(open[i], ServiceKeys)'
  BY <1>6, <1>8, <1>9
<1> QED
  BY <1>1, <1>6, <1>11, <1>12, <1>13 DEF InHand, S

\* The base URL is that of the root element.
LEMMA EndBaseUrl ==
  ASSUME NEW name, NEW at, Ends(name, at), NEW k, NEW y, NEW p, NEW g, Ending(k, y, p, g),
         mBaseUrl = TextOf(1, "URLBase")
  PROVE  mBaseUrl' = TextOf(1, "URLBase")'
<1> DEFINE S == mStatusStack
<1>1. /\ k \in Nat \ {0} /\ k \in 1 .. k + 1 /\ 2 \in 1 .. k + 1
      /\ top = S[k + 1]
      /\ \A i \in 1 .. k + 1 : S[i] = "RootElement" <=> i = 2
      /\ k = 1 => p = 0
      /\ k # 1 => top = Child(S[k], name)
      /\ k = 2 => p = 1
      /\ k # 1 /\ k # 2 => p # 1
  BY EndAt
<1>2. /\ EndElement /\ StackInv /\ y = open[Len(open)]
  BY DEF Ends, Ending
<1>3. mBaseUrl' = IF top = "UrlBaseElement" THEN mCharacterData ELSE mBaseUrl
  BY <1>2 DEF EndElement
<1>4. /\ TextOf(p, name)' = elements[y].text
      /\ \A e, n : e # p \/ n # name => TextOf(e, n)' = TextOf(e, n)
  BY EndTexts
<1>5. top = "UrlBaseElement" <=> p = 1 /\ name = "URLBase"
  <2>1. CASE k = 1
    <3>1. S[2] = "RootElement"
      BY <1>1
    <3> QED
      BY <1>1, <2>1, <3>1
  <2>2. CASE k # 1
    <3>1. p = 1 <=> k = 2
      BY <1>1, <2>2
    <3>2. S[k] = "RootElement" <=> k = 2
      BY <1>1
    <3>3. \A s, n : Child(s, n) = "UrlBaseElement" <=> s = "RootElement" /\ n = "URLBase"
      BY KindOf
    <3> QED
      BY <1>1, <2>2, <3>1, <3>2, <3>3
  <2> QED
    BY <2>1, <2>2
<1>6. top = "UrlBaseElement" => mCharacterData = elements[y].text
  BY <1>2 DEF StackInv, HoldsText
<1> QED
  BY <1>3, <1>4, <1>5, <1>6

\* The invariant, at an end tag.
LEMMA EndBuilds ==
  ASSUME HandlerInv, DocumentInv, OpenAtCall, BuildInv, Call, EndElement,
         NoteEnd(Head(tags).text), open # <<>>
  PROVE  BuildInv'
<1> SUFFICES ASSUME SoFar' PROVE BuildInv'
  BY DEF BuildInv
<1> PICK name : name = Head(tags).text
  OBVIOUS
<1>1. /\ Table /\ Latest /\ outcome = "reading" /\ NoteEnd(name) /\ elements' = elements
  BY NextTag DEF DocumentInv, NoteEnd
<1>2. SoFar
  BY <1>1 DEF SoFar, IsDevice
<1>3. StackInv /\ InHand /\ mBaseUrl = TextOf(1, "URLBase") /\ \E at : Built(at)
  BY <1>1, <1>2 DEF BuildInv
<1> PICK at : Built(at)
  BY <1>3
<1>4. Ends(name, at)
  BY <1>1, <1>2, <1>3 DEF Ends
<1> PICK k, y, p, g : Ending(k, y, p, g)
  BY DEF Ending
<1>5. Placed(at)' /\ RootPlaced(at)' /\ OpenPlaced(at)'
  BY <1>4, EndPlaced
<1>6. Filled(at)'
  BY <1>4, EndFilled
<1>7. InHand' /\ mBaseUrl' = TextOf(1, "URLBase")'
  BY <1>3, <1>4, EndInHand, EndBaseUrl
<1>8. StackInv'
  BY <1>1, <1>3, EndStack
<1>9. Built(at)'
  BY <1>5, <1>6 DEF Built
<1> QED
  BY <1>7, <1>8, <1>9 DEF BuildInv

-----------------------------------------------------------------------------
(***************************************************************************)
(* What is built is what the document means.                               *)
(***************************************************************************)
AllEnded == outcome = "done" => open = <<>>

MeaningInv == HandlerInv /\ DocumentInv /\ BuildInv /\ AllEnded

\* The notes do not add to what the handler does.
LEMMA DocumentNextStep == [DocumentNext]_documentVars => [Next]_vars
  BY DEF DocumentNext, DocumentCall, documentVars, Next

\* The invariant is inductive.
LEMMA NextMeaningInv == MeaningInv /\ [DocumentNext]_documentVars => MeaningInv'
<1> SUFFICES ASSUME MeaningInv, [DocumentNext]_documentVars PROVE MeaningInv'
  OBVIOUS
<1>1. HandlerInv /\ DocumentInv /\ BuildInv /\ AllEnded
  BY DEF MeaningInv
<1>2. HandlerInv'
  BY <1>1, DocumentNextStep, NextHandlerInv
<1>3. CASE DocumentCall
  <2>1. OpenAtCall /\ DocumentInv'
    BY <1>1, <1>3, CallReading, CallDocumentInv DEF DocumentInv
  <2>2. Call
    BY <1>3 DEF DocumentCall
  <2>3. BuildInv'
    <3>1. CASE StartElement /\ NoteStart(Head(tags).text)
      BY <1>1, <2>1, <2>2, <3>1, StartBuilds
    <3>2. CASE EndElement /\ NoteEnd(Head(tags).text) /\ Head(tags).call = "endElement"
      BY <1>1, <2>1, <2>2, <3>2, EndBuilds DEF OpenAtCall
    <3>3. CASE Characters /\ NoteText(Head(tags).text)
      BY <1>1, <2>1, <2>2, <3>3, TextBuilds
    <3> QED
      BY <1>3, <3>1, <3>2, <3>3, CallNotes
  <2>4. AllEnded'
    BY <2>2 DEF AllEnded, Call, StartElement, OpenElement, EndElement, Characters
  <2> QED
    BY <1>2, <2>1, <2>3, <2>4 DEF MeaningInv
<1>4. CASE /\ EndDocument \/ ParseError \/ Underflow \/ UNCHANGED vars
           /\ UNCHANGED <<elements, open>>
  <2>1. UNCHANGED <<document, tags>>
    BY <1>4 DEF EndDocument, ParseError, Underflow, vars
  <2>2. DocumentInv'
    BY <1>1, <1>4, <2>1, OtherDocumentInv
  <2>3. BuildInv'
    BY <1>1, <1>4, OtherBuilds
  <2>4. AllEnded'
    <3>1. CASE EndDocument
      <4>1. open = <<>>
        BY <1>1, <3>1, EndOfDocument DEF EndDocument
      <4> QED
        BY <1>4, <4>1 DEF AllEnded
    <3>2. CASE ParseError \/ Underflow
      BY <3>2 DEF AllEnded, ParseError, Underflow
    <3>3. CASE UNCHANGED vars
      BY <1>1, <1>4, <3>3 DEF AllEnded, vars
    <3> QED
      BY <1>4, <3>1, <3>2, <3>3
  <2> QED
    BY <1>2, <2>2, <2>3, <2>4 DEF MeaningInv
<1> QED
  BY <1>3, <1>4 DEF DocumentNext, documentVars

\* The map at gives the elements that the property asks for.
LEMMA MeaningBuilt == MeaningInv => DescriptionBuilt
<1> SUFFICES ASSUME MeaningInv, outcome = "done", Conforming
             PROVE  /\ mBaseUrl = TextOf(1, "URLBase")
                    /\ rootDevice # 0
                    /\ \E of \in [Below(rootDevice) ->
                                    {e \in Ended : elements[e].name = "device"}] :
                         /\ of[rootDevice] \in Named(1, "device")
                         /\ \A d \in Below(rootDevice) : Describes(of[d], d, of)
  BY DEF DescriptionBuilt
<1>1. HandlerInv /\ Table /\ BuildInv /\ open = <<>>
  BY DEF MeaningInv, AllEnded, DocumentInv
<1>2. Ended = DOMAIN elements
  BY <1>1 DEF Ended, ToSet
<1> PICK root \in DOMAIN elements : Named(1, "device") = {root}
  BY DEF Conforming
<1>3. root \in Ended /\ IsDevice(root)
  BY DEF Named, IsDevice
<1>4. SoFar
  <2>1. ASSUME NEW c \in DOMAIN elements, IsDevice(c) PROVE c = root
    <3>1. c \in Named(1, "device")
      BY <1>2, <2>1 DEF Named, IsDevice
    <3> QED
      BY <3>1
  <2> QED
    BY <2>1 DEF SoFar, Conforming
<1>5. mBaseUrl = TextOf(1, "URLBase") /\ \E at : Built(at)
  BY <1>1, <1>4 DEF BuildInv
<1> PICK at : Built(at)
  BY <1>5
<1>6. at[1] = root /\ rootDevice = 1
  BY <1>3 DEF Built, RootPlaced
<1>7. /\ 1 \in DOMAIN device
      /\ \A q \in DOMAIN device : ToSet(device[q].devices) \subseteq DOMAIN device
  BY <1>1, HandlerTypes, Lists
<1>8. /\ 1 \in Below(1) /\ Below(1) \subseteq DOMAIN device
      /\ \A q \in Below(1) : ToSet(device[q].devices) \subseteq Below(1)
  BY <1>7, BelowSteps
<1>9. ASSUME NEW d \in Below(1)
      PROVE  at[d] \in Ended /\ elements[at[d]].name = "device" /\ Describes(at[d], d, at)
  <2>1. d \in DOMAIN device /\ (at[d] = 0 => d = 1)
        /\ (at[d] # 0 => at[d] \in DOMAIN elements /\ elements[at[d]].name = "device")
    BY <1>8 DEF Built, Placed
  <2>2. root # 0
    BY <1>1, TableTypes
  <2>3. at[d] # 0
    BY <1>6, <2>1, <2>2
  <2> QED
    BY <1>2, <2>1, <2>3 DEF Built, Filled
<1> PICK of : of = [d \in Below(1) |-> at[d]]
  OBVIOUS
<1>10. of \in [Below(1) -> {e \in Ended : elements[e].name = "device"}]
  BY <1>9
<1>11. of[1] \in Named(1, "device")
  BY <1>6, <1>8
<1>12. ASSUME NEW d \in Below(1) PROVE Describes(of[d], d, of)
  <2>1. \A i \in DOMAIN device[d].devices : device[d].devices[i] \in Below(1)
    BY <1>8 DEF ToSet
  <2>2. [i \in DOMAIN device[d].devices |-> of[device[d].devices[i]]] =
          [i \in DOMAIN device[d].devices |-> at[device[d].devices[i]]]
    BY <2>1
  <2>3. Describes(at[d], d, at) /\ of[d] = at[d]
    BY <1>9
  <2> QED
    BY <2>2, <2>3 DEF Describes
<1> QED
  BY <1>5, <1>6, <1>10, <1>11, <1>12

\* The reader's notes change nothing of what the handler does: what is proved
\* about its calls in any order holds of those for a document as well.
THEOREM DocumentsAreHandled == DocumentSpec => Spec
<1>1. DocumentInit => Init
  BY DEF DocumentInit
<1> QED
  BY <1>1, DocumentNextStep, PTL DEF DocumentSpec, Spec

\* A description document that is read to its end gives the RootDevice the tree
\* of devices that the document describes, however many devices, services and
\* icons it has, however deep they nest and whatever unknown elements are among
\* them: every text is a property of what it is in, and nothing is lost, doubled
\* or out of order.
THEOREM DescriptionBuiltHolds == DocumentSpec => []DescriptionBuilt
<1>1. DocumentInit => MeaningInv
  <2> SUFFICES ASSUME DocumentInit PROVE MeaningInv
    OBVIOUS
  <2>1. HandlerInv /\ DocumentInv
    BY InitHandlerInv, InitDocumentInv DEF DocumentInit
  <2>2. BuildInv
    BY <2>1, InitBuilds
  <2>3. AllEnded
    BY DEF AllEnded, DocumentInit
  <2> QED
    BY <2>1, <2>2, <2>3 DEF MeaningInv
<1> QED
  BY <1>1, NextMeaningInv, MeaningBuilt, PTL DEF DocumentSpec
=============================================================================
