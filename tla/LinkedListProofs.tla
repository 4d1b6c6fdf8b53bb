--------------------------- MODULE LinkedListProofs ---------------------------
(***************************************************************************)
(* TLAPS proofs about LinkedList, for any number of lists and items and any *)
(* width of TickType.                                                       *)
(***************************************************************************)
EXTENDS LinkedList, FiniteSetTheorems, SequenceTheorems, WellFoundedInduction, TLAPS

(* The two ring properties of one list, as predicates of the link functions *)
(* so that the lemmas below are about functions and not about states.       *)
Closed(S, nx, pv) ==
    \A n \in S : /\ nx[n] \in S /\ pv[n] \in S
                 /\ pv[nx[n]] = n /\ nx[pv[n]] = n

Connected(S, l, nx) ==
    \A T \in SUBSET S : (l \in T /\ \A n \in T : nx[n] \in T) => T = S

(* The pointer assignments of an insertion behind node b keep a ring closed *)
(* (vListInsertEnd, vListInsert).                                           *)
LEMMA InsertClosed ==
    ASSUME NEW V, NEW S \in SUBSET V, NEW nx \in [V -> V], NEW pv \in [V -> V],
           NEW x \in V \ S, NEW b \in S, Closed(S, nx, pv)
    PROVE  Closed(S \cup {x}, [nx EXCEPT ![x] = nx[b], ![b] = x],
                              [pv EXCEPT ![x] = b, ![nx[b]] = x])
<1> DEFINE a == nx[b]
           nx2 == [nx EXCEPT ![x] = a, ![b] = x]
           pv2 == [pv EXCEPT ![x] = b, ![a] = x]
<1>1. /\ a \in S /\ a # x /\ b # x /\ pv[a] = b /\ a \in V /\ b \in V
  BY DEF Closed
<1>2. /\ nx2[x] = a /\ nx2[b] = x
      /\ \A n \in V : n # x /\ n # b => nx2[n] = nx[n]
      /\ pv2[x] = b /\ pv2[a] = x
      /\ \A n \in V : n # x /\ n # a => pv2[n] = pv[n]
  BY <1>1
<1> HIDE DEF nx2, pv2
<1>3. ASSUME NEW n \in S \cup {x}
      PROVE  /\ nx2[n] \in S \cup {x} /\ pv2[n] \in S \cup {x}
             /\ pv2[nx2[n]] = n /\ nx2[pv2[n]] = n
  <2>1. CASE n = x
    BY <2>1, <1>1, <1>2
  <2>2. CASE n # x
    <3>1. /\ n \in S /\ n \in V /\ nx[n] \in S /\ pv[n] \in S
          /\ nx[n] \in V /\ pv[n] \in V /\ nx[n] # x /\ pv[n] # x
          /\ pv[nx[n]] = n /\ nx[pv[n]] = n
      BY <2>2 DEF Closed
    <3>2. nx2[n] \in S \cup {x} /\ pv2[nx2[n]] = n
      <4>1. CASE n = b
        BY <4>1, <1>2
      <4>2. CASE n # b
        <5>1. nx2[n] = nx[n] /\ nx[n] # a
          BY <4>2, <3>1, <2>2, <1>1, <1>2
        <5>2. pv2[nx[n]] = pv[nx[n]]
          BY <5>1, <3>1, <1>2
        <5>3. QED BY <5>1, <5>2, <3>1
      <4>3. QED BY <4>1, <4>2
    <3>3. pv2[n] \in S \cup {x} /\ nx2[pv2[n]] = n
      <4>1. CASE n = a
        BY <4>1, <1>2
      <4>2. CASE n # a
        <5>1. pv2[n] = pv[n] /\ pv[n] # b
          BY <4>2, <3>1, <2>2, <1>1, <1>2
        <5>2. nx2[pv[n]] = nx[pv[n]]
          BY <5>1, <3>1, <1>2
        <5>3. QED BY <5>1, <5>2, <3>1
      <4>3. QED BY <4>1, <4>2
    <3>4. QED BY <3>2, <3>3
  <2>3. QED BY <2>1, <2>2
<1>4. QED BY <1>3 DEF Closed, nx2, pv2

(* Such an insertion does not split a ring either.                          *)
LEMMA InsertConnected ==
    ASSUME NEW V, NEW S \in SUBSET V, NEW nx \in [V -> V], NEW l \in S,
           NEW x \in V \ S, NEW b \in S, \A n \in S : nx[n] \in S,
           Connected(S, l, nx)
    PROVE  Connected(S \cup {x}, l, [nx EXCEPT ![x] = nx[b], ![b] = x])
<1> DEFINE nx2 == [nx EXCEPT ![x] = nx[b], ![b] = x]
<1>1. /\ nx2[x] = nx[b] /\ nx2[b] = x
      /\ \A n \in S : n # b => nx2[n] = nx[n]
  OBVIOUS
<1> HIDE DEF nx2
<1>2. ASSUME NEW T \in SUBSET (S \cup {x}), l \in T, \A n \in T : nx2[n] \in T
      PROVE  T = S \cup {x}
  <2> DEFINE T0 == T \ {x}
  <2>1. T0 \in SUBSET S /\ l \in T0
    BY <1>2
  <2>2. \A n \in T0 : nx[n] \in T0
    <3> TAKE n \in T0
    <3>1. n \in S /\ n \in T /\ nx[n] \in S /\ nx[n] # x
      OBVIOUS
    <3>2. CASE n = b
      BY <3>1, <3>2, <1>1, <1>2
    <3>3. CASE n # b
      BY <3>1, <3>3, <1>1, <1>2
    <3>4. QED BY <3>2, <3>3
  <2>3. T0 = S
    <3> HIDE DEF T0
    <3> QED BY <2>1, <2>2 DEF Connected
  <2>4. b \in T /\ x \in T
    BY <2>3, <1>1, <1>2
  <2>5. QED BY <2>3, <2>4
<1>3. QED BY <1>2 DEF Connected, nx2

(* In a connected ring an item is never its own neighbour.                  *)
LEMMA NoSelfLoop ==
    ASSUME NEW S, NEW nx, NEW pv, NEW l \in S, NEW x \in S, x # l,
           Closed(S, nx, pv), Connected(S, l, nx)
    PROVE  nx[x] # x /\ pv[x] # x
<1>1. nx[x] # x
  <2> SUFFICES ASSUME nx[x] = x PROVE FALSE
    OBVIOUS
  <2> DEFINE T == S \ {x}
  <2>1. T \in SUBSET S /\ l \in T
    OBVIOUS
  <2>2. \A n \in T : nx[n] \in T
    BY DEF Closed
  <2>3. T = S
    <3> HIDE DEF T
    <3> QED BY <2>1, <2>2 DEF Connected
  <2>4. QED BY <2>3
<1>2. QED BY <1>1 DEF Closed

(* The two pointer assignments of uxListRemove keep a ring closed.          *)
LEMMA RemoveClosed ==
    ASSUME NEW V, NEW S \in SUBSET V, NEW nx \in [V -> V], NEW pv \in [V -> V],
           NEW x \in S, nx[x] # x, Closed(S, nx, pv)
    PROVE  Closed(S \ {x}, [nx EXCEPT ![pv[x]] = nx[x]],
                           [pv EXCEPT ![nx[x]] = pv[x]])
<1> DEFINE a == nx[x]
           b == pv[x]
           nx2 == [nx EXCEPT ![b] = a]
           pv2 == [pv EXCEPT ![a] = b]
<1>1. /\ a \in S /\ b \in S /\ a \in V /\ b \in V /\ a # x /\ b # x
      /\ pv[a] = x /\ nx[b] = x
  BY DEF Closed
<1>2. /\ nx2[b] = a /\ \A n \in V : n # b => nx2[n] = nx[n]
      /\ pv2[a] = b /\ \A n \in V : n # a => pv2[n] = pv[n]
  BY <1>1
<1> HIDE DEF nx2, pv2
<1>3. ASSUME NEW n \in S \ {x}
      PROVE  /\ nx2[n] \in S \ {x} /\ pv2[n] \in S \ {x}
             /\ pv2[nx2[n]] = n /\ nx2[pv2[n]] = n
  <2>1. /\ n \in V /\ nx[n] \in S /\ pv[n] \in S /\ nx[n] \in V /\ pv[n] \in V
        /\ pv[nx[n]] = n /\ nx[pv[n]] = n
    BY DEF Closed
  <2>2. nx2[n] \in S \ {x} /\ pv2[nx2[n]] = n
    <3>1. CASE n = b
      BY <3>1, <1>1, <1>2
    <3>2. CASE n # b
      <4>1. nx2[n] = nx[n] /\ nx[n] # x /\ nx[n] # a
        BY <3>2, <2>1, <1>1, <1>2
      <4>2. QED BY <4>1, <2>1, <1>2
    <3>3. QED BY <3>1, <3>2
  <2>3. pv2[n] \in S \ {x} /\ nx2[pv2[n]] = n
    <3>1. CASE n = a
      BY <3>1, <1>1, <1>2
    <3>2. CASE n # a
      <4>1. pv2[n] = pv[n] /\ pv[n] # x /\ pv[n] # b
        BY <3>2, <2>1, <1>1, <1>2
      <4>2. QED BY <4>1, <2>1, <1>2
    <3>3. QED BY <3>1, <3>2
  <2>4. QED BY <2>2, <2>3
<1>4. QED BY <1>3 DEF Closed, nx2, pv2

(* Nor does the removal of an item split a ring.                            *)
LEMMA RemoveConnected ==
    ASSUME NEW V, NEW S \in SUBSET V, NEW nx \in [V -> V], NEW pv \in [V -> V],
           NEW l \in S, NEW x \in S, x # l,
           Closed(S, nx, pv), Connected(S, l, nx)
    PROVE  Connected(S \ {x}, l, [nx EXCEPT ![pv[x]] = nx[x]])
<1> DEFINE b == pv[x]
           nx2 == [nx EXCEPT ![b] = nx[x]]
<1>1. /\ b \in S /\ b \in V /\ b # x /\ nx[b] = x /\ nx[x] \in S
  BY NoSelfLoop DEF Closed
<1>2. nx2[b] = nx[x] /\ \A n \in S : n # b => nx2[n] = nx[n]
  BY <1>1
<1> HIDE DEF nx2, b
<1>3. ASSUME NEW T \in SUBSET (S \ {x}), l \in T, \A n \in T : nx2[n] \in T
      PROVE  T = S \ {x}
  <2>1. CASE b \in T
    <3> DEFINE T1 == T \cup {x}
    <3>1. T1 \in SUBSET S /\ l \in T1
      BY <1>3
    <3>2. \A n \in T1 : nx[n] \in T1
      BY <2>1, <1>1, <1>2, <1>3
    <3>3. T1 = S
      <4> HIDE DEF T1
      <4> QED BY <3>1, <3>2 DEF Connected
    <3>4. QED BY <3>3
  <2>2. CASE b \notin T
    <3>1. T \in SUBSET S /\ \A n \in T : nx[n] \in T
      BY <2>2, <1>2, <1>3
    <3>2. T = S
      BY <3>1, <1>3 DEF Connected
    <3>3. QED BY <3>2
  <2>3. QED BY <2>1, <2>2
<1>4. QED BY <1>3 DEF Connected, nx2, b
-----------------------------------------------------------------------------
(* Both ring properties of a state are those of its lists.                  *)
RingsOK ==
    \A l \in List : /\ pxIndex[l] \in NodesOf(l)
                    /\ Closed(NodesOf(l), pxNext, pxPrevious)
                    /\ Connected(NodesOf(l), l, pxNext)

(* The two invariants the runs check are the two halves of RingsOK.         *)
LEMMA RingsSplit == RingsOK <=> RingsAreClosed /\ RingsAreConnected
  BY DEF RingsOK, RingsAreClosed, RingsAreConnected, Closed, Connected

(* Links changed only outside a set of nodes leave its ring as it was.      *)
LEMMA RingFrame ==
    ASSUME NEW S, NEW l, NEW nx, NEW pv, NEW nx2, NEW pv2,
           \A n \in S : nx2[n] = nx[n] /\ pv2[n] = pv[n],
           Closed(S, nx, pv), Connected(S, l, nx)
    PROVE  Closed(S, nx2, pv2) /\ Connected(S, l, nx2)
<1>1. Closed(S, nx2, pv2)
  BY DEF Closed
<1>2. Connected(S, l, nx2)
  BY DEF Connected
<1>3. QED BY <1>1, <1>2

(* Linking a free item behind a node of list l keeps all rings.             *)
LEMMA LinkKeepsRings ==
    ASSUME TypeOK, RingsOK,
           NEW l \in List, NEW x \in Item, NEW b \in NodesOf(l),
           pxContainer[x] = NULL,
           LinkBetween(l, x, b, pxNext[b]), UNCHANGED pxIndex
    PROVE  RingsOK'
<1> DEFINE a == pxNext[b]
<1>1. /\ x \in Node /\ x \notin List /\ \A m \in List : x \notin NodesOf(m)
      /\ \A m \in List : NodesOf(m) \in SUBSET Node
      /\ \A m \in List : m # l => NodesOf(m) \cap NodesOf(l) = {}
  BY ListAssumption DEF TypeOK, Node, List, NodesOf, ItemsOf
<1>2. /\ NodesOf(l)' = NodesOf(l) \cup {x}
      /\ \A m \in List : m # l => NodesOf(m)' = NodesOf(m)
  BY ListAssumption DEF LinkBetween, TypeOK, Node, List, NodesOf, ItemsOf
<1>3. /\ pxNext' = [pxNext EXCEPT ![x] = a, ![b] = x]
      /\ pxPrevious' = [pxPrevious EXCEPT ![x] = b, ![a] = x]
      /\ pxNext \in [Node -> Node] /\ pxPrevious \in [Node -> Node]
  BY DEF LinkBetween, TypeOK
<1>4. a \in NodesOf(l)
  BY DEF RingsOK, Closed
<1> HIDE DEF a
<1>5. ASSUME NEW m \in List
      PROVE  /\ pxIndex'[m] \in NodesOf(m)'
             /\ Closed(NodesOf(m)', pxNext', pxPrevious')
             /\ Connected(NodesOf(m)', m, pxNext')
  <2>1. /\ pxIndex'[m] \in NodesOf(m)
        /\ m \in NodesOf(m)
        /\ Closed(NodesOf(m), pxNext, pxPrevious)
        /\ Connected(NodesOf(m), m, pxNext)
    BY DEF RingsOK, NodesOf
  <2>2. CASE m = l
    <3>1. Closed(NodesOf(l) \cup {x}, pxNext', pxPrevious')
      BY <2>1, <2>2, <1>1, <1>3, InsertClosed DEF a
    <3>2. Connected(NodesOf(l) \cup {x}, l, pxNext')
      <4>1. \A n \in NodesOf(l) : pxNext[n] \in NodesOf(l)
        BY <2>1, <2>2 DEF Closed
      <4>2. QED BY <4>1, <2>1, <2>2, <1>1, <1>3, InsertConnected DEF a
    <3>3. QED BY <3>1, <3>2, <2>1, <2>2, <1>2
  <2>3. CASE m # l
    <3>1. \A n \in NodesOf(m) :
             n \in Node /\ n # x /\ n # a /\ n # b
      BY <2>3, <1>1, <1>4
    <3>2. \A n \in NodesOf(m) :
             pxNext'[n] = pxNext[n] /\ pxPrevious'[n] = pxPrevious[n]
      BY <3>1, <1>3
    <3>3. QED BY <3>2, <2>1, <2>3, <1>2, RingFrame
  <2>4. QED BY <2>2, <2>3
<1>6. QED BY <1>5 DEF RingsOK

(* uxListRemove keeps all rings.                                            *)
LEMMA RemoveKeepsRings ==
    ASSUME TypeOK, RingsOK, NEW x \in Item, uxListRemove(x)
    PROVE  RingsOK'
<1>0. PICK l \in List : l = pxContainer[x]
  BY ListAssumption DEF uxListRemove, TypeOK
<1> DEFINE a == pxNext[x]
           b == pxPrevious[x]
<1>1. /\ l \in List /\ x \in NodesOf(l) /\ x # l /\ x \in Node
      /\ \A m \in List : m # l => NodesOf(m) \cap NodesOf(l) = {}
      /\ \A m \in List : NodesOf(m) \in SUBSET Node
  BY <1>0, ListAssumption DEF uxListRemove, TypeOK, Node, List, NodesOf, ItemsOf
<1>2. /\ NodesOf(l)' = NodesOf(l) \ {x}
      /\ \A m \in List : m # l => NodesOf(m)' = NodesOf(m)
  BY <1>0, ListAssumption DEF uxListRemove, TypeOK, Node, List, NodesOf, ItemsOf
<1>3. /\ pxPrevious' = [pxPrevious EXCEPT ![a] = b]
      /\ pxNext' = [pxNext EXCEPT ![b] = a]
      /\ pxIndex' = [pxIndex EXCEPT ![l] = IF @ = x THEN b ELSE @]
      /\ pxNext \in [Node -> Node] /\ pxPrevious \in [Node -> Node]
      /\ pxIndex \in [List -> Node]
  BY <1>0 DEF uxListRemove, TypeOK
<1>4. /\ a \in NodesOf(l) /\ b \in NodesOf(l) /\ a # x /\ b # x
      /\ l \in NodesOf(l)
      /\ Closed(NodesOf(l), pxNext, pxPrevious)
      /\ Connected(NodesOf(l), l, pxNext)
  <2>1. /\ Closed(NodesOf(l), pxNext, pxPrevious)
        /\ Connected(NodesOf(l), l, pxNext)
        /\ l \in NodesOf(l)
    BY <1>1 DEF RingsOK, NodesOf
  <2>2. QED BY <2>1, <1>1, NoSelfLoop DEF Closed
<1>5. ASSUME NEW m \in List
      PROVE  /\ pxIndex'[m] \in NodesOf(m)'
             /\ Closed(NodesOf(m)', pxNext', pxPrevious')
             /\ Connected(NodesOf(m)', m, pxNext')
  <2>1. /\ pxIndex[m] \in NodesOf(m)
        /\ Closed(NodesOf(m), pxNext, pxPrevious)
        /\ Connected(NodesOf(m), m, pxNext)
    BY DEF RingsOK
  <2>2. CASE m = l
    <3>1. Closed(NodesOf(l) \ {x}, pxNext', pxPrevious')
      BY <1>1, <1>3, <1>4, RemoveClosed
    <3>2. Connected(NodesOf(l) \ {x}, l, pxNext')
      BY <1>1, <1>3, <1>4, RemoveConnected
    <3>3. pxIndex'[l] \in NodesOf(l) \ {x}
      BY <2>1, <2>2, <1>1, <1>3, <1>4
    <3>4. QED BY <3>1, <3>2, <3>3, <2>2, <1>2
  <2>3. CASE m # l
    <3>1. \A n \in NodesOf(m) : n \in Node /\ n # a /\ n # b
      BY <2>3, <1>1, <1>4
    <3>2. \A n \in NodesOf(m) :
             pxNext'[n] = pxNext[n] /\ pxPrevious'[n] = pxPrevious[n]
      BY <3>1, <1>3
    <3>3. pxIndex'[m] = pxIndex[m]
      BY <2>3, <1>3
    <3>4. QED BY <3>2, <3>3, <2>1, <2>3, <1>2, RingFrame
  <2>4. QED BY <2>2, <2>3
<1>6. QED BY <1>5 DEF RingsOK
-----------------------------------------------------------------------------
(* A link at a place that fits the key keeps the ordered lists sorted.      *)
LEMMA LinkKeepsSorted ==
    ASSUME TypeOK, RingsOK, OrderedListsAreSorted,
           NEW l \in List, NEW x \in Item, NEW b \in NodesOf(l),
           pxContainer[x] = NULL,
           l \in OrderedList => /\ b \in Item => ValueOf(b) <= ValueOf(x)
                                /\ ValueOf(x) <= ValueOf(pxNext[b]),
           LinkBetween(l, x, b, pxNext[b]), UNCHANGED <<xItemValue, rekeyed>>
    PROVE  OrderedListsAreSorted'
<1> SUFFICES ASSUME NEW m \in OrderedList, m \notin rekeyed, NEW y \in ItemsOf(m)'
             PROVE  ValueOf(y)' <= ValueOf(pxNext[y])'
  BY DEF OrderedListsAreSorted
<1> USE DEF ValueOf
<1>1. xItemValue' = xItemValue
  OBVIOUS
<1>2. /\ x \in Node /\ x \notin List /\ b \in Node /\ y \in Node /\ y \in Item
      /\ m \in List /\ b # x
      /\ pxNext' = [pxNext EXCEPT ![x] = pxNext[b], ![b] = x]
      /\ pxNext \in [Node -> Node]
      /\ pxContainer' = [pxContainer EXCEPT ![x] = l]
      /\ pxContainer'[y] = m
  BY ListAssumption DEF LinkBetween, TypeOK, Node, List, NodesOf, ItemsOf
<1>3. CASE y = x
  BY <1>1, <1>2, <1>3 DEF TypeOK
<1>4. CASE y # x
  <2>1. y \in ItemsOf(m)
    BY <1>2, <1>4 DEF ItemsOf, TypeOK
  <2>2. CASE y = b
    <3>1. m = l
      BY <2>1, <2>2, <1>2, ListAssumption DEF NodesOf, ItemsOf, List
    <3>2. pxNext'[y] = x
      BY <2>2, <1>2
    <3>3. QED BY <3>1, <3>2, <2>2, <1>1, <1>2
  <2>3. CASE y # b
    BY <2>1, <2>3, <1>1, <1>2, <1>4 DEF OrderedListsAreSorted
  <2>4. QED BY <2>2, <2>3
<1>5. QED BY <1>3, <1>4

(* Removing an item keeps the ordered lists sorted: its neighbours compare  *)
(* with each other as each does with it.                                    *)
LEMMA RemoveKeepsSorted ==
    ASSUME TypeOK, RingsOK, OrderedListsAreSorted,
           NEW x \in Item, uxListRemove(x)
    PROVE  OrderedListsAreSorted'
<1> SUFFICES ASSUME NEW m \in OrderedList, m \notin rekeyed', NEW y \in ItemsOf(m)'
             PROVE  ValueOf(y)' <= ValueOf(pxNext[y])'
  BY DEF OrderedListsAreSorted
<1> USE DEF ValueOf
<1>0. m \notin rekeyed
  <2>1. y \in ItemsOf(m) /\ y # x
    BY ListAssumption DEF uxListRemove, ItemsOf, TypeOK, List, Node
  <2>2. QED BY <2>1 DEF uxListRemove, RekeyedAfter
<1>1. xItemValue' = xItemValue
  BY DEF uxListRemove
<1>2. /\ pxContainer[x] \in List /\ m \in List /\ m # NULL
      /\ pxNext' = [pxNext EXCEPT ![pxPrevious[x]] = pxNext[x]]
      /\ pxNext \in [Node -> Node] /\ pxPrevious \in [Node -> Node]
      /\ y # x /\ y \in ItemsOf(m) /\ y \in Item /\ y \in Node /\ x \in Node
  BY ListAssumption DEF uxListRemove, TypeOK, Node, List, ItemsOf
<1>3. CASE y = pxPrevious[x]
  <2>1. /\ pxContainer[x] = m /\ pxNext[y] = x /\ x \in ItemsOf(m)
        /\ pxNext[x] \in Node
    <3>1. x \in NodesOf(pxContainer[x])
      BY <1>2 DEF NodesOf, ItemsOf
    <3>2. y \in NodesOf(pxContainer[x]) /\ pxNext[y] = x
      BY <3>1, <1>2, <1>3 DEF RingsOK, Closed
    <3>3. QED BY <3>1, <3>2, <1>2, ListAssumption DEF NodesOf, ItemsOf, List
  <2>2. ValueOf(y) <= ValueOf(x) /\ ValueOf(x) <= ValueOf(pxNext[x])
    BY <1>0, <2>1, <1>2 DEF OrderedListsAreSorted
  <2>3. /\ ValueOf(y) \in Int /\ ValueOf(x) \in Int
        /\ ValueOf(pxNext[x]) \in Int
    BY <2>1, <1>2, ListAssumption DEF ValueOf, TypeOK, TickType, Node
  <2>4. QED BY <2>2, <2>3, <1>1, <1>2, <1>3
<1>4. CASE y # pxPrevious[x]
  BY <1>0, <1>1, <1>2, <1>4 DEF OrderedListsAreSorted
<1>5. QED BY <1>3, <1>4

(* The typed state and the rings survive every step.                        *)
LEMMA StepKeepsTypes == TypeOK /\ RingsOK /\ [Next]_vars => TypeOK'
<1> SUFFICES ASSUME TypeOK, RingsOK, [Next]_vars PROVE TypeOK'
  OBVIOUS
<1> USE ListAssumption DEF TypeOK, List, Node
<1>1. ASSUME NEW x \in Item, NEW v \in TickType, listSET_LIST_ITEM_VALUE(x, v)
      PROVE  TypeOK'
  BY <1>1 DEF listSET_LIST_ITEM_VALUE
<1>2. ASSUME NEW l \in RoundRobinList, NEW x \in Item, vListInsertEnd(l, x)
      PROVE  TypeOK'
  BY <1>2 DEF vListInsertEnd, LinkBetween
<1>3. ASSUME NEW l \in OrderedList, NEW x \in Item, vListInsert(l, x)
      PROVE  TypeOK'
  BY <1>3 DEF vListInsert, LinkBetween
<1>4. ASSUME vListInsertLoop PROVE TypeOK'
  BY <1>4 DEF vListInsertLoop
<1>5. ASSUME vListInsertLink PROVE TypeOK'
  BY <1>5 DEF vListInsertLink, LinkBetween
<1>6. ASSUME NEW x \in Item, uxListRemove(x) PROVE TypeOK'
  BY <1>6 DEF uxListRemove, RekeyedAfter
<1>7. ASSUME NEW l \in RoundRobinList, listGET_OWNER_OF_NEXT_ENTRY(l)
      PROVE  TypeOK'
  BY <1>7 DEF listGET_OWNER_OF_NEXT_ENTRY, NextEntry
<1>8. CASE UNCHANGED vars
  BY <1>8 DEF vars
<1>9. QED BY <1>1, <1>2, <1>3, <1>4, <1>5, <1>6, <1>7, <1>8 DEF Next

(* The three other parts of the invariant survive every step.               *)
LEMMA StepKeepsLists ==
    TypeOK /\ RingsOK /\ OrderedListsAreSorted /\ SearchIsOnTheList
    /\ [Next]_vars
    => RingsOK' /\ OrderedListsAreSorted' /\ SearchIsOnTheList'
<1> SUFFICES ASSUME TypeOK, RingsOK, OrderedListsAreSorted, SearchIsOnTheList,
                    [Next]_vars
             PROVE  RingsOK' /\ OrderedListsAreSorted' /\ SearchIsOnTheList'
  OBVIOUS
<1>1. ASSUME NEW x \in Item, NEW v \in TickType, listSET_LIST_ITEM_VALUE(x, v)
      PROVE  RingsOK' /\ OrderedListsAreSorted' /\ SearchIsOnTheList'
  <2> USE <1>1 DEF listSET_LIST_ITEM_VALUE
  <2>1. RingsOK'
    BY DEF RingsOK, NodesOf, ItemsOf
  <2>2. OrderedListsAreSorted'
    <3> SUFFICES ASSUME NEW m \in OrderedList, m \notin rekeyed', NEW y \in ItemsOf(m)
                 PROVE  ValueOf(y)' <= ValueOf(pxNext[y])'
      BY DEF OrderedListsAreSorted, ItemsOf
    <3>0. m \notin rekeyed /\ pxContainer[x] # m
      OBVIOUS
    <3>1. /\ m \in List /\ y \in Item /\ pxContainer[y] = m /\ y # x /\ y \notin List
          /\ pxNext[y] \in NodesOf(m) /\ pxNext[y] # x
      <4>1. m \in List /\ y \in Item /\ pxContainer[y] = m /\ y # x /\ y \notin List
        BY <3>0, ListAssumption DEF ItemsOf, List, Node
      <4>2. pxNext[y] \in NodesOf(m)
        BY <4>1 DEF RingsOK, Closed, NodesOf, ItemsOf
      <4>3. x \notin NodesOf(m)
        BY <3>0, <4>1, ListAssumption DEF NodesOf, ItemsOf, List, Node
      <4>4. QED BY <4>1, <4>2, <4>3
    <3>2. ValueOf(y) <= ValueOf(pxNext[y])
      BY <3>0 DEF OrderedListsAreSorted
    <3>3. ValueOf(y)' = ValueOf(y) /\ ValueOf(pxNext[y])' = ValueOf(pxNext[y])
      BY <3>1 DEF ValueOf, TypeOK, NodesOf, ItemsOf
    <3>4. QED BY <3>2, <3>3
  <2>3. SearchIsOnTheList'
    BY DEF SearchIsOnTheList, Idle
  <2>4. QED BY <2>1, <2>2, <2>3
<1>2. ASSUME NEW l \in RoundRobinList, NEW x \in Item, vListInsertEnd(l, x)
      PROVE  RingsOK' /\ OrderedListsAreSorted' /\ SearchIsOnTheList'
  <2> DEFINE b == pxPrevious[pxIndex[l]]
  <2>1. b \in NodesOf(l) /\ pxNext[b] = pxIndex[l] /\ l \in List /\ l \notin OrderedList
    BY ListAssumption DEF RingsOK, Closed, List
  <2>2. /\ LinkBetween(l, x, b, pxNext[b]) /\ pxContainer[x] = NULL /\ search = NULL
        /\ UNCHANGED <<xItemValue, pxIndex, search, rekeyed>>
    BY <1>2, <2>1 DEF vListInsertEnd, Idle
  <2> HIDE DEF b
  <2>3. RingsOK'
    BY <2>1, <2>2, LinkKeepsRings
  <2>4. OrderedListsAreSorted'
    BY <2>1, <2>2, LinkKeepsSorted
  <2>5. QED BY <2>2, <2>3, <2>4 DEF SearchIsOnTheList
<1>3. ASSUME NEW l \in OrderedList, NEW x \in Item, vListInsert(l, x)
      PROVE  RingsOK' /\ OrderedListsAreSorted' /\ SearchIsOnTheList'
  <2>1. CASE xItemValue[x] = portMAX_DELAY
    <3> DEFINE b == pxPrevious[l]
    <3>1. b \in NodesOf(l) /\ pxNext[b] = l /\ l \in List
      BY DEF RingsOK, Closed, NodesOf, List
    <3>2. /\ LinkBetween(l, x, b, pxNext[b]) /\ pxContainer[x] = NULL
          /\ search = NULL /\ UNCHANGED <<xItemValue, pxIndex, search, rekeyed>>
      BY <1>3, <2>1, <3>1 DEF vListInsert, Idle
    <3> HIDE DEF b
    <3>3. RingsOK'
      BY <3>1, <3>2, LinkKeepsRings
    <3>4. /\ b \in Item => ValueOf(b) <= ValueOf(x)
          /\ ValueOf(x) <= ValueOf(pxNext[b])
      BY <2>1, <3>1, ListAssumption DEF ValueOf, TypeOK, TickType, Node
    <3>5. OrderedListsAreSorted'
      BY <3>1, <3>2, <3>4, LinkKeepsSorted
    <3>6. QED BY <3>2, <3>3, <3>5 DEF SearchIsOnTheList
  <2>2. CASE xItemValue[x] # portMAX_DELAY
    <3>1. /\ search' = [list |-> l, item |-> x, pxIterator |-> l]
          /\ UNCHANGED <<pxNext, pxPrevious, pxContainer, uxNumberOfItems,
                         xItemValue, pxIndex, rekeyed>>
          /\ pxContainer[x] = NULL
      BY <1>3, <2>2 DEF vListInsert
    <3>2. RingsOK' /\ OrderedListsAreSorted'
      BY <3>1 DEF RingsOK, OrderedListsAreSorted, NodesOf, ItemsOf, ValueOf
    <3>3. SearchIsOnTheList'
      <4>1. xItemValue[x] < portMAX_DELAY /\ l \notin Item
        BY <2>2, ListAssumption DEF TypeOK, TickType, List
      <4>2. QED BY <3>1, <4>1 DEF SearchIsOnTheList, NodesOf
    <3>4. QED BY <3>2, <3>3
  <2>3. QED BY <2>1, <2>2
<1>4. ASSUME vListInsertLoop
      PROVE  RingsOK' /\ OrderedListsAreSorted' /\ SearchIsOnTheList'
  <2>1. UNCHANGED <<pxNext, pxPrevious, pxContainer, uxNumberOfItems,
                    xItemValue, pxIndex, rekeyed>>
    BY <1>4 DEF vListInsertLoop
  <2>2. RingsOK' /\ OrderedListsAreSorted'
    BY <2>1 DEF RingsOK, OrderedListsAreSorted, NodesOf, ItemsOf, ValueOf
  <2>3. SearchIsOnTheList'
    <3> DEFINE i == search.pxIterator
    <3>1. /\ search \in [list : OrderedList, item : Item, pxIterator : Node]
          /\ search' = [search EXCEPT !.pxIterator = pxNext[i]]
          /\ ValueOf(pxNext[i]) <= xItemValue[search.item]
      BY <1>4 DEF vListInsertLoop, KeepSearching, TypeOK
    <3>2. /\ i \in NodesOf(search.list) /\ search.list \in List
          /\ pxContainer[search.item] = NULL
          /\ xItemValue[search.item] < portMAX_DELAY
      <4>1. search # NULL
        BY <1>4 DEF vListInsertLoop
      <4>2. QED BY <4>1, <3>1 DEF SearchIsOnTheList, List
    <3>3. pxNext[i] \in NodesOf(search.list)
      BY <3>2 DEF RingsOK, Closed
    <3>4. pxNext[i] \in Item => xItemValue[pxNext[i]] <= xItemValue[search.item]
      BY <3>1, ListAssumption DEF ValueOf
    <3>5. /\ search'.list = search.list /\ search'.item = search.item
          /\ search'.pxIterator = pxNext[i]
      BY <3>1
    <3>6. /\ pxContainer'[search'.item] = NULL
          /\ xItemValue'[search'.item] < portMAX_DELAY
          /\ search'.pxIterator \in Item =>
                 xItemValue'[search'.pxIterator] <= xItemValue'[search'.item]
      BY <3>2, <3>4, <3>5, <2>1
    <3>7. (search.pxIterator \in NodesOf(search.list))'
      BY <3>3, <3>5, <2>1 DEF NodesOf, ItemsOf
    <3>8. QED BY <3>6, <3>7 DEF SearchIsOnTheList
  <2>4. QED BY <2>2, <2>3
<1>5. ASSUME vListInsertLink
      PROVE  RingsOK' /\ OrderedListsAreSorted' /\ SearchIsOnTheList'
  <2> DEFINE l == search.list
             x == search.item
             b == search.pxIterator
  <2>1. /\ l \in OrderedList /\ x \in Item /\ l \in List /\ b \in NodesOf(l)
        /\ b \in Node
        /\ pxContainer[x] = NULL /\ x \notin List
        /\ b \in Item => xItemValue[b] <= xItemValue[x]
    BY <1>5, ListAssumption DEF vListInsertLink, SearchIsOnTheList, TypeOK, List
  <2>2. /\ LinkBetween(l, x, b, pxNext[b]) /\ search' = NULL
        /\ UNCHANGED <<xItemValue, pxIndex, rekeyed>>
        /\ ~(ValueOf(pxNext[b]) <= xItemValue[x])
    BY <1>5 DEF vListInsertLink, KeepSearching
  <2>3. /\ b \in Item => ValueOf(b) <= ValueOf(x)
        /\ ValueOf(x) <= ValueOf(pxNext[b])
    BY <2>1, <2>2, ListAssumption DEF ValueOf, TypeOK, TickType, Node
  <2>4. PICK m \in OrderedList, y \in Item, c \in Node : m = l /\ y = x /\ c = b
    BY <2>1
  <2> HIDE DEF l, x, b
  <2>5. RingsOK'
    BY <2>1, <2>2, <2>4, LinkKeepsRings
  <2>6. OrderedListsAreSorted'
    BY <2>1, <2>2, <2>3, <2>4, LinkKeepsSorted
  <2>7. QED BY <2>2, <2>5, <2>6 DEF SearchIsOnTheList
<1>6. ASSUME NEW x \in Item, uxListRemove(x)
      PROVE  RingsOK' /\ OrderedListsAreSorted' /\ SearchIsOnTheList'
  BY <1>6, RemoveKeepsRings, RemoveKeepsSorted
     DEF uxListRemove, Idle, SearchIsOnTheList
<1>7. ASSUME NEW l \in RoundRobinList, listGET_OWNER_OF_NEXT_ENTRY(l)
      PROVE  RingsOK' /\ OrderedListsAreSorted' /\ SearchIsOnTheList'
  <2>1. /\ pxIndex' = [pxIndex EXCEPT ![l] = NextEntry(l)]
        /\ UNCHANGED <<pxNext, pxPrevious, pxContainer, xItemValue,
                       uxNumberOfItems, search, rekeyed>> /\ search = NULL
    BY <1>7 DEF listGET_OWNER_OF_NEXT_ENTRY, Idle
  <2>2. NextEntry(l) \in NodesOf(l)
    <3>1. l \in List /\ l \in NodesOf(l)
      BY DEF List, NodesOf
    <3>2. QED BY <3>1 DEF RingsOK, Closed, NextEntry
  <2>3. RingsOK'
    BY <2>1, <2>2 DEF RingsOK, NodesOf, ItemsOf, TypeOK
  <2>4. OrderedListsAreSorted' /\ SearchIsOnTheList'
    BY <2>1 DEF OrderedListsAreSorted, SearchIsOnTheList, ItemsOf, ValueOf
  <2>5. QED BY <2>3, <2>4
<1>8. CASE UNCHANGED vars
  BY <1>8 DEF vars, RingsOK, OrderedListsAreSorted, SearchIsOnTheList, NodesOf,
             ItemsOf, ValueOf
<1>9. QED BY <1>1, <1>2, <1>3, <1>4, <1>5, <1>6, <1>7, <1>8 DEF Next

(* The lists vListInitialise leaves are rings of their marker alone.        *)
LEMMA InitRings == Init => TypeOK /\ RingsOK /\ OrderedListsAreSorted
                           /\ SearchIsOnTheList
<1> SUFFICES ASSUME Init PROVE TypeOK /\ RingsOK /\ OrderedListsAreSorted
                               /\ SearchIsOnTheList
  OBVIOUS
<1>1. TypeOK
  BY ListAssumption DEF Init, TypeOK, TickType, Node
<1>2. \A l \in List : NodesOf(l) = {l}
  BY ListAssumption DEF Init, NodesOf, ItemsOf, Node
<1>3. RingsOK
  BY <1>2 DEF Init, RingsOK, Closed, Connected, Node
<1>4. OrderedListsAreSorted /\ SearchIsOnTheList
  BY ListAssumption
     DEF Init, OrderedListsAreSorted, SearchIsOnTheList, ItemsOf, Node, List
<1>5. QED BY <1>1, <1>3, <1>4

(* Whatever sequence of list operations the kernel performs, and whenever it*)
(* sets a key, every list stays one closed ring around its marker, its links*)
(* agree and its cursor is on it; a list filled by vListInsert is sorted    *)
(* until the key of an item in it is set.                                   *)
THEOREM ListsStayWellFormed == Spec => []ListInv
<1>1. Init => ListInv
  BY InitRings, RingsSplit DEF ListInv
<1>2. ListInv /\ [Next]_vars => ListInv'
  <2>1. RingsOK' <=> RingsAreClosed' /\ RingsAreConnected'
    BY RingsSplit, PTL
  <2>2. QED BY <2>1, RingsSplit, StepKeepsTypes, StepKeepsLists DEF ListInv
<1>3. QED BY <1>1, <1>2, PTL DEF Spec

(* The items of one list as the container field changes.                    *)
LEMMA ItemsFinite == \A l \in List : IsFiniteSet(ItemsOf(l))
  BY ListAssumption, FS_Subset DEF ItemsOf

(* An insertion adds one item and counts one.                               *)
LEMMA LinkKeepsLength ==
    ASSUME TypeOK, LengthIsExact, NEW l \in List, NEW x \in Item,
           pxContainer[x] = NULL, NEW b, NEW a, LinkBetween(l, x, b, a)
    PROVE  LengthIsExact'
<1> SUFFICES ASSUME NEW m \in List
             PROVE  uxNumberOfItems'[m] = Cardinality(ItemsOf(m)')
  BY DEF LengthIsExact
<1>1. /\ uxNumberOfItems' = [uxNumberOfItems EXCEPT ![l] = @ + 1]
      /\ uxNumberOfItems[m] = Cardinality(ItemsOf(m))
  BY DEF LinkBetween, LengthIsExact
<1>2. CASE m = l
  <2>1. ItemsOf(l)' = ItemsOf(l) \cup {x} /\ x \notin ItemsOf(l)
    BY ListAssumption DEF LinkBetween, ItemsOf, TypeOK, Node, List
  <2>2. Cardinality(ItemsOf(l) \cup {x}) = Cardinality(ItemsOf(l)) + 1
    BY <2>1, ItemsFinite, FS_AddElement
  <2>3. QED BY <2>1, <2>2, <1>1, <1>2 DEF TypeOK
<1>3. CASE m # l
  <2>1. ItemsOf(m)' = ItemsOf(m)
    BY <1>3, ListAssumption DEF LinkBetween, ItemsOf, TypeOK, Node, List
  <2>2. QED BY <2>1, <1>1, <1>3 DEF TypeOK
<1>4. QED BY <1>2, <1>3

(* uxListRemove takes one item out and counts one less.                     *)
LEMMA RemoveKeepsLength ==
    ASSUME TypeOK, LengthIsExact, NEW x \in Item, uxListRemove(x)
    PROVE  LengthIsExact'
<1> SUFFICES ASSUME NEW m \in List
             PROVE  uxNumberOfItems'[m] = Cardinality(ItemsOf(m)')
  BY DEF LengthIsExact
<1>0. PICK l \in List : l = pxContainer[x]
  BY ListAssumption DEF uxListRemove, TypeOK
<1>1. /\ uxNumberOfItems' = [uxNumberOfItems EXCEPT ![l] = @ - 1]
      /\ uxNumberOfItems[m] = Cardinality(ItemsOf(m))
  BY <1>0 DEF uxListRemove, LengthIsExact
<1>2. CASE m = l
  <2>1. ItemsOf(l)' = ItemsOf(l) \ {x} /\ x \in ItemsOf(l)
    BY <1>0, ListAssumption DEF uxListRemove, ItemsOf, TypeOK, Node, List
  <2>2. Cardinality(ItemsOf(l) \ {x}) = Cardinality(ItemsOf(l)) - 1
    BY <2>1, ItemsFinite, FS_RemoveElement
  <2>3. QED BY <2>1, <2>2, <1>1, <1>2 DEF TypeOK
<1>3. CASE m # l
  <2>1. ItemsOf(m)' = ItemsOf(m)
    BY <1>0, <1>3, ListAssumption DEF uxListRemove, ItemsOf, TypeOK, Node, List
  <2>2. QED BY <2>1, <1>1, <1>3 DEF TypeOK
<1>4. QED BY <1>2, <1>3

(* uxNumberOfItems, which listLIST_IS_EMPTY and the return value of         *)
(* uxListRemove rely on, is always the number of items in the list.         *)
THEOREM LengthStaysExact == Spec => []LengthIsExact
<1>1. Init => LengthIsExact
  <2> SUFFICES ASSUME Init, NEW l \in List
               PROVE  uxNumberOfItems[l] = Cardinality(ItemsOf(l))
    BY DEF LengthIsExact
  <2>1. ItemsOf(l) = {}
    BY ListAssumption DEF Init, ItemsOf, Node
  <2>2. QED BY <2>1, FS_EmptySet DEF Init
<1>2. ListInv /\ LengthIsExact /\ [Next]_vars => LengthIsExact'
  <2> SUFFICES ASSUME ListInv, LengthIsExact, [Next]_vars PROVE LengthIsExact'
    OBVIOUS
  <2>0. TypeOK /\ SearchIsOnTheList
    BY DEF ListInv
  <2>1. ASSUME UNCHANGED <<pxContainer, uxNumberOfItems>> PROVE LengthIsExact'
    BY <2>1 DEF LengthIsExact, ItemsOf
  <2>2. ASSUME NEW l \in RoundRobinList, NEW x \in Item, vListInsertEnd(l, x)
        PROVE  LengthIsExact'
    BY <2>0, <2>2, LinkKeepsLength DEF vListInsertEnd, List
  <2>3. ASSUME NEW l \in OrderedList, NEW x \in Item, vListInsert(l, x)
        PROVE  LengthIsExact'
    BY <2>0, <2>1, <2>3, LinkKeepsLength DEF vListInsert, List
  <2>4. ASSUME vListInsertLink PROVE LengthIsExact'
    <3>1. /\ search.list \in List /\ search.item \in Item
          /\ pxContainer[search.item] = NULL
      BY <2>0, <2>4 DEF vListInsertLink, TypeOK, List, SearchIsOnTheList
    <3>2. PICK l \in List, x \in Item : l = search.list /\ x = search.item
      BY <3>1
    <3>3. \E b, a : LinkBetween(l, x, b, a)
      BY <2>4, <3>2 DEF vListInsertLink
    <3>4. QED BY <2>0, <3>1, <3>2, <3>3, LinkKeepsLength
  <2>5. ASSUME NEW x \in Item, uxListRemove(x) PROVE LengthIsExact'
    BY <2>0, <2>5, RemoveKeepsLength
  <2>6. QED
    BY <2>1, <2>2, <2>3, <2>4, <2>5
       DEF Next, vars, listSET_LIST_ITEM_VALUE, vListInsertLoop,
           listGET_OWNER_OF_NEXT_ENTRY
<1>3. QED BY <1>1, <1>2, ListsStayWellFormed, PTL DEF Spec
-----------------------------------------------------------------------------
(* The least of a set of numbers.                                           *)
LEMMA LeastNumber ==
    ASSUME NEW S, S \subseteq Nat, S # {}
    PROVE  \E n \in S : \A m \in S : n <= m
<1>1. PICK x \in S : \A y \in S : ~ (<<y, x>> \in OpToRel(<, Nat))
  BY NatLessThanWellFounded, WFMin, Zenon
<1>2. \A y \in S : x <= y
  <2> TAKE y \in S
  <2>1. <<y, x>>[1] = y /\ <<y, x>>[2] = x /\ <<y, x>> \in Nat \X Nat
    OBVIOUS
  <2>2. ~ (y < x)
    BY <1>1, <2>1, Zenon DEF OpToRel
  <2>3. QED BY <2>2
<1>3. QED BY <1>2

(* What holds at a, and at i + 1 if at i, holds up to m: the numbers at     *)
(* which it holds are given as a set.                                       *)
LEMMA Upward ==
    ASSUME NEW a \in Int, NEW m \in Int, NEW S, a <= m => a \in S,
           \A i \in a .. m - 1 : i \in S => i + 1 \in S
    PROVE  \A i \in a .. m : i \in S
<1> DEFINE Bad == {k \in Nat : a + k <= m /\ a + k \notin S}
<1>1. Bad = {}
  <2> SUFFICES ASSUME Bad # {} PROVE FALSE
    OBVIOUS
  <2>1. PICK k \in Bad : \A j \in Bad : k <= j
    <3>1. Bad \subseteq Nat
      OBVIOUS
    <3> HIDE DEF Bad
    <3>2. QED BY <3>1, LeastNumber
  <2>2. k \in Nat /\ a + k <= m /\ a + k \notin S
    OBVIOUS
  <2>3. k # 0
    BY <2>2
  <2>4. /\ k - 1 \in Nat /\ ~(k <= k - 1) /\ a + (k - 1) \in a .. m - 1
        /\ (a + (k - 1)) + 1 = a + k
    BY <2>2, <2>3
  <2>5. a + (k - 1) \in S
    BY <2>1, <2>4
  <2>6. QED BY <2>2, <2>4, <2>5
<1>2. ASSUME NEW i \in a .. m PROVE i \in S
  <2>1. i - a \in Nat /\ a + (i - a) = i
    BY <1>2
  <2>2. i - a \notin Bad
    BY <1>1
  <2>3. QED BY <1>2, <2>1, <2>2
<1>3. QED BY <1>2

(* Walk for any links, cursor and length, so that it can be compared before *)
(* and after a step.                                                        *)
LinksTo(nx, f, i, c) == IF i = 1 THEN nx[c] ELSE nx[f[i - 1]]
WalkOf(nx, c, n) == CHOOSE f : f = [i \in 1 .. n |-> LinksTo(nx, f, i, c)]

(* s lists the first n nodes behind c along nx.                             *)
Follows(s, nx, c, n) ==
    /\ s = [i \in 1 .. n |-> s[i]]
    /\ \A i \in 1 .. n : s[i] = LinksTo(nx, s, i, c)

(* The recursion that Walk is defined by has a solution.                    *)
LEMMA WalkOfFollows ==
    ASSUME NEW nx, NEW c, NEW n \in Nat
    PROVE  Follows(WalkOf(nx, c, n), nx, c, n)
<1>1. \E f : f = [i \in 1 .. n |-> LinksTo(nx, f, i, c)]
  <2> DEFINE Has(k) == \E f : f = [i \in 1 .. k |-> LinksTo(nx, f, i, c)]
             Good == {k \in 0 .. n : Has(k)}
  <2>1. Has(0)
    <3> DEFINE g == [i \in 1 .. 0 |-> c]
    <3>1. g = [i \in 1 .. 0 |-> LinksTo(nx, g, i, c)]
      OBVIOUS
    <3>2. QED BY <3>1
  <2>2. ASSUME NEW j \in 0 .. n - 1, Has(j) PROVE Has(j + 1)
    <3>1. PICK f : f = [i \in 1 .. j |-> LinksTo(nx, f, i, c)]
      BY <2>2
    <3> DEFINE k == j + 1
               g == [i \in 1 .. k |-> IF i = k THEN LinksTo(nx, f, k, c) ELSE f[i]]
    <3>2. \A i \in 1 .. j : g[i] = f[i]
      OBVIOUS
    <3>3. \A i \in 1 .. k : LinksTo(nx, g, i, c) = LinksTo(nx, f, i, c)
      BY <3>2 DEF LinksTo
    <3>4. \A i \in 1 .. j : f[i] = LinksTo(nx, f, i, c)
      BY <3>1
    <3>5. \A i \in 1 .. k : g[i] = LinksTo(nx, g, i, c)
      <4> TAKE i \in 1 .. k
      <4>1. CASE i = k
        BY <3>3, <4>1
      <4>2. CASE i # k
        <5>1. i \in 1 .. j
          BY <4>2
        <5>2. QED BY <3>2, <3>3, <3>4, <5>1
      <4>3. QED BY <4>1, <4>2
    <3>6. g = [i \in 1 .. k |-> LinksTo(nx, g, i, c)]
      BY <3>5
    <3> HIDE DEF g
    <3>7. QED BY <3>6
  <2> HIDE DEF Has
  <2>3. 0 \in Good /\ \A i \in 0 .. n - 1 : i \in Good => i + 1 \in Good
    BY <2>1, <2>2
  <2>4. n \in Good
    <3> HIDE DEF Good
    <3>1. \A i \in 0 .. n : i \in Good
      BY <2>3, Upward
    <3>2. QED BY <3>1
  <2>5. QED BY <2>4 DEF Has
<1>2. WalkOf(nx, c, n) = [i \in 1 .. n |-> LinksTo(nx, WalkOf(nx, c, n), i, c)]
  BY <1>1, Zenon DEF WalkOf
<1>3. QED BY <1>2 DEF Follows

(* And only one.                                                            *)
LEMMA FollowsIsUnique ==
    ASSUME NEW nx, NEW c, NEW n \in Nat, NEW s, NEW t,
           Follows(s, nx, c, n), Follows(t, nx, c, n)
    PROVE  s = t
<1> DEFINE Good == {i \in 1 .. n : s[i] = t[i]}
<1>1. 1 <= n => 1 \in Good
  <2> SUFFICES ASSUME 1 <= n PROVE s[1] = t[1]
    OBVIOUS
  <2>1. 1 \in 1 .. n
    OBVIOUS
  <2>2. s[1] = nx[c] /\ t[1] = nx[c]
    BY <2>1 DEF Follows, LinksTo
  <2>3. QED BY <2>2
<1>2. \A i \in 1 .. n - 1 : i \in Good => i + 1 \in Good
  <2> TAKE i \in 1 .. n - 1
  <2>1. i \in 1 .. n /\ i + 1 \in 1 .. n /\ i + 1 # 1 /\ (i + 1) - 1 = i
    OBVIOUS
  <2>2. s[i + 1] = nx[s[i]] /\ t[i + 1] = nx[t[i]]
    BY <2>1 DEF Follows, LinksTo
  <2>3. QED BY <2>1, <2>2
<1>3. \A i \in 1 .. n : i \in Good
  <2> HIDE DEF Good
  <2>1. QED BY <1>1, <1>2, Upward
<1>4. \A i \in 1 .. n : s[i] = t[i]
  BY <1>3
<1>5. QED BY <1>4 DEF Follows

(* The walk round the nodes S of a ring, from behind its node c.            *)
RingWalk(s, nx, c, S) ==
    /\ Cardinality(S) \in Nat \ {0}
    /\ s \in [1 .. Cardinality(S) -> S]
    /\ \A i, j \in 1 .. Cardinality(S) : s[i] = s[j] => i = j
    /\ \A y \in S : \E i \in 1 .. Cardinality(S) : s[i] = y
    /\ s[1] = nx[c] /\ s[Cardinality(S)] = c
    /\ \A i \in 1 .. Cardinality(S) - 1 : s[i + 1] = nx[s[i]]

(* As many steps as a ring has nodes visit each node once and end at the    *)
(* node the walk starts behind.                                             *)
LEMMA WalkIsRound ==
    ASSUME NEW S, IsFiniteSet(S), NEW nx, NEW pv, NEW l \in S, NEW c \in S,
           Closed(S, nx, pv), Connected(S, l, nx), NEW s,
           Follows(s, nx, c, Cardinality(S))
    PROVE  RingWalk(s, nx, c, S)
<1> DEFINE n == Cardinality(S)
<1>1. n \in Nat \ {0}
  <2>1. n \in Nat /\ n # 0
    BY FS_CardinalityType, FS_EmptySet
  <2>2. QED BY <2>1
<1>2. /\ s = [i \in 1 .. n |-> s[i]]
      /\ s[1] = nx[c]
      /\ \A i \in 1 .. n - 1 : s[i + 1] = nx[s[i]]
  <2>1. s = [i \in 1 .. n |-> s[i]] /\ s[1] = nx[c]
    BY <1>1 DEF Follows, LinksTo
  <2>2. ASSUME NEW i \in 1 .. n - 1 PROVE s[i + 1] = nx[s[i]]
    <3>1. i + 1 \in 1 .. n /\ i + 1 # 1 /\ (i + 1) - 1 = i
      BY <1>1
    <3>2. QED BY <3>1 DEF Follows, LinksTo
  <2>3. QED BY <2>1, <2>2
<1>0. IsFiniteSet(S) /\ n = Cardinality(S)
  OBVIOUS
<1> HIDE DEF n
<1>3. \A i \in 1 .. n : s[i] \in S
  <2> DEFINE Good == {i \in 1 .. n : s[i] \in S}
  <2>1. 1 <= n => 1 \in Good
    BY <1>1, <1>2 DEF Closed
  <2>2. \A i \in 1 .. n - 1 : i \in Good => i + 1 \in Good
    <3> TAKE i \in 1 .. n - 1
    <3> HAVE i \in Good
    <3>1. i + 1 \in 1 .. n /\ s[i] \in S
      BY <1>1
    <3>2. s[i + 1] = nx[s[i]]
      BY <1>2
    <3>3. s[i + 1] \in S
      BY <3>1, <3>2 DEF Closed
    <3>4. QED BY <3>1, <3>3
  <2>3. \A i \in 1 .. n : i \in Good
    <3> HIDE DEF Good
    <3>1. QED BY <1>1, <2>1, <2>2, Upward
  <2>4. QED BY <2>3
<1>4. \A i \in 1 .. n - 1 : pv[s[i + 1]] = s[i]
  <2> TAKE i \in 1 .. n - 1
  <2>1. i \in 1 .. n
    BY <1>1
  <2>2. QED BY <2>1, <1>2, <1>3 DEF Closed
<1>5. pv[s[1]] = c
  BY <1>2 DEF Closed
<1>6. ASSUME NEW k \in 1 .. n - 1, s[k] = c PROVE FALSE
  <2> DEFINE T == {s[a] : a \in 1 .. k}
             U == S \ T
  <2>1. T \subseteq S /\ s[1] \in T
    BY <1>1, <1>3
  <2>2. \A y \in T : nx[y] \in T /\ pv[y] \in T
    <3> SUFFICES ASSUME NEW a \in 1 .. k PROVE nx[s[a]] \in T /\ pv[s[a]] \in T
      OBVIOUS
    <3>1. nx[s[a]] \in T
      <4>1. CASE a = k
        BY <4>1, <1>1, <1>2, <1>6
      <4>2. CASE a # k
        <5>1. a + 1 \in 1 .. k /\ a \in 1 .. n - 1
          BY <4>2, <1>1
        <5>2. nx[s[a]] = s[a + 1]
          BY <5>1, <1>2
        <5>3. QED BY <5>1, <5>2
      <4>3. QED BY <4>1, <4>2
    <3>2. pv[s[a]] \in T
      <4>1. CASE a = 1
        <5>1. pv[s[a]] = s[k] /\ k \in 1 .. k
          BY <4>1, <1>5, <1>6
        <5>2. QED BY <5>1
      <4>2. CASE a # 1
        <5>1. a - 1 \in 1 .. k /\ a - 1 \in 1 .. n - 1 /\ (a - 1) + 1 = a
          BY <4>2, <1>1
        <5>2. pv[s[a]] = s[a - 1]
          BY <5>1, <1>4
        <5>3. QED BY <5>1, <5>2
      <4>3. QED BY <4>1, <4>2
    <3>3. QED BY <3>1, <3>2
  <2>3. T = S
    <3>1. CASE l \in T
      <4> HIDE DEF T
      <4>1. QED BY <3>1, <2>1, <2>2 DEF Connected
    <3>2. CASE l \notin T
      <4> HIDE DEF T
      <4>1. U \in SUBSET S /\ l \in U
        BY <3>2
      <4>2. \A y \in U : nx[y] \in U
        BY <2>1, <2>2 DEF Closed
      <4>3. U = S
        <5> HIDE DEF U
        <5>1. QED BY <4>1, <4>2 DEF Connected
      <4>4. QED BY <4>3, <2>1
    <3>3. QED BY <3>1, <3>2
  <2>4. Cardinality(T) <= Cardinality(1 .. k) /\ Cardinality(1 .. k) = k
    <3>1. IsFiniteSet(1 .. k) /\ Cardinality(1 .. k) = k
      BY <1>1, FS_Interval
    <3> DEFINE g == [a \in 1 .. k |-> s[a]]
    <3>2. g \in Surjection(1 .. k, T)
      BY DEF Surjection
    <3> HIDE DEF g, T
    <3>3. QED BY <3>1, <3>2, FS_Surjection
  <2> HIDE DEF T
  <2>5. n <= k
    BY <2>3, <2>4, <1>0
  <2>6. QED BY <2>5, <1>1
<1>7. ASSUME NEW i \in 1 .. n, NEW j \in 1 .. n, i < j, s[i] = s[j] PROVE FALSE
  <2> DEFINE Good == {m \in 0 .. i - 1 : s[i - m] = s[j - m]}
  <2>1. 0 <= i - 1 => 0 \in Good
    BY <1>7, <1>1
  <2>2. \A m \in 0 .. (i - 1) - 1 : m \in Good => m + 1 \in Good
    <3> TAKE m \in 0 .. (i - 1) - 1
    <3> HAVE m \in Good
    <3>1. /\ i - (m + 1) \in 1 .. n - 1 /\ j - (m + 1) \in 1 .. n - 1
          /\ (i - (m + 1)) + 1 = i - m /\ (j - (m + 1)) + 1 = j - m
          /\ m + 1 \in 0 .. i - 1
      BY <1>1, <1>7
    <3>2. s[i - (m + 1)] = pv[s[i - m]] /\ s[j - (m + 1)] = pv[s[j - m]]
      BY <3>1, <1>4
    <3>3. s[i - m] = s[j - m]
      OBVIOUS
    <3>4. QED BY <3>1, <3>2, <3>3
  <2>3. \A m \in 0 .. i - 1 : m \in Good
    <3> HIDE DEF Good
    <3>1. i - 1 \in Int /\ 0 \in Int
      OBVIOUS
    <3>2. QED BY <2>1, <2>2, <3>1, Upward
  <2>4. i - 1 \in 0 .. i - 1 /\ i - (i - 1) = 1 /\ j - (i - 1) = (j - i) + 1
    BY <1>1
  <2>5. s[1] = s[(j - i) + 1]
    BY <2>3, <2>4
  <2>6. j - i \in 1 .. n - 1
    BY <1>1, <1>7
  <2>7. s[j - i] = c
    BY <2>5, <2>6, <1>4, <1>5
  <2>8. QED BY <2>6, <2>7, <1>6
<1>8. \A i, j \in 1 .. n : s[i] = s[j] => i = j
  <2> TAKE i, j \in 1 .. n
  <2>1. i \in Int /\ j \in Int
    BY <1>1
  <2>2. QED BY <2>1, <1>7
<1>9. \A y \in S : \E i \in 1 .. n : s[i] = y
  <2>1. s \in [1 .. n -> S]
    BY <1>2, <1>3
  <2>2. s \in Injection(1 .. n, S)
    BY <2>1, <1>8 DEF Injection, IsInjective
  <2>3. IsFiniteSet(1 .. n) /\ Cardinality(1 .. n) = Cardinality(S)
    BY <1>1, <1>0, FS_Interval
  <2>4. s \in Surjection(1 .. n, S)
    BY <1>0, <2>2, <2>3, FS_Injection
  <2>5. QED BY <2>4 DEF Surjection
<1>10. s[n] = c
  <2>1. PICK k \in 1 .. n : s[k] = c
    BY <1>9
  <2>2. k = n
    BY <1>1, <1>6, <2>1
  <2>3. QED BY <2>1, <2>2
<1>11. s \in [1 .. n -> S]
  BY <1>2, <1>3
<1>12. QED BY <1>0, <1>1, <1>2, <1>8, <1>9, <1>10, <1>11 DEF RingWalk
-----------------------------------------------------------------------------
(* Follows from its steps.                                                  *)
LEMMA FollowsBySteps ==
    ASSUME NEW n \in Nat \ {0}, NEW s, NEW nx, NEW c,
           s = [i \in 1 .. n |-> s[i]], s[1] = nx[c],
           \A i \in 1 .. n - 1 : s[i + 1] = nx[s[i]]
    PROVE  Follows(s, nx, c, n)
<1>1. ASSUME NEW i \in 1 .. n PROVE s[i] = LinksTo(nx, s, i, c)
  <2>1. CASE i = 1
    BY <2>1 DEF LinksTo
  <2>2. CASE i # 1
    <3>1. i - 1 \in 1 .. n - 1 /\ (i - 1) + 1 = i
      BY <2>2
    <3>2. s[i] = nx[s[i - 1]]
      BY <3>1
    <3>3. QED BY <2>2, <3>2 DEF LinksTo
  <2>3. QED BY <2>1, <2>2
<1>2. QED BY <1>1 DEF Follows

(* What vListInsert and vListInsertEnd do to a walk: x comes behind its     *)
(* first k nodes, hence behind the node the walk starts from when k is 0.   *)
WithInserted(s, k, x, n) ==
    [i \in 1 .. n + 1 |-> IF i <= k THEN s[i] ELSE IF i = k + 1 THEN x ELSE s[i - 1]]

(* The walk after the pointer assignments of an insertion.                  *)
LEMMA InsertFollows ==
    ASSUME NEW V, NEW S \in SUBSET V, NEW nx \in [V -> V], NEW x \in V \ S,
           NEW c \in S, NEW s, RingWalk(s, nx, c, S), NEW n, n = Cardinality(S),
           NEW k \in 0 .. n - 1, NEW b, b = IF k = 0 THEN c ELSE s[k]
    PROVE  Follows(WithInserted(s, k, x, n),
                   [nx EXCEPT ![x] = nx[b], ![b] = x], c, n + 1)
<1> DEFINE t == WithInserted(s, k, x, n)
           nx2 == [nx EXCEPT ![x] = nx[b], ![b] = x]
<1>1. /\ n \in Nat \ {0}
      /\ \A i \in 1 .. n : s[i] \in S
      /\ \A i, j \in 1 .. n : s[i] = s[j] => i = j
      /\ s[1] = nx[c] /\ s[n] = c
      /\ \A i \in 1 .. n - 1 : s[i + 1] = nx[s[i]]
  BY DEF RingWalk
<1>2. b \in S /\ b \in V /\ b # x
  BY <1>1
<1>3. /\ nx2[x] = nx[b] /\ nx2[b] = x
      /\ \A y \in S : y # b => nx2[y] = nx[y]
  BY <1>2
<1>4. /\ t = [i \in 1 .. n + 1 |-> t[i]]
      /\ \A i \in 1 .. n + 1 :
            t[i] = IF i <= k THEN s[i] ELSE IF i = k + 1 THEN x ELSE s[i - 1]
  BY DEF WithInserted
<1> HIDE DEF t, nx2
<1>5. t[1] = nx2[c]
  <2>1. CASE k = 0
    BY <2>1, <1>1, <1>3, <1>4
  <2>2. CASE k # 0
    <3>1. t[1] = s[1] /\ b = s[k] /\ k \in 1 .. n /\ k # n /\ n \in 1 .. n
      BY <2>2, <1>1, <1>4
    <3>2. c # b
      BY <3>1, <1>1
    <3>3. QED BY <3>1, <3>2, <1>1, <1>3
  <2>3. QED BY <2>1, <2>2
<1>6. ASSUME NEW i \in 1 .. (n + 1) - 1 PROVE t[i + 1] = nx2[t[i]]
  <2>0. i \in 1 .. n + 1 /\ i + 1 \in 1 .. n + 1 /\ i \in 1 .. n
    BY <1>1
  <2>1. CASE i + 1 <= k
    <3>1. t[i + 1] = s[i + 1] /\ t[i] = s[i]
      BY <2>0, <2>1, <1>4
    <3>2. i \in 1 .. n - 1 /\ k \in 1 .. n /\ k # i /\ b = s[k]
      BY <2>0, <2>1, <1>1
    <3>3. s[i] # b /\ s[i] \in S
      BY <2>0, <3>2, <1>1
    <3>4. QED BY <3>1, <3>2, <3>3, <1>1, <1>3
  <2>2. CASE i = k
    <3>1. t[i + 1] = x /\ t[i] = s[k] /\ b = s[k]
      BY <2>0, <2>2, <1>4
    <3>2. QED BY <3>1, <1>3
  <2>3. CASE i = k + 1
    <3>1. t[i + 1] = s[k + 1] /\ t[i] = x
      BY <2>0, <2>3, <1>4
    <3>2. s[k + 1] = nx[b]
      <4>1. CASE k = 0
        BY <4>1, <1>1
      <4>2. CASE k # 0
        <5>1. k \in 1 .. n - 1
          BY <4>2, <1>1
        <5>2. QED BY <4>2, <5>1, <1>1
      <4>3. QED BY <4>1, <4>2
    <3>3. QED BY <3>1, <3>2, <1>3
  <2>4. CASE i > k + 1
    <3>0. (i + 1) - 1 = i
      OBVIOUS
    <3>1. t[i + 1] = s[i] /\ t[i] = s[i - 1]
      BY <2>0, <2>4, <3>0, <1>4
    <3>2. i - 1 \in 1 .. n - 1 /\ (i - 1) + 1 = i /\ i - 1 \in 1 .. n /\ i - 1 # n
      BY <2>0, <2>4, <1>1
    <3>3. s[i] = nx[s[i - 1]]
      BY <3>2, <1>1
    <3>4. s[i - 1] # b
      <4>1. CASE k = 0
        BY <4>1, <3>2, <1>1
      <4>2. CASE k # 0
        <5>1. k \in 1 .. n /\ b = s[k] /\ i - 1 # k
          BY <4>2, <2>4, <1>1
        <5>2. QED BY <5>1, <3>2, <1>1
      <4>3. QED BY <4>1, <4>2
    <3>5. QED BY <3>1, <3>2, <3>3, <3>4, <1>1, <1>3
  <2>5. QED BY <2>0, <2>1, <2>2, <2>3, <2>4, <1>1
<1>7. n + 1 \in Nat \ {0}
  BY <1>1
<1>8. Follows(t, nx2, c, n + 1)
  BY <1>4, <1>5, <1>6, <1>7, FollowsBySteps
<1>9. QED BY <1>8 DEF t, nx2

(* What uxListRemove does to a walk: the node at place p is left out, and a *)
(* cursor on it steps back.                                                 *)
WithoutPlace(s, p, n) == [i \in 1 .. n - 1 |-> IF i < p THEN s[i] ELSE s[i + 1]]

(* The walk after the pointer assignments of uxListRemove.                  *)
LEMMA RemoveFollows ==
    ASSUME NEW V, NEW S \in SUBSET V, NEW nx \in [V -> V], NEW c \in S, NEW s,
           RingWalk(s, nx, c, S), NEW n, n = Cardinality(S), n > 1,
           NEW p \in 1 .. n, NEW b \in S, nx[b] = s[p]
    PROVE  Follows(WithoutPlace(s, p, n), [nx EXCEPT ![b] = nx[s[p]]],
                   IF c = s[p] THEN b ELSE c, n - 1)
<1> DEFINE t == WithoutPlace(s, p, n)
           x == s[p]
           nx2 == [nx EXCEPT ![b] = nx[x]]
           c2 == IF c = x THEN b ELSE c
<1>1. /\ n \in Nat /\ n > 1
      /\ \A i \in 1 .. n : s[i] \in S
      /\ \A i, j \in 1 .. n : s[i] = s[j] => i = j
      /\ s[1] = nx[c] /\ s[n] = c
      /\ \A i \in 1 .. n - 1 : s[i + 1] = nx[s[i]]
      /\ \A y \in S : \E i \in 1 .. n : s[i] = y
  BY DEF RingWalk
<1>2. b = IF p = 1 THEN c ELSE s[p - 1]
  <2>1. PICK j \in 1 .. n : s[j] = b
    BY <1>1
  <2>2. CASE j = n
    <3>1. s[1] = s[p] /\ 1 \in 1 .. n
      BY <2>1, <2>2, <1>1
    <3>2. p = 1
      BY <3>1, <1>1
    <3>3. QED BY <3>2, <2>1, <2>2, <1>1
  <2>3. CASE j # n
    <3>1. j \in 1 .. n - 1 /\ j + 1 \in 1 .. n
      BY <2>3, <1>1
    <3>2. s[j + 1] = s[p]
      BY <3>1, <2>1, <1>1
    <3>3. p = j + 1
      BY <3>1, <3>2, <1>1
    <3>4. p # 1 /\ p - 1 = j
      BY <3>1, <3>3
    <3>5. QED BY <3>4, <2>1
  <2>4. QED BY <2>2, <2>3
<1>3. /\ nx2[b] = nx[x] /\ \A y \in S : y # b => nx2[y] = nx[y]
  OBVIOUS
<1>4. /\ t = [i \in 1 .. n - 1 |-> t[i]]
      /\ \A i \in 1 .. n - 1 : t[i] = IF i < p THEN s[i] ELSE s[i + 1]
  BY DEF WithoutPlace
<1>5. c = x <=> p = n
  <2>1. n \in 1 .. n /\ s[n] = c
    BY <1>1
  <2>2. QED BY <2>1, <1>1
<1>0. x = s[p] /\ c2 = IF c = x THEN b ELSE c
  OBVIOUS
<1> HIDE DEF t, nx2, c2, x
<1>6. t[1] = nx2[c2]
  <2>0. 1 \in 1 .. n - 1
    BY <1>1
  <2>1. CASE p = n
    <3>1. t[1] = s[1] /\ c2 = b /\ c = x
      BY <2>0, <2>1, <1>0, <1>1, <1>4, <1>5
    <3>2. QED BY <3>1, <1>1, <1>3
  <2>2. CASE p # n /\ p = 1
    <3>1. t[1] = s[1 + 1] /\ c2 = c /\ b = c
      BY <2>0, <2>2, <1>0, <1>2, <1>4, <1>5
    <3>2. s[1 + 1] = nx[s[1]]
      BY <2>0, <1>1
    <3>3. QED BY <3>1, <3>2, <2>2, <1>0, <1>3
  <2>3. CASE p # n /\ p # 1
    <3>1. t[1] = s[1] /\ c2 = c /\ b = s[p - 1]
      BY <2>0, <2>3, <1>0, <1>2, <1>4, <1>5
    <3>2. p - 1 \in 1 .. n /\ p - 1 # n /\ n \in 1 .. n
      BY <2>3, <1>1
    <3>3. c # b
      BY <3>1, <3>2, <1>1
    <3>4. QED BY <3>1, <3>3, <1>1, <1>3
  <2>4. QED BY <2>1, <2>2, <2>3
<1>7. ASSUME NEW i \in 1 .. (n - 1) - 1 PROVE t[i + 1] = nx2[t[i]]
  <2>0. /\ i \in 1 .. n - 1 /\ i + 1 \in 1 .. n - 1 /\ i \in 1 .. n
        /\ i + 1 \in 1 .. n /\ i # n /\ i + 1 # n /\ n \in 1 .. n
    BY <1>1
  <2>1. CASE i + 1 < p
    <3>1. t[i + 1] = s[i + 1] /\ t[i] = s[i]
      BY <2>0, <2>1, <1>4
    <3>2. p - 1 \in 1 .. n /\ p - 1 # i /\ b = s[p - 1]
      BY <2>0, <2>1, <1>1, <1>2
    <3>3. s[i] # b /\ s[i] \in S
      BY <2>0, <3>2, <1>1
    <3>4. QED BY <2>0, <3>1, <3>3, <1>1, <1>3
  <2>2. CASE i + 1 = p
    <3>1. t[i + 1] = s[(i + 1) + 1] /\ t[i] = s[i] /\ b = s[i]
      BY <2>0, <2>2, <1>1, <1>2, <1>4
    <3>2. s[(i + 1) + 1] = nx[s[i + 1]]
      BY <2>0, <1>1
    <3>3. QED BY <3>1, <3>2, <2>2, <1>0, <1>3
  <2>3. CASE i >= p
    <3>1. t[i + 1] = s[(i + 1) + 1] /\ t[i] = s[i + 1]
      BY <2>0, <2>3, <1>4
    <3>2. s[(i + 1) + 1] = nx[s[i + 1]]
      BY <2>0, <1>1
    <3>3. s[i + 1] # b
      <4>1. CASE p = 1
        BY <4>1, <2>0, <1>1, <1>2
      <4>2. CASE p # 1
        <5>1. p - 1 \in 1 .. n /\ p - 1 # i + 1 /\ b = s[p - 1]
          BY <4>2, <2>3, <1>1, <1>2
        <5>2. QED BY <5>1, <2>0, <1>1
      <4>3. QED BY <4>1, <4>2
    <3>4. QED BY <2>0, <3>1, <3>2, <3>3, <1>1, <1>3
  <2>4. QED BY <2>0, <2>1, <2>2, <2>3
<1>8. n - 1 \in Nat \ {0}
  BY <1>1
<1>9. Follows(t, nx2, c2, n - 1)
  BY <1>4, <1>6, <1>7, <1>8, FollowsBySteps
<1>10. QED BY <1>9 DEF t, nx2, c2, x

(* A walk that ends at the node it starts behind, and what                  *)
(* listGET_OWNER_OF_NEXT_ENTRY does to it when it moves the cursor by one.  *)
Turning(s, nx, c, n) ==
    /\ n \in Nat \ {0}
    /\ s = [i \in 1 .. n |-> s[i]]
    /\ s[1] = nx[c] /\ s[n] = c
    /\ \A i \in 1 .. n - 1 : s[i + 1] = nx[s[i]]

Rotated(s, n) == [i \in 1 .. n |-> IF i < n THEN s[i + 1] ELSE s[1]]

(* The walk from behind the next node.                                      *)
LEMMA RotateTurns ==
    ASSUME NEW s, NEW nx, NEW c, NEW n, Turning(s, nx, c, n)
    PROVE  Turning(Rotated(s, n), nx, nx[c], n)
<1> DEFINE t == Rotated(s, n)
<1>1. /\ n \in Nat \ {0} /\ s[1] = nx[c] /\ s[n] = c
      /\ \A i \in 1 .. n - 1 : s[i + 1] = nx[s[i]]
  BY DEF Turning
<1>2. /\ t = [i \in 1 .. n |-> t[i]]
      /\ \A i \in 1 .. n : t[i] = IF i < n THEN s[i + 1] ELSE s[1]
  BY DEF Rotated
<1> HIDE DEF t
<1>3. t[1] = nx[nx[c]]
  <2>1. CASE n = 1
    BY <2>1, <1>1, <1>2
  <2>2. CASE n # 1
    <3>1. 1 \in 1 .. n /\ 1 \in 1 .. n - 1 /\ 1 < n
      BY <2>2, <1>1
    <3>2. t[1] = s[1 + 1] /\ s[1 + 1] = nx[s[1]]
      BY <3>1, <1>1, <1>2
    <3>3. QED BY <3>2, <1>1
  <2>3. QED BY <2>1, <2>2
<1>4. t[n] = nx[c]
  BY <1>1, <1>2
<1>5. ASSUME NEW i \in 1 .. n - 1 PROVE t[i + 1] = nx[t[i]]
  <2>1. i \in 1 .. n /\ i + 1 \in 1 .. n /\ i < n
    BY <1>1
  <2>2. t[i] = s[i + 1]
    BY <2>1, <1>2
  <2>3. CASE i + 1 < n
    <3>1. t[i + 1] = s[(i + 1) + 1] /\ i + 1 \in 1 .. n - 1
      BY <2>1, <2>3, <1>1, <1>2
    <3>2. QED BY <2>2, <3>1, <1>1
  <2>4. CASE i + 1 = n
    BY <2>1, <2>2, <2>4, <1>1, <1>2
  <2>5. QED BY <2>1, <2>3, <2>4, <1>1
<1>6. Turning(t, nx, nx[c], n)
  BY <1>1, <1>2, <1>3, <1>4, <1>5 DEF Turning
<1>7. QED BY <1>6 DEF t

(* A function on 1 .. m is a sequence of length m.                          *)
LEMMA SequenceOfLength ==
    ASSUME NEW V, NEW m \in Nat, NEW t \in [1 .. m -> V]
    PROVE  t \in Seq(V) /\ Len(t) = m
  OBVIOUS

(* The operators of ListOps on a walk of n nodes.                           *)
LEMMA InsertEndOfWalk ==
    ASSUME NEW s, NEW x, NEW n \in Nat \ {0}, Len(s) = n
    PROVE  Abstract!InsertEnd(s, x) = WithInserted(s, n - 1, x, n)
<1>1. ASSUME NEW i \in 1 .. n + 1
      PROVE  (IF i < n THEN s[i] ELSE IF i = n THEN x ELSE s[n])
             = (IF i <= n - 1 THEN s[i] ELSE IF i = (n - 1) + 1 THEN x ELSE s[i - 1])
  <2>1. CASE i < n
    BY <2>1
  <2>2. CASE i = n
    BY <2>2
  <2>3. CASE i > n
    <3>1. i - 1 = n
      BY <2>3
    <3>2. QED BY <2>3, <3>1
  <2>4. QED BY <2>1, <2>2, <2>3
<1>2. QED BY <1>1 DEF Abstract!InsertEnd, WithInserted

(* Without takes out the place the node is at.                              *)
LEMMA WithoutOfWalk ==
    ASSUME NEW s, NEW x, NEW n \in Nat \ {0}, Len(s) = n,
           NEW p \in 1 .. n, s[p] = x, \A i \in 1 .. n : s[i] = x => i = p
    PROVE  Abstract!Without(s, x) = WithoutPlace(s, p, n)
<1>1. Abstract!IndexOf(s, x) = p
  BY DEF Abstract!IndexOf
<1>2. QED BY <1>1 DEF Abstract!Without, WithoutPlace

(* Rotate moves the first node to the end.                                  *)
LEMMA RotateOfWalk ==
    ASSUME NEW s, NEW n \in Nat, Len(s) = n
    PROVE  Abstract!Rotate(s) = Rotated(s, n)
  BY DEF Abstract!Rotate, Rotated

(* x fits behind the first k of the m items of u.                           *)
PlaceFor(u, m, x, key, k) ==
    /\ m \in Nat /\ k \in 0 .. m
    /\ key[x] \in Int /\ \A i \in 1 .. m : key[u[i]] \in Int
    /\ k < m => key[u[k + 1]] > key[x]
    /\ \A j \in 1 .. k : key[u[j]] <= key[x]

(* The place that InsertInOrder chooses is the only one there is.           *)
LEMMA OnlyInsertPosition ==
    ASSUME NEW u, NEW m, Len(u) = m, NEW key, NEW x, NEW k,
           PlaceFor(u, m, x, key, k)
    PROVE  Abstract!InsertPosition(u, x, key) = k + 1
<1> USE DEF PlaceFor
<1> DEFINE Fits(i) == /\ i <= m => key[u[i]] > key[x]
                      /\ \A j \in 1 .. i - 1 : key[u[j]] <= key[x]
<1>1. k + 1 \in 1 .. m + 1 /\ Fits(k + 1)
  OBVIOUS
<1>2. ASSUME NEW i \in 1 .. m + 1, Fits(i) PROVE i = k + 1
  <2>1. CASE i < k + 1
    <3>1. i \in 1 .. k /\ i \in 1 .. m
      BY <2>1
    <3>2. key[u[i]] > key[x] /\ key[u[i]] <= key[x] /\ key[u[i]] \in Int
      BY <3>1, <1>2
    <3>3. QED BY <3>2
  <2>2. CASE i > k + 1
    <3>1. k + 1 \in 1 .. i - 1 /\ k + 1 \in 1 .. m /\ k < m
      BY <2>2
    <3>2. key[u[k + 1]] <= key[x] /\ key[u[k + 1]] > key[x] /\ key[u[k + 1]] \in Int
      BY <3>1, <1>2
    <3>3. QED BY <3>2
  <2>3. QED BY <2>1, <2>2
<1>3. (CHOOSE i \in 1 .. m + 1 : Fits(i)) = k + 1
  <2> HIDE DEF Fits
  <2>1. QED BY <1>1, <1>2
<1>4. Abstract!InsertPosition(u, x, key) = CHOOSE i \in 1 .. m + 1 : Fits(i)
  BY DEF Abstract!InsertPosition
<1>5. QED BY <1>3, <1>4

(* InsertInOrder on a walk without its marker.                              *)
LEMMA InsertInOrderOfWalk ==
    ASSUME NEW V, NEW s \in Seq(V), NEW n \in Nat \ {0}, Len(s) = n,
           NEW key, NEW x \in V, NEW k \in 0 .. n - 1, NEW l, s[n] = l,
           PlaceFor(s, n - 1, x, key, k)
    PROVE  Append(Abstract!InsertInOrder(SubSeq(s, 1, Len(s) - 1), x, key), l)
           = WithInserted(s, k, x, n)
<1> DEFINE u == SubSeq(s, 1, Len(s) - 1)
           m == n - 1
           v == [i \in 1 .. n |-> IF i < k + 1 THEN u[i]
                                  ELSE IF i = k + 1 THEN x ELSE u[i - 1]]
           t == WithInserted(s, k, x, n)
<1>1. /\ m \in Nat
      /\ \A i \in 1 .. n : s[i] \in V
  BY LenProperties
<1>2. u \in Seq(V) /\ Len(u) = m /\ \A i \in 1 .. m : u[i] = s[i]
  <2>1. \A i \in 1 .. m : s[i] \in V
    BY <1>1
  <2>2. m \in Int /\ 1 \in Int /\ u = SubSeq(s, 1, m)
    BY <1>1
  <2>3. /\ SubSeq(s, 1, m) \in Seq(V)
        /\ Len(SubSeq(s, 1, m)) = IF 1 <= m THEN m - 1 + 1 ELSE 0
        /\ \A i \in 1 .. m - 1 + 1 : SubSeq(s, 1, m)[i] = s[1 + i - 1]
    <3> HIDE DEF m
    <3>1. QED BY <2>1, <2>2, SubSeqProperties
  <2> HIDE DEF u
  <2>4. Len(u) = m
    BY <1>1, <2>2, <2>3
  <2>5. ASSUME NEW i \in 1 .. m PROVE u[i] = s[i]
    <3>1. i \in 1 .. m - 1 + 1 /\ 1 + i - 1 = i
      BY <1>1
    <3>2. QED BY <2>2, <2>3, <3>1
  <2>6. QED BY <2>2, <2>3, <2>4, <2>5
<1> HIDE DEF u
<1>3. Abstract!InsertPosition(u, x, key) = k + 1
  <2>1. PlaceFor(u, m, x, key, k)
    BY <1>1, <1>2 DEF PlaceFor
  <2> HIDE DEF m
  <2>2. QED BY <1>2, <2>1, OnlyInsertPosition
<1>4. Abstract!InsertInOrder(u, x, key) = v
  <2>1. Len(u) + 1 = n
    BY <1>2
  <2>2. QED BY <1>3, <2>1 DEF Abstract!InsertInOrder
<1>5. \A i \in 1 .. n : v[i] = (IF i < k + 1 THEN s[i]
                                ELSE IF i = k + 1 THEN x ELSE s[i - 1])
  <2> TAKE i \in 1 .. n
  <2>1. CASE i < k + 1
    <3>1. i \in 1 .. m
      BY <2>1
    <3>2. QED BY <2>1, <3>1, <1>2
  <2>2. CASE i = k + 1
    BY <2>2
  <2>3. CASE i > k + 1
    <3>1. i - 1 \in 1 .. m
      BY <2>3
    <3>2. QED BY <2>3, <3>1, <1>2
  <2>4. QED BY <2>1, <2>2, <2>3
<1>0. v = [i \in 1 .. n |-> v[i]]
  OBVIOUS
<1> HIDE DEF v
<1>6. \A i \in 1 .. n : v[i] \in V
  <2> TAKE i \in 1 .. n
  <2>1. i > k + 1 => i - 1 \in 1 .. n
    OBVIOUS
  <2>2. QED BY <2>1, <1>1, <1>5
<1>7. v \in Seq(V) /\ Len(v) = n
  <2>1. v \in [1 .. n -> V]
    BY <1>0, <1>6
  <2>2. QED BY <2>1, SequenceOfLength
<1>8. l \in V /\ s[n] = l
  BY <1>1
<1>9. /\ t = [i \in 1 .. n + 1 |-> t[i]]
      /\ \A i \in 1 .. n + 1 :
            t[i] = IF i <= k THEN s[i] ELSE IF i = k + 1 THEN x ELSE s[i - 1]
  BY DEF WithInserted
<1> HIDE DEF t
<1>10. /\ Append(v, l) \in Seq(V) /\ Len(Append(v, l)) = n + 1
       /\ \A i \in 1 .. n : Append(v, l)[i] = v[i]
       /\ Append(v, l)[n + 1] = l
  BY <1>7, <1>8
<1>11. \A i \in 1 .. n + 1 : t[i] = Append(v, l)[i]
  <2> TAKE i \in 1 .. n + 1
  <2>1. CASE i = n + 1
    <3>1. t[i] = s[n]
      BY <2>1, <1>9
    <3>2. QED BY <2>1, <3>1, <1>8, <1>10
  <2>2. CASE i # n + 1
    <3>1. i \in 1 .. n
      BY <2>2
    <3>2. Append(v, l)[i] = v[i]
      BY <3>1, <1>10
    <3>3. QED BY <3>1, <3>2, <1>5, <1>9
  <2>3. QED BY <2>1, <2>2
<1>12. t \in Seq(V) /\ Len(t) = n + 1
  <2>1. \A i \in 1 .. n + 1 : t[i] \in V
    BY <1>10, <1>11
  <2>2. t \in [1 .. n + 1 -> V]
    BY <2>1, <1>9
  <2>3. QED BY <2>2, SequenceOfLength
<1>13. t = Append(v, l)
  BY <1>10, <1>11, <1>12, SeqEqual
<1>14. QED BY <1>4, <1>13 DEF u, t
-----------------------------------------------------------------------------
(* The cursor of a list that vListInsert fills never leaves the marker.     *)
CursorsStay == \A l \in OrderedList : pxIndex[l] = l

RingInv ==
    /\ TypeOK
    /\ RingsOK
    /\ SearchIsOnTheList
    /\ LengthIsExact
    /\ CursorsStay

(* Walk is WalkOf of the current links.                                     *)
LEMMA WalkIsWalkOf ==
    ASSUME NEW l, NEW n \in Nat, uxNumberOfItems[l] + 1 = n
    PROVE  Walk(l) = WalkOf(pxNext, pxIndex[l], n)
<1>1. Walk(l) = [i \in 1 .. n |-> WalkOf(pxNext, pxIndex[l], n)[i]]
  <2> DEFINE m == uxNumberOfItems[l] + 1
  <2>1. Walk(l) = [i \in 1 .. m |-> WalkOf(pxNext, pxIndex[l], m)[i]]
    BY DEF Walk, WalkOf, LinksTo
  <2>2. QED BY <2>1
<1>2. Follows(WalkOf(pxNext, pxIndex[l], n), pxNext, pxIndex[l], n)
  BY WalkOfFollows
<1>3. WalkOf(pxNext, pxIndex[l], n) = [i \in 1 .. n |-> WalkOf(pxNext, pxIndex[l], n)[i]]
  BY <1>2 DEF Follows
<1>4. QED BY <1>1, <1>3

(* A sequence that follows the links of the next state is the next walk.    *)
LEMMA NextWalk ==
    ASSUME NEW l, NEW n \in Nat, uxNumberOfItems'[l] + 1 = n,
           NEW t, Follows(t, pxNext', pxIndex'[l], n)
    PROVE  Walk(l)' = t
<1>1. Walk(l)' = [i \in 1 .. n |-> WalkOf(pxNext', pxIndex'[l], n)[i]]
  <2> DEFINE m == uxNumberOfItems'[l] + 1
  <2>1. Walk(l)' = [i \in 1 .. m |-> WalkOf(pxNext', pxIndex'[l], m)[i]]
    BY DEF Walk, WalkOf, LinksTo
  <2>2. QED BY <2>1
<1>2. Follows(WalkOf(pxNext', pxIndex'[l], n), pxNext', pxIndex'[l], n)
  BY WalkOfFollows
<1>3. t = WalkOf(pxNext', pxIndex'[l], n)
  BY <1>2, FollowsIsUnique
<1>4. t = [i \in 1 .. n |-> t[i]]
  BY DEF Follows
<1>5. QED BY <1>1, <1>3, <1>4

(* The walk of a list visits each of its nodes once, its cursor last.       *)
LEMMA WalkOfList ==
    ASSUME RingInv, NEW l \in List, NEW n, n = Cardinality(NodesOf(l))
    PROVE  /\ RingWalk(Walk(l), pxNext, pxIndex[l], NodesOf(l))
           /\ n \in Nat \ {0} /\ n = uxNumberOfItems[l] + 1
           /\ Walk(l) \in [1 .. n -> Node]
           /\ Walk(l) \in Seq(Node) /\ Len(Walk(l)) = n
           /\ Abstract!Elements(Walk(l)) = NodesOf(l)
           /\ Turning(Walk(l), pxNext, pxIndex[l], n)
           /\ Follows(Walk(l), pxNext, pxIndex[l], n)
<1>1. /\ IsFiniteSet(ItemsOf(l)) /\ l \notin ItemsOf(l)
      /\ NodesOf(l) = ItemsOf(l) \cup {l}
  BY ItemsFinite, ListAssumption DEF ItemsOf, NodesOf, List
<1>2. /\ IsFiniteSet(NodesOf(l)) /\ Cardinality(ItemsOf(l)) \in Nat
      /\ n = Cardinality(ItemsOf(l)) + 1
  BY <1>1, FS_AddElement, FS_CardinalityType
<1>3. n = uxNumberOfItems[l] + 1 /\ n \in Nat \ {0}
  BY <1>2 DEF RingInv, LengthIsExact
<1>4. /\ pxIndex[l] \in NodesOf(l) /\ l \in NodesOf(l)
      /\ Closed(NodesOf(l), pxNext, pxPrevious)
      /\ Connected(NodesOf(l), l, pxNext)
  BY DEF RingInv, RingsOK, NodesOf
<1>5. Follows(Walk(l), pxNext, pxIndex[l], n)
  <2>1. Walk(l) = WalkOf(pxNext, pxIndex[l], n)
    <3>1. uxNumberOfItems[l] + 1 = n /\ n \in Nat
      BY <1>3
    <3>2. QED BY <3>1, WalkIsWalkOf
  <2>2. Follows(WalkOf(pxNext, pxIndex[l], n), pxNext, pxIndex[l], n)
    BY <1>3, WalkOfFollows
  <2>3. QED BY <2>1, <2>2
<1>6. RingWalk(Walk(l), pxNext, pxIndex[l], NodesOf(l))
  <2>1. Follows(Walk(l), pxNext, pxIndex[l], Cardinality(NodesOf(l)))
    BY <1>5
  <2>2. QED BY <2>1, <1>2, <1>4, WalkIsRound
<1>7. /\ Walk(l) \in [1 .. n -> NodesOf(l)]
      /\ \A y \in NodesOf(l) : \E i \in 1 .. n : Walk(l)[i] = y
  BY <1>6 DEF RingWalk
<1>8. Walk(l) \in [1 .. n -> Node]
  <2>1. NodesOf(l) \subseteq Node
    BY <1>1 DEF ItemsOf, Node, List
  <2> HIDE DEF Walk
  <2>2. QED BY <2>1, <1>7
<1>9. Walk(l) \in Seq(Node) /\ Len(Walk(l)) = n
  BY <1>3, <1>8, SequenceOfLength
<1>10. Abstract!Elements(Walk(l)) = NodesOf(l)
  BY <1>7, <1>9 DEF Abstract!Elements
<1>11. Turning(Walk(l), pxNext, pxIndex[l], n)
  <2>1. Walk(l) = [i \in 1 .. n |-> Walk(l)[i]]
    BY <1>5 DEF Follows
  <2>2. /\ Walk(l)[1] = pxNext[pxIndex[l]] /\ Walk(l)[n] = pxIndex[l]
        /\ \A i \in 1 .. n - 1 : Walk(l)[i + 1] = pxNext[Walk(l)[i]]
    BY <1>6 DEF RingWalk
  <2>3. QED BY <2>1, <2>2, <1>3 DEF Turning
<1>12. QED BY <1>3, <1>5, <1>6, <1>8, <1>9, <1>10, <1>11

(* A list whose links, cursor and length stay keeps its walk.               *)
LEMMA SameWalk ==
    ASSUME RingInv, NEW l \in List, \A y \in NodesOf(l) : pxNext'[y] = pxNext[y],
           pxIndex'[l] = pxIndex[l], uxNumberOfItems'[l] = uxNumberOfItems[l]
    PROVE  Walk(l)' = Walk(l)
<1> DEFINE n == Cardinality(NodesOf(l))
           s == Walk(l)
<1>1. /\ RingWalk(s, pxNext, pxIndex[l], NodesOf(l)) /\ n \in Nat \ {0}
      /\ n = uxNumberOfItems[l] + 1 /\ Follows(s, pxNext, pxIndex[l], n)
      /\ pxIndex[l] \in NodesOf(l)
  BY WalkOfList DEF RingInv, RingsOK
<1>2. /\ s = [i \in 1 .. n |-> s[i]] /\ \A i \in 1 .. n : s[i] \in NodesOf(l)
      /\ s[1] = pxNext[pxIndex[l]]
      /\ \A i \in 1 .. n - 1 : s[i + 1] = pxNext[s[i]]
  <2>1. s = [i \in 1 .. n |-> s[i]]
    BY <1>1 DEF Follows
  <2>2. QED BY <1>1, <2>1 DEF RingWalk
<1> HIDE DEF s, n
<1>3. \A i \in 1 .. n - 1 : s[i + 1] = pxNext'[s[i]]
  <2> TAKE i \in 1 .. n - 1
  <2>1. i \in 1 .. n
    BY <1>1
  <2>2. QED BY <2>1, <1>2
<1>4. Follows(s, pxNext', pxIndex'[l], n)
  <2>1. s[1] = pxNext'[pxIndex'[l]]
    BY <1>1, <1>2
  <2>2. s = [i \in 1 .. n |-> s[i]]
    BY <1>2
  <2>3. QED BY <1>1, <1>3, <2>1, <2>2, FollowsBySteps
<1>5. Walk(l)' = s
  BY <1>1, <1>4, NextWalk
<1>6. QED BY <1>5 DEF s

(* The nodes of two lists are different ones.                               *)
LEMMA ListsAreApart ==
    ASSUME NEW l \in List, NEW m \in List, m # l
    PROVE  NodesOf(m) \cap NodesOf(l) = {}
  BY ListAssumption DEF NodesOf, ItemsOf, List

(* LinkBetween behind the first k nodes of a walk.                          *)
LEMMA LinkWalks ==
    ASSUME RingInv, NEW l \in List, NEW x \in Item, pxContainer[x] = NULL,
           NEW n, n = Cardinality(NodesOf(l)), NEW k \in 0 .. n - 1, NEW b,
           b = IF k = 0 THEN pxIndex[l] ELSE Walk(l)[k],
           LinkBetween(l, x, b, pxNext[b]), UNCHANGED pxIndex
    PROVE  /\ Walk(l)' = WithInserted(Walk(l), k, x, n)
           /\ \A m \in List : m # l => Walk(m)' = Walk(m)
<1>1. /\ RingWalk(Walk(l), pxNext, pxIndex[l], NodesOf(l))
      /\ n \in Nat \ {0} /\ n = uxNumberOfItems[l] + 1
      /\ pxIndex[l] \in NodesOf(l)
  BY WalkOfList DEF RingInv, RingsOK
<1>2. /\ x \in Node /\ \A m \in List : x \notin NodesOf(m)
      /\ \A m \in List : NodesOf(m) \subseteq Node
      /\ pxNext \in [Node -> Node] /\ uxNumberOfItems \in [List -> Int]
      /\ pxNext' = [pxNext EXCEPT ![x] = pxNext[b], ![b] = x]
      /\ uxNumberOfItems' = [uxNumberOfItems EXCEPT ![l] = @ + 1]
      /\ pxIndex' = pxIndex
  BY ListAssumption DEF RingInv, TypeOK, Node, List, NodesOf, ItemsOf, LinkBetween
<1>3. b \in NodesOf(l)
  BY <1>1 DEF RingWalk
<1>4. Walk(l)' = WithInserted(Walk(l), k, x, n)
  <2>1. Follows(WithInserted(Walk(l), k, x, n),
                [pxNext EXCEPT ![x] = pxNext[b], ![b] = x], pxIndex[l], n + 1)
    <3>1. PICK s : s = Walk(l)
      OBVIOUS
    <3>2. x \in Node \ NodesOf(l) /\ NodesOf(l) \in SUBSET Node
      BY <1>2
    <3>3. Follows(WithInserted(s, k, x, n),
                  [pxNext EXCEPT ![x] = pxNext[b], ![b] = x], pxIndex[l], n + 1)
      BY <1>1, <1>2, <3>1, <3>2, InsertFollows
    <3>4. QED BY <3>1, <3>3
  <2>2. uxNumberOfItems'[l] + 1 = n + 1 /\ n + 1 \in Nat
    BY <1>1, <1>2
  <2>3. QED BY <2>1, <2>2, <1>2, NextWalk
<1>5. ASSUME NEW m \in List, m # l PROVE Walk(m)' = Walk(m)
  <2>1. \A y \in NodesOf(m) : y \in Node /\ y # x /\ y # b
    BY <1>2, <1>3, <1>5, ListsAreApart
  <2>2. \A y \in NodesOf(m) : pxNext'[y] = pxNext[y]
    BY <2>1, <1>2
  <2>3. uxNumberOfItems'[m] = uxNumberOfItems[m]
    BY <1>2, <1>5
  <2>4. QED BY <2>2, <2>3, <1>2, SameWalk
<1>6. QED BY <1>4, <1>5

(* uxListRemove on the walks.                                               *)
LEMMA RemoveWalks ==
    ASSUME RingInv, NEW x \in Item, uxListRemove(x),
           NEW l \in List, l = pxContainer[x], NEW n, n = Cardinality(NodesOf(l)),
           NEW p \in 1 .. n, Walk(l)[p] = x
    PROVE  /\ n > 1
           /\ Walk(l)' = WithoutPlace(Walk(l), p, n)
           /\ \A m \in List : m # l => Walk(m)' = Walk(m)
<1> DEFINE b == pxPrevious[x]
<1>1. /\ RingWalk(Walk(l), pxNext, pxIndex[l], NodesOf(l))
      /\ n \in Nat \ {0} /\ n = uxNumberOfItems[l] + 1
      /\ pxIndex[l] \in NodesOf(l)
      /\ Closed(NodesOf(l), pxNext, pxPrevious)
  BY WalkOfList DEF RingInv, RingsOK
<1>2. /\ x \in NodesOf(l) /\ l \in NodesOf(l) /\ x # l
      /\ \A m \in List : NodesOf(m) \subseteq Node
      /\ pxNext \in [Node -> Node] /\ uxNumberOfItems \in [List -> Int]
      /\ pxIndex \in [List -> Node]
      /\ pxNext' = [pxNext EXCEPT ![b] = pxNext[x]]
      /\ uxNumberOfItems' = [uxNumberOfItems EXCEPT ![l] = @ - 1]
      /\ pxIndex' = [pxIndex EXCEPT ![l] = IF @ = x THEN b ELSE @]
  BY ListAssumption
     DEF RingInv, TypeOK, Node, List, NodesOf, ItemsOf, uxListRemove
<1>3. b \in NodesOf(l) /\ pxNext[b] = x
  BY <1>1, <1>2 DEF Closed
<1> HIDE DEF b
<1>4. n > 1
  <2>1. PICK i \in 1 .. n : Walk(l)[i] = l
    BY <1>1, <1>2 DEF RingWalk
  <2>2. i # p
    BY <2>1, <1>2
  <2>3. QED BY <2>2, <1>1
<1>5. Walk(l)' = WithoutPlace(Walk(l), p, n)
  <2>1. PICK s : s = Walk(l)
    OBVIOUS
  <2>2. NodesOf(l) \in SUBSET Node /\ pxNext[b] = s[p]
    BY <2>1, <1>2, <1>3
  <2>3. Follows(WithoutPlace(s, p, n), [pxNext EXCEPT ![b] = pxNext[s[p]]],
                IF pxIndex[l] = s[p] THEN b ELSE pxIndex[l], n - 1)
    BY <1>1, <1>2, <1>3, <1>4, <2>1, <2>2, RemoveFollows
  <2>4. /\ pxIndex'[l] = IF pxIndex[l] = s[p] THEN b ELSE pxIndex[l]
        /\ pxNext' = [pxNext EXCEPT ![b] = pxNext[s[p]]]
        /\ uxNumberOfItems'[l] + 1 = n - 1 /\ n - 1 \in Nat
    <3>1. x = s[p]
      BY <2>1
    <3>2. pxIndex'[l] = IF pxIndex[l] = x THEN b ELSE pxIndex[l]
      BY <1>2
    <3>3. uxNumberOfItems'[l] + 1 = n - 1 /\ n - 1 \in Nat
      BY <1>1, <1>2
    <3>4. QED BY <1>2, <3>1, <3>2, <3>3
  <2>5. Follows(WithoutPlace(s, p, n), pxNext', pxIndex'[l], n - 1)
    BY <2>3, <2>4
  <2>6. QED BY <2>1, <2>4, <2>5, NextWalk
<1>6. ASSUME NEW m \in List, m # l PROVE Walk(m)' = Walk(m)
  <2>1. \A y \in NodesOf(m) : y \in Node /\ y # b
    BY <1>2, <1>3, <1>6, ListsAreApart
  <2>2. \A y \in NodesOf(m) : pxNext'[y] = pxNext[y]
    BY <2>1, <1>2
  <2>3. /\ uxNumberOfItems'[m] = uxNumberOfItems[m]
        /\ pxIndex'[m] = pxIndex[m]
    BY <1>2, <1>6
  <2>4. QED BY <2>2, <2>3, SameWalk
<1>7. QED BY <1>4, <1>5, <1>6

(* listGET_OWNER_OF_NEXT_ENTRY on the walks.                                *)
LEMMA NextEntryWalks ==
    ASSUME RingInv, NEW l \in RoundRobinList, listGET_OWNER_OF_NEXT_ENTRY(l),
           NEW n, n = Cardinality(NodesOf(l)), NEW t,
           t = IF Walk(l)[1] = l THEN Rotated(Rotated(Walk(l), n), n)
                                 ELSE Rotated(Walk(l), n)
    PROVE  /\ n > 1 /\ Walk(l)' = t
           /\ \A m \in List : m # l => Walk(m)' = Walk(m)
<1>0. l \in List
  BY DEF List
<1>1. /\ Turning(Walk(l), pxNext, pxIndex[l], n)
      /\ n \in Nat \ {0} /\ n = uxNumberOfItems[l] + 1
      /\ uxNumberOfItems \in [List -> Int] /\ pxIndex \in [List -> Node]
  BY <1>0, WalkOfList DEF RingInv, TypeOK
<1>2. /\ uxNumberOfItems[l] > 0 /\ pxNext' = pxNext
      /\ uxNumberOfItems' = uxNumberOfItems
      /\ pxIndex' = [pxIndex EXCEPT ![l] = NextEntry(l)]
  BY DEF listGET_OWNER_OF_NEXT_ENTRY
<1>3. n > 1
  BY <1>0, <1>1, <1>2
<1>4. Turning(t, pxNext, NextEntry(l), n)
  <2>1. Turning(Rotated(Walk(l), n), pxNext, pxNext[pxIndex[l]], n)
    BY <1>1, RotateTurns
  <2>2. Turning(Rotated(Rotated(Walk(l), n), n), pxNext,
                pxNext[pxNext[pxIndex[l]]], n)
    BY <2>1, RotateTurns
  <2>3. Walk(l)[1] = pxNext[pxIndex[l]]
    BY <1>1 DEF Turning
  <2>4. QED BY <2>1, <2>2, <2>3 DEF NextEntry
<1>5. Follows(t, pxNext', pxIndex'[l], n)
  <2>1. NextEntry(l) = pxIndex'[l]
    BY <1>0, <1>1, <1>2
  <2>2. QED BY <1>1, <1>2, <1>4, <2>1, FollowsBySteps DEF Turning
<1>6. Walk(l)' = t
  BY <1>1, <1>2, <1>5, NextWalk
<1>7. ASSUME NEW m \in List, m # l PROVE Walk(m)' = Walk(m)
  BY <1>1, <1>2, <1>7, SameWalk
<1>8. QED BY <1>3, <1>6, <1>7
-----------------------------------------------------------------------------
(* The sequences of ListSpec after a step that changes one list, or none.   *)
Rings == [l \in List |-> Walk(l)]

(* A step of one list is an update of one sequence.                         *)
LEMMA OneRingChanges ==
    ASSUME NEW l \in List, NEW t, Walk(l)' = t,
           \A m \in List : m # l => Walk(m)' = Walk(m)
    PROVE  Rings' = [Rings EXCEPT ![l] = t]
<1>1. Rings' = [m \in List |-> Walk(m)'] /\ Rings = [m \in List |-> Walk(m)]
  BY DEF Rings
<1>2. \A m \in List : Walk(m)' = [Rings EXCEPT ![l] = t][m]
  BY <1>1
<1>3. QED BY <1>1, <1>2

(* A step that leaves the links alone changes no sequence.                  *)
LEMMA NoRingChanges ==
    ASSUME RingInv, UNCHANGED <<pxNext, pxIndex, uxNumberOfItems>>
    PROVE  Rings' = Rings
<1>1. \A m \in List : Walk(m)' = Walk(m)
  BY SameWalk
<1>2. QED BY <1>1 DEF Rings

(* An item that is in no list is in no sequence.                            *)
LEMMA FreeItem ==
    ASSUME RingInv, NEW x \in Item, pxContainer[x] = NULL
    PROVE  Abstract!Free(x)
<1>1. ASSUME NEW l \in List PROVE x \notin Abstract!Elements(Walk(l))
  <2>1. x \notin NodesOf(l)
    BY ListAssumption DEF NodesOf, ItemsOf, Node, List
  <2>2. QED BY <2>1, WalkOfList
<1>2. QED BY <1>1 DEF Abstract!Free, Abstract!SpecList, List

(* The items of an ordered list come in front of its marker in the walk.    *)
LEMMA MarkerIsLast ==
    ASSUME RingInv, NEW l \in OrderedList, NEW n, n = Cardinality(NodesOf(l))
    PROVE  /\ Walk(l)[n] = l
           /\ \A i \in 1 .. n - 1 : /\ Walk(l)[i] \in ItemsOf(l)
                                    /\ xItemValue[Walk(l)[i]] \in TickType
<1> DEFINE s == Walk(l)
<1>0. l \in List /\ pxIndex[l] = l /\ l \notin Item
  BY ListAssumption DEF List, RingInv, CursorsStay
<1>1. /\ RingWalk(s, pxNext, l, NodesOf(l)) /\ n \in Nat \ {0}
  BY <1>0, WalkOfList
<1>2. /\ s[n] = l
      /\ \A i \in 1 .. n : s[i] \in NodesOf(l)
      /\ \A i, j \in 1 .. n : s[i] = s[j] => i = j
  BY <1>1 DEF RingWalk
<1> HIDE DEF s
<1>3. ASSUME NEW i \in 1 .. n - 1
      PROVE  s[i] \in ItemsOf(l) /\ xItemValue[s[i]] \in TickType
  <2>1. i \in 1 .. n /\ n \in 1 .. n /\ i # n
    BY <1>1
  <2>2. s[i] # l /\ s[i] \in NodesOf(l)
    BY <2>1, <1>2
  <2>3. s[i] \in ItemsOf(l) /\ s[i] \in Item
    BY <2>2 DEF NodesOf, ItemsOf
  <2>4. QED BY <2>3, ListAssumption DEF RingInv, TypeOK
<1>4. QED BY <1>2, <1>3 DEF s

(* The node b of the ordered list l is reached over keys that x may follow. *)
Passed(l, x, b) ==
    \E k \in 0 .. Cardinality(NodesOf(l)) - 1 :
        /\ b = IF k = 0 THEN l ELSE Walk(l)[k]
        /\ \A j \in 1 .. k : xItemValue[Walk(l)[j]] <= xItemValue[x]

(* The search has compared every key up to its iterator, in a list that is  *)
(* sorted or not.                                                           *)
Searches(l, x, b) ==
    search # NULL /\ search = [list |-> l, item |-> x, pxIterator |-> b]
SearchPassed ==
    \A l \in OrderedList, x \in Item, b \in Node : Searches(l, x, b) => Passed(l, x, b)

(* The marker is where the search starts.                                   *)
LEMMA StartPassed ==
    ASSUME RingInv, NEW l \in OrderedList, NEW x
    PROVE  Passed(l, x, l)
<1>1. l \in List
  BY DEF List
<1>2. Cardinality(NodesOf(l)) \in Nat \ {0}
  BY <1>1, WalkOfList
<1>3. 0 \in 0 .. Cardinality(NodesOf(l)) - 1
  BY <1>2
<1>4. QED BY <1>3 DEF Passed

(* A step that leaves the lists and keys alone leaves what was passed.      *)
LEMMA SamePassed ==
    ASSUME RingInv, NEW l \in OrderedList, NEW x, NEW b, Passed(l, x, b),
           UNCHANGED <<pxNext, pxContainer, uxNumberOfItems, pxIndex, xItemValue>>
    PROVE  Passed(l, x, b)'
<1>1. Walk(l)' = Walk(l)
  BY SameWalk DEF List
<1>2. NodesOf(l)' = NodesOf(l)
  BY DEF NodesOf, ItemsOf
<1>3. QED BY <1>1, <1>2 DEF Passed

(* Each iteration of the search passes one more key.                        *)
LEMMA NextPassed ==
    ASSUME RingInv, NEW l \in OrderedList, NEW x \in Item, NEW b, Passed(l, x, b),
           pxNext[b] # l, xItemValue[pxNext[b]] <= xItemValue[x]
    PROVE  Passed(l, x, pxNext[b])
<1>1. PICK n : n = Cardinality(NodesOf(l))
  OBVIOUS
<1>2. PICK s : s = Walk(l)
  OBVIOUS
<1>3. l \in List /\ pxIndex[l] = l
  BY DEF List, RingInv, CursorsStay
<1>4. RingWalk(s, pxNext, l, NodesOf(l)) /\ n \in Nat \ {0}
  BY <1>1, <1>2, <1>3, WalkOfList
<1>5. s[n] = l /\ s[1] = pxNext[l] /\ \A i \in 1 .. n - 1 : s[i + 1] = pxNext[s[i]]
  BY <1>1, <1>4 DEF RingWalk
<1>6. PICK k \in 0 .. n - 1 : /\ b = IF k = 0 THEN l ELSE s[k]
                             /\ \A j \in 1 .. k : xItemValue[s[j]] <= xItemValue[x]
  BY <1>1, <1>2 DEF Passed
<1>7. s[k + 1] = pxNext[b]
  <2>1. CASE k = 0
    BY <2>1, <1>5, <1>6
  <2>2. CASE k # 0
    <3>1. k \in 1 .. n - 1
      BY <2>2, <1>4
    <3>2. QED BY <2>2, <3>1, <1>5, <1>6
  <2>3. QED BY <2>1, <2>2
<1>8. k + 1 \in 0 .. n - 1 /\ k + 1 # 0
  BY <1>4, <1>5, <1>7
<1>9. \A j \in 1 .. k + 1 : xItemValue[s[j]] <= xItemValue[x]
  <2> TAKE j \in 1 .. k + 1
  <2>1. j \in 1 .. k \/ j = k + 1
    BY <1>4
  <2>2. QED BY <2>1, <1>6, <1>7
<1>10. QED BY <1>1, <1>2, <1>7, <1>8, <1>9 DEF Passed

(* A key of portMAX_DELAY may follow every node.                            *)
LEMMA AllPassed ==
    ASSUME RingInv, NEW l \in OrderedList, NEW x \in Item,
           xItemValue[x] = portMAX_DELAY, NEW b \in NodesOf(l)
    PROVE  Passed(l, x, b)
<1>1. PICK n : n = Cardinality(NodesOf(l))
  OBVIOUS
<1>2. PICK s : s = Walk(l)
  OBVIOUS
<1>3. l \in List /\ pxIndex[l] = l
  BY DEF List, RingInv, CursorsStay
<1>4. RingWalk(s, pxNext, l, NodesOf(l)) /\ n \in Nat \ {0}
  BY <1>1, <1>2, <1>3, WalkOfList
<1>5. s[n] = l /\ \A y \in NodesOf(l) : \E i \in 1 .. n : s[i] = y
  BY <1>1, <1>4 DEF RingWalk
<1>6. CASE b = l
  BY <1>6, StartPassed
<1>7. CASE b # l
  <2>1. PICK i \in 1 .. n : s[i] = b
    BY <1>5
  <2>2. i \in 0 .. n - 1 /\ i # 0
    BY <1>7, <2>1, <1>4, <1>5
  <2>3. \A j \in 1 .. i : xItemValue[s[j]] <= xItemValue[x]
    <3> TAKE j \in 1 .. i
    <3>1. j \in 1 .. n - 1
      BY <2>2, <1>4
    <3>2. xItemValue[s[j]] \in TickType
      BY <3>1, <1>1, <1>2, MarkerIsLast
    <3>3. QED BY <3>2, ListAssumption DEF TickType
  <2>4. QED BY <1>1, <1>2, <2>1, <2>2, <2>3 DEF Passed
<1>8. QED BY <1>6, <1>7

(* So the search keeps what it has passed until it links its item.          *)
LEMMA StepKeepsPassed ==
    RingInv /\ SearchPassed /\ [Next]_vars => SearchPassed'
<1> SUFFICES ASSUME RingInv, SearchPassed, [Next]_vars,
                    NEW l \in OrderedList, NEW x \in Item, NEW b \in Node,
                    Searches(l, x, b)'
             PROVE  Passed(l, x, b)'
  BY DEF SearchPassed
<1>0. search' = [list |-> l, item |-> x, pxIterator |-> b] /\ search' # NULL
  BY DEF Searches
<1>1. ASSUME NEW m \in OrderedList, NEW y \in Item, vListInsert(m, y)
      PROVE  Passed(l, x, b)'
  <2>1. /\ search' = [list |-> m, item |-> y, pxIterator |-> m]
        /\ UNCHANGED <<pxNext, pxContainer, uxNumberOfItems, pxIndex, xItemValue>>
    BY <1>0, <1>1 DEF vListInsert, Idle
  <2>2. m = l /\ b = l
    BY <1>0, <2>1
  <2>3. QED BY <2>1, <2>2, StartPassed, SamePassed
<1>2. ASSUME vListInsertLoop
      PROVE  Passed(l, x, b)'
  <2>1. PICK m \in OrderedList, y \in Item, i \in Node :
           search = [list |-> m, item |-> y, pxIterator |-> i]
    BY <1>2 DEF vListInsertLoop, RingInv, TypeOK
  <2>2. /\ search' = [list |-> m, item |-> y, pxIterator |-> pxNext[i]]
        /\ UNCHANGED <<pxNext, pxContainer, uxNumberOfItems, pxIndex, xItemValue>>
        /\ ValueOf(pxNext[i]) <= xItemValue[y] /\ search # NULL
    BY <1>2, <2>1 DEF vListInsertLoop, KeepSearching
  <2>3. m = l /\ y = x /\ pxNext[i] = b
    BY <1>0, <2>2
  <2>4. xItemValue[x] < portMAX_DELAY /\ i \in NodesOf(l)
    BY <2>1, <2>2, <2>3 DEF RingInv, SearchIsOnTheList
  <2>5. Passed(l, x, i)
    BY <2>1, <2>2, <2>3 DEF SearchPassed, Searches
  <2>6. pxNext[i] # l /\ xItemValue[pxNext[i]] <= xItemValue[x]
    <3>1. pxNext[i] \in NodesOf(l) /\ l \in List
      BY <2>4 DEF RingInv, RingsOK, Closed, List
    <3>2. pxNext[i] # l
      <4>1. ValueOf(l) = portMAX_DELAY
        BY <3>1 DEF ValueOf
      <4>2. xItemValue[x] \in Int /\ portMAX_DELAY \in Int
        BY ListAssumption DEF RingInv, TypeOK, TickType
      <4>3. QED BY <4>1, <4>2, <2>2, <2>3, <2>4
    <3>3. pxNext[i] \notin List
      BY <3>1, <3>2, ListAssumption DEF NodesOf, ItemsOf
    <3>4. QED BY <2>2, <2>3, <3>2, <3>3 DEF ValueOf
  <2>7. Passed(l, x, b)
    BY <2>3, <2>5, <2>6, NextPassed
  <2>8. QED BY <2>2, <2>7, SamePassed
<1>3. ASSUME UNCHANGED vars
      PROVE  Passed(l, x, b)'
  <2>1. Passed(l, x, b)
    BY <1>0, <1>3 DEF SearchPassed, Searches, vars
  <2>2. QED BY <1>3, <2>1, SamePassed DEF vars
<1>4. QED
  BY <1>0, <1>1, <1>2, <1>3
     DEF Next, Idle, listSET_LIST_ITEM_VALUE, vListInsertEnd,
         vListInsertLink, uxListRemove, listGET_OWNER_OF_NEXT_ENTRY

(* The initial rings are the initial sequences.                             *)
LEMMA InitRefines == Init /\ RingInv => Abstract!SpecInit
<1> SUFFICES ASSUME Init, RingInv PROVE Abstract!SpecInit
  OBVIOUS
<1>1. ASSUME NEW l \in List PROVE Walk(l) = <<l>>
  <2>1. NodesOf(l) = {l} /\ Cardinality(NodesOf(l)) = 1 /\ l \in Node
    <3>1. NodesOf(l) = {l} /\ l \in Node
      BY ListAssumption DEF Init, NodesOf, ItemsOf, Node
    <3>2. QED BY <3>1, FS_Singleton
  <2>2. PICK n : n = Cardinality(NodesOf(l))
    OBVIOUS
  <2>3. /\ Walk(l) \in Seq(Node) /\ Len(Walk(l)) = n
        /\ RingWalk(Walk(l), pxNext, pxIndex[l], NodesOf(l))
    BY <2>2, WalkOfList
  <2>4. Walk(l)[1] = l
    BY <2>1, <2>3 DEF RingWalk, Init
  <2>5. <<l>> \in Seq(Node) /\ Len(<<l>>) = 1 /\ <<l>>[1] = l
    BY <2>1
  <2>6. \A i \in 1 .. Len(Walk(l)) : Walk(l)[i] = <<l>>[i]
    BY <2>1, <2>2, <2>3, <2>4, <2>5
  <2>7. Len(Walk(l)) = Len(<<l>>)
    BY <2>1, <2>2, <2>3, <2>5
  <2>8. QED BY <2>3, <2>5, <2>6, <2>7, SeqEqual
<1>2. [l \in List |-> Walk(l)] = [l \in OrderedList \cup RoundRobinList |-> <<l>>]
  BY <1>1 DEF List
<1>3. QED BY <1>2 DEF Abstract!SpecInit, Abstract!SpecList, Init

(* vListInsertEnd adds to the end of a round.                               *)
LEMMA InsertEndRefines ==
    ASSUME RingInv, NEW l \in RoundRobinList, NEW x \in Item, vListInsertEnd(l, x)
    PROVE  Abstract!AddLast(l, x)
<1>0. l \in List
  BY DEF List
<1>1. PICK n : n = Cardinality(NodesOf(l))
  OBVIOUS
<1>2. /\ RingWalk(Walk(l), pxNext, pxIndex[l], NodesOf(l))
      /\ n \in Nat \ {0} /\ Len(Walk(l)) = n
      /\ Closed(NodesOf(l), pxNext, pxPrevious) /\ pxIndex[l] \in NodesOf(l)
  BY <1>0, <1>1, WalkOfList DEF RingInv, RingsOK
<1>3. PICK b : b = pxPrevious[pxIndex[l]]
  OBVIOUS
<1>4. /\ pxContainer[x] = NULL /\ UNCHANGED <<pxIndex, xItemValue>>
      /\ LinkBetween(l, x, b, pxNext[b]) /\ pxNext[b] = pxIndex[l]
      /\ b \in NodesOf(l)
  BY <1>2, <1>3 DEF vListInsertEnd, Closed
<1>5. /\ n - 1 \in 0 .. n - 1
      /\ b = IF n - 1 = 0 THEN pxIndex[l] ELSE Walk(l)[n - 1]
  <2>1. CASE n = 1
    <3>1. pxNext[pxIndex[l]] = pxIndex[l]
      BY <1>1, <1>2, <2>1 DEF RingWalk
    <3>2. pxPrevious[pxNext[pxIndex[l]]] = pxIndex[l]
      BY <1>2 DEF Closed
    <3>3. QED BY <3>1, <3>2, <2>1, <1>3
  <2>2. CASE n # 1
    <3>1. n - 1 \in 1 .. n - 1 /\ n - 1 \in 1 .. n /\ (n - 1) + 1 = n
      BY <2>2, <1>2
    <3>2. Walk(l)[n] = pxNext[Walk(l)[n - 1]] /\ Walk(l)[n] = pxIndex[l]
          /\ Walk(l)[n - 1] \in NodesOf(l)
      BY <3>1, <1>1, <1>2 DEF RingWalk
    <3>3. pxPrevious[pxIndex[l]] = Walk(l)[n - 1]
      <4>1. PICK y : y = Walk(l)[n - 1]
        OBVIOUS
      <4>2. y \in NodesOf(l) /\ pxNext[y] = pxIndex[l]
        BY <3>2, <4>1
      <4>3. pxPrevious[pxNext[y]] = y
        BY <4>2, <1>2 DEF Closed
      <4>4. QED BY <4>1, <4>2, <4>3
    <3>4. QED BY <3>1, <3>3, <2>2, <1>3
  <2>3. QED BY <2>1, <2>2
<1>6. /\ Walk(l)' = WithInserted(Walk(l), n - 1, x, n)
      /\ \A m \in List : m # l => Walk(m)' = Walk(m)
  <2>1. PICK k : k = n - 1
    OBVIOUS
  <2>2. /\ k \in 0 .. n - 1
        /\ b = IF k = 0 THEN pxIndex[l] ELSE Walk(l)[k]
    BY <1>5, <2>1
  <2>3. QED BY <1>0, <1>1, <1>4, <2>1, <2>2, LinkWalks
<1>7. WithInserted(Walk(l), n - 1, x, n) = Abstract!InsertEnd(Walk(l), x)
  BY <1>2, InsertEndOfWalk
<1>8. Rings' = [Rings EXCEPT ![l] = Abstract!InsertEnd(Walk(l), x)]
  BY <1>0, <1>6, <1>7, OneRingChanges
<1>9. Rings[l] = Walk(l)
  BY <1>0 DEF Rings
<1>10. Abstract!Free(x) /\ xItemValue' = xItemValue
  BY <1>4, FreeItem
<1>11. Rings' = [Rings EXCEPT ![l] = Abstract!InsertEnd(@, x)]
  BY <1>8, <1>9
<1>12. QED BY <1>10, <1>11 DEF Abstract!AddLast, Rings

(* A link at the first place that fits the key inserts into the sequence as *)
(* InsertInOrder does.                                                      *)
LEMMA LinkInOrderRefines ==
    ASSUME RingInv, NEW l \in OrderedList, NEW x \in Item, pxContainer[x] = NULL,
           NEW b \in NodesOf(l), Passed(l, x, b),
           pxNext[b] = l \/ xItemValue[pxNext[b]] > xItemValue[x],
           LinkBetween(l, x, b, pxNext[b]), UNCHANGED <<pxIndex, xItemValue>>
    PROVE  Abstract!AddInOrder(l, x)
<1>0. l \in List /\ pxIndex[l] = l /\ l \notin Item
  BY ListAssumption DEF List, RingInv, CursorsStay
<1>1. PICK n : n = Cardinality(NodesOf(l))
  OBVIOUS
<1>2. PICK s : s = Walk(l)
  OBVIOUS
<1>3. /\ RingWalk(s, pxNext, l, NodesOf(l))
      /\ n \in Nat \ {0} /\ s \in Seq(Node) /\ Len(s) = n
  BY <1>0, <1>1, <1>2, WalkOfList
<1>4. /\ s[n] = l /\ s[1] = pxNext[l]
      /\ \A i \in 1 .. n - 1 : s[i + 1] = pxNext[s[i]]
      /\ \A y \in NodesOf(l) : \E i \in 1 .. n : s[i] = y
      /\ \A i, j \in 1 .. n : s[i] = s[j] => i = j
  BY <1>1, <1>3 DEF RingWalk
<1>5. \A i \in 1 .. n - 1 : s[i] \in Item /\ xItemValue[s[i]] \in TickType
  BY <1>1, <1>2, MarkerIsLast DEF ItemsOf
<1>6. /\ x \in Node /\ xItemValue[x] \in Int /\ TickType \subseteq Int
  BY ListAssumption DEF RingInv, TypeOK, TickType, Node
<1>7. PICK k \in 0 .. n - 1 : /\ b = IF k = 0 THEN l ELSE s[k]
                             /\ \A j \in 1 .. k : xItemValue[s[j]] <= xItemValue[x]
  BY <1>1, <1>2 DEF Passed
<1>8. PlaceFor(s, n - 1, x, xItemValue, k)
  <2>1. n - 1 \in Nat
    BY <1>3
  <2>2. \A i \in 1 .. n - 1 : xItemValue[s[i]] \in Int
    BY <1>5, <1>6
  <2>3. ASSUME k < n - 1 PROVE xItemValue[s[k + 1]] > xItemValue[x]
    <3>1. k + 1 \in 1 .. n - 1
      BY <2>3, <1>3
    <3>2. s[k + 1] = pxNext[b]
      <4>1. CASE k = 0
        BY <4>1, <1>4, <1>7
      <4>2. CASE k # 0
        <5>1. k \in 1 .. n - 1
          BY <4>2, <1>3
        <5>2. QED BY <4>2, <5>1, <1>4, <1>7
      <4>3. QED BY <4>1, <4>2
    <3>3. s[k + 1] # l
      BY <3>1, <1>0, <1>5
    <3>4. QED BY <3>2, <3>3
  <2>4. QED BY <2>1, <2>2, <2>3, <1>6, <1>7 DEF PlaceFor
<1>9. /\ Walk(l)' = WithInserted(Walk(l), k, x, n)
      /\ \A m \in List : m # l => Walk(m)' = Walk(m)
  <2>1. b = IF k = 0 THEN pxIndex[l] ELSE Walk(l)[k]
    BY <1>0, <1>2, <1>7
  <2>2. QED BY <2>1, <1>0, <1>1, LinkWalks
<1>10. Append(Abstract!InsertInOrder(SubSeq(s, 1, Len(s) - 1), x, xItemValue), l)
       = WithInserted(s, k, x, n)
  <2>1. PICK key : key = xItemValue
    OBVIOUS
  <2>2. n \in Nat \ {0} /\ s \in Seq(Node) /\ Len(s) = n /\ s[n] = l
    BY <1>3, <1>4
  <2>3. x \in Node /\ PlaceFor(s, n - 1, x, key, k)
    BY <1>6, <1>8, <2>1
  <2>4. Append(Abstract!InsertInOrder(SubSeq(s, 1, Len(s) - 1), x, key), l)
        = WithInserted(s, k, x, n)
    BY <2>2, <2>3, InsertInOrderOfWalk
  <2>5. QED BY <2>1, <2>4
<1>11. PICK t : t = Append(Abstract!InsertInOrder(SubSeq(s, 1, Len(s) - 1), x, xItemValue), l)
  OBVIOUS
<1>12. Rings' = [Rings EXCEPT ![l] = t]
  <2>1. Walk(l)' = t
    BY <1>2, <1>9, <1>10, <1>11
  <2>2. QED BY <2>1, <1>0, <1>9, OneRingChanges
<1>13. Rings[l] = s
  BY <1>0, <1>2 DEF Rings
<1>14. t = Append(Abstract!InsertInOrder(SubSeq(Rings[l], 1, Len(Rings[l]) - 1),
                                         x, xItemValue), l)
  BY <1>11, <1>13
<1>15. Abstract!Free(x)
  BY FreeItem
<1>16. Rings' = [Rings EXCEPT ![l] =
                   Append(Abstract!InsertInOrder(
                            SubSeq(Rings[l], 1, Len(Rings[l]) - 1), x, xItemValue), l)]
  BY <1>12, <1>14
<1>17. xItemValue' = xItemValue
  OBVIOUS
<1>18. QED BY <1>15, <1>16, <1>17 DEF Abstract!AddInOrder, Abstract!Sorted, Rings

(* vListInsert refines an ordered insertion when it needs no search, and    *)
(* nothing when it starts one.                                              *)
LEMMA InsertRefines ==
    ASSUME RingInv, NEW l \in OrderedList, NEW x \in Item, vListInsert(l, x)
    PROVE  \/ Abstract!AddInOrder(l, x)
           \/ UNCHANGED <<Rings, xItemValue>>
<1>0. l \in List
  BY DEF List
<1>1. CASE xItemValue[x] = portMAX_DELAY
  <2>1. PICK b : b = pxPrevious[l]
    OBVIOUS
  <2>2. b \in NodesOf(l) /\ pxNext[b] = l
    BY <1>0, <2>1 DEF RingInv, RingsOK, Closed, NodesOf
  <2>3. /\ pxContainer[x] = NULL /\ LinkBetween(l, x, b, pxNext[b])
        /\ UNCHANGED <<pxIndex, xItemValue>>
    BY <1>1, <2>1, <2>2 DEF vListInsert
  <2>4. Passed(l, x, b)
    BY <1>1, <2>2, AllPassed
  <2>5. QED BY <2>2, <2>3, <2>4, LinkInOrderRefines
<1>2. CASE xItemValue[x] # portMAX_DELAY
  <2>1. UNCHANGED <<pxNext, pxIndex, uxNumberOfItems, xItemValue>>
    BY <1>2 DEF vListInsert
  <2>2. QED BY <2>1, NoRingChanges
<1>3. QED BY <1>1, <1>2

(* The end of the search refines an ordered insertion.                      *)
LEMMA LinkRefines ==
    ASSUME RingInv, SearchPassed, vListInsertLink
    PROVE  \E l \in OrderedList, x \in Item : Abstract!AddInOrder(l, x)
<1>0. TypeOK /\ SearchIsOnTheList /\ search # NULL
  BY DEF RingInv, vListInsertLink
<1>1. PICK l \in OrderedList, x \in Item, b \in Node :
         l = search.list /\ x = search.item /\ b = search.pxIterator
  BY <1>0 DEF TypeOK
<1>2. /\ pxContainer[x] = NULL /\ b \in NodesOf(l)
      /\ LinkBetween(l, x, b, pxNext[b]) /\ UNCHANGED <<pxIndex, xItemValue>>
      /\ ~(ValueOf(pxNext[b]) <= xItemValue[x])
  BY <1>0, <1>1 DEF SearchIsOnTheList, vListInsertLink, KeepSearching
<1>3. pxNext[b] = l \/ xItemValue[pxNext[b]] > xItemValue[x]
  <2>1. pxNext[b] \in NodesOf(l) /\ l \in List
    BY <1>2 DEF RingInv, RingsOK, Closed, List
  <2>2. CASE pxNext[b] \in Item
    <3>1. ValueOf(pxNext[b]) = xItemValue[pxNext[b]]
      BY <2>2, ListAssumption DEF ValueOf
    <3>2. xItemValue[pxNext[b]] \in Int /\ xItemValue[x] \in Int
      BY <1>0, <2>2, ListAssumption DEF TypeOK, TickType
    <3>3. QED BY <3>1, <3>2, <1>2
  <2>3. CASE pxNext[b] \notin Item
    BY <2>1, <2>3 DEF NodesOf, ItemsOf
  <2>4. QED BY <2>2, <2>3
<1>4. Passed(l, x, b)
  <2>1. search = [list |-> l, item |-> x, pxIterator |-> b]
    BY <1>0, <1>1 DEF TypeOK
  <2>2. QED BY <2>1, <1>0 DEF SearchPassed, Searches
<1>5. QED BY <1>2, <1>3, <1>4, LinkInOrderRefines

(* uxListRemove takes the item out of the sequence of its list.             *)
LEMMA RemoveRefines ==
    ASSUME RingInv, NEW x \in Item, uxListRemove(x)
    PROVE  \E l \in List : Abstract!Take(l, x)
<1>0. PICK l \in List : l = pxContainer[x]
  BY ListAssumption DEF uxListRemove, RingInv, TypeOK
<1>1. PICK n : n = Cardinality(NodesOf(l))
  OBVIOUS
<1>2. /\ RingWalk(Walk(l), pxNext, pxIndex[l], NodesOf(l))
      /\ n \in Nat \ {0} /\ Len(Walk(l)) = n
      /\ Abstract!Elements(Walk(l)) = NodesOf(l)
      /\ x \in NodesOf(l)
  BY <1>0, <1>1, WalkOfList DEF NodesOf, ItemsOf
<1>3. PICK p \in 1 .. n : Walk(l)[p] = x
  BY <1>1, <1>2 DEF RingWalk
<1>4. \A i \in 1 .. n : Walk(l)[i] = x => i = p
  BY <1>1, <1>2, <1>3 DEF RingWalk
<1>5. /\ Walk(l)' = WithoutPlace(Walk(l), p, n)
      /\ \A m \in List : m # l => Walk(m)' = Walk(m)
  BY <1>0, <1>1, <1>3, RemoveWalks
<1>6. Abstract!Without(Walk(l), x) = WithoutPlace(Walk(l), p, n)
  <2>1. PICK s : s = Walk(l)
    OBVIOUS
  <2>2. Abstract!Without(s, x) = WithoutPlace(s, p, n)
    BY <2>1, <1>2, <1>3, <1>4, WithoutOfWalk
  <2>3. QED BY <2>1, <2>2
<1>7. Rings' = [Rings EXCEPT ![l] = Abstract!Without(Walk(l), x)]
  BY <1>5, <1>6, OneRingChanges
<1>8. Rings[l] = Walk(l)
  BY DEF Rings
<1>9. Rings' = [Rings EXCEPT ![l] = Abstract!Without(@, x)]
  BY <1>7, <1>8
<1>10. x \in Abstract!Elements(Rings[l]) /\ xItemValue' = xItemValue
  BY <1>2, <1>8 DEF uxListRemove
<1>11. QED BY <1>9, <1>10 DEF Abstract!Take, Rings

(* listGET_OWNER_OF_NEXT_ENTRY goes on to the next round.                   *)
LEMMA NextEntryRefines ==
    ASSUME RingInv, NEW l \in RoundRobinList, listGET_OWNER_OF_NEXT_ENTRY(l)
    PROVE  Abstract!Advance(l)
<1>0. l \in List
  BY DEF List
<1>1. PICK n : n = Cardinality(NodesOf(l))
  OBVIOUS
<1>2. n \in Nat \ {0} /\ Len(Walk(l)) = n
  BY <1>0, <1>1, WalkOfList
<1>3. PICK t : t = IF Walk(l)[1] = l THEN Rotated(Rotated(Walk(l), n), n)
                                     ELSE Rotated(Walk(l), n)
  OBVIOUS
<1>4. /\ n > 1 /\ Walk(l)' = t
      /\ \A m \in List : m # l => Walk(m)' = Walk(m)
  BY <1>1, <1>3, NextEntryWalks
<1>5. Abstract!NextRound(Walk(l), l) = t
  <2>1. Abstract!Rotate(Walk(l)) = Rotated(Walk(l), n)
    BY <1>2, RotateOfWalk
  <2>2. Len(Rotated(Walk(l), n)) = n
    <3>1. PICK r : r = Rotated(Walk(l), n)
      OBVIOUS
    <3>2. r = [i \in 1 .. n |-> r[i]]
      BY <3>1 DEF Rotated
    <3>3. r \in [1 .. n -> {r[i] : i \in 1 .. n}]
      BY <3>2
    <3>4. QED BY <3>1, <3>3, <1>2, SequenceOfLength
  <2>3. Abstract!Rotate(Rotated(Walk(l), n)) = Rotated(Rotated(Walk(l), n), n)
    BY <1>2, <2>2, RotateOfWalk
  <2>4. QED BY <1>3, <2>1, <2>3 DEF Abstract!NextRound
<1>6. Rings' = [Rings EXCEPT ![l] = Abstract!NextRound(Walk(l), l)]
  BY <1>0, <1>4, <1>5, OneRingChanges
<1>7. Rings[l] = Walk(l)
  BY <1>0 DEF Rings
<1>8. Rings' = [Rings EXCEPT ![l] = Abstract!NextRound(@, l)]
  BY <1>6, <1>7
<1>9. Len(Rings[l]) > 1 /\ xItemValue' = xItemValue
  BY <1>2, <1>4, <1>7 DEF listGET_OWNER_OF_NEXT_ENTRY
<1>10. QED BY <1>8, <1>9 DEF Abstract!Advance, Rings

(* Only uxListRemove and listGET_OWNER_OF_NEXT_ENTRY move a cursor.         *)
LEMMA StepKeepsCursors ==
    ListInv /\ CursorsStay /\ [Next]_vars => CursorsStay'
<1> SUFFICES ASSUME TypeOK, CursorsStay, [Next]_vars, NEW l \in OrderedList
             PROVE  pxIndex'[l] = l
  BY DEF ListInv, CursorsStay
<1>1. /\ pxIndex[l] = l /\ l \in List /\ l \notin Item /\ l \notin RoundRobinList
      /\ pxIndex \in [List -> Node]
  BY ListAssumption DEF CursorsStay, List, TypeOK
<1>2. ASSUME UNCHANGED pxIndex PROVE pxIndex'[l] = l
  BY <1>1, <1>2
<1>3. ASSUME NEW x \in Item, uxListRemove(x) PROVE pxIndex'[l] = l
  BY <1>1, <1>3 DEF uxListRemove
<1>4. ASSUME NEW m \in RoundRobinList, listGET_OWNER_OF_NEXT_ENTRY(m)
      PROVE  pxIndex'[l] = l
  BY <1>1, <1>4 DEF listGET_OWNER_OF_NEXT_ENTRY
<1>5. QED
  BY <1>2, <1>3, <1>4
     DEF Next, vars, listSET_LIST_ITEM_VALUE, vListInsertEnd, vListInsert,
         vListInsertLoop, vListInsertLink

(* RingInv holds in every reachable state.                                  *)
LEMMA RingInvHolds == Spec => []RingInv
<1>1. Init => CursorsStay
  BY DEF Init, CursorsStay, List
<1>2. Spec => []CursorsStay
  BY <1>1, StepKeepsCursors, ListsStayWellFormed, PTL DEF Spec
<1>3. ListInv /\ LengthIsExact /\ CursorsStay => RingInv
  BY RingsSplit DEF ListInv, RingInv
<1>4. QED BY <1>2, <1>3, ListsStayWellFormed, LengthStaysExact, PTL

(* And so does what the search knows.                                       *)
LEMMA SearchPassedHolds == Spec => []SearchPassed
<1>1. Init => SearchPassed
  BY DEF Init, SearchPassed, Searches
<1>2. QED BY <1>1, StepKeepsPassed, RingInvHolds, PTL DEF Spec

(* Every step of the pointers is one of the sequences, or none.             *)
LEMMA StepRefines ==
    RingInv /\ SearchPassed /\ [Next]_vars => [Abstract!SpecNext]_(Abstract!specVars)
<1> SUFFICES ASSUME RingInv, SearchPassed, [Next]_vars
             PROVE  Abstract!SpecNext \/ UNCHANGED <<Rings, xItemValue>>
  BY DEF Abstract!specVars, Rings
<1>1. ASSUME NEW x \in Item, NEW v \in TickType, listSET_LIST_ITEM_VALUE(x, v)
      PROVE  Abstract!SpecNext
  <2>1. /\ UNCHANGED <<pxNext, pxIndex, uxNumberOfItems>>
        /\ xItemValue' = [xItemValue EXCEPT ![x] = v]
    BY <1>1 DEF listSET_LIST_ITEM_VALUE
  <2>2. Rings' = Rings
    BY <2>1, NoRingChanges
  <2>3. Abstract!SetValue(x, v)
    BY <2>1, <2>2 DEF Abstract!SetValue, Rings
  <2>4. v \in 0 .. portMAX_DELAY
    BY DEF TickType
  <2>5. QED BY <2>3, <2>4 DEF Abstract!SpecNext
<1>2. ASSUME NEW l \in RoundRobinList, NEW x \in Item, vListInsertEnd(l, x)
      PROVE  Abstract!SpecNext
  BY <1>2, InsertEndRefines DEF Abstract!SpecNext
<1>3. ASSUME NEW l \in OrderedList, NEW x \in Item, vListInsert(l, x)
      PROVE  Abstract!SpecNext \/ UNCHANGED <<Rings, xItemValue>>
  BY <1>3, InsertRefines DEF Abstract!SpecNext
<1>4. ASSUME vListInsertLoop PROVE UNCHANGED <<Rings, xItemValue>>
  BY <1>4, NoRingChanges DEF vListInsertLoop
<1>5. ASSUME vListInsertLink PROVE Abstract!SpecNext
  BY <1>5, LinkRefines DEF Abstract!SpecNext
<1>6. ASSUME NEW x \in Item, uxListRemove(x) PROVE Abstract!SpecNext
  BY <1>6, RemoveRefines DEF Abstract!SpecNext, Abstract!SpecList, List
<1>7. ASSUME NEW l \in RoundRobinList, listGET_OWNER_OF_NEXT_ENTRY(l)
      PROVE  Abstract!SpecNext
  BY <1>7, NextEntryRefines DEF Abstract!SpecNext
<1>8. CASE UNCHANGED vars
  BY <1>8, NoRingChanges DEF vars
<1>9. QED BY <1>1, <1>2, <1>3, <1>4, <1>5, <1>6, <1>7, <1>8 DEF Next

(* Whatever the kernel does with its lists, the pointers of list.c behave as*)
(* the sequences that the scheduler and the queues rely on: each operation is*)
(* the one of ListOps, and each iteration of a search changes nothing.      *)
THEOREM ListImplementsSequences == Spec => ImplementsListSpec
<1>1. Init /\ RingInv => Abstract!SpecInit
  BY InitRefines
<1>2. QED
  BY <1>1, StepRefines, RingInvHolds, SearchPassedHolds, PTL
     DEF Spec, ImplementsListSpec, Abstract!Spec
-----------------------------------------------------------------------------
(* The items at or in front of place p of a walk whose marker is at q.      *)
Turns(p, q) == IF q <= p THEN p - 1 ELSE p

(* TurnsUntil of a walk s.                                                  *)
TurnsIn(s, l, x) ==
    Cardinality({i \in {i \in DOMAIN s : s[i] # l} :
                    i <= CHOOSE j \in DOMAIN s : s[j] = x})

NoTwice(s) == \A i, j \in DOMAIN s : s[i] = s[j] => i = j

(* Each item up to place p is one turn.                                     *)
LEMMA TurnsAreCounted ==
    ASSUME NEW n \in Nat, NEW s, DOMAIN s = 1 .. n, NoTwice(s),
           NEW p \in 1 .. n, NEW q \in 1 .. n
    PROVE  TurnsIn(s, s[q], s[p]) = Turns(p, q)
<1> DEFINE l == s[q]
           x == s[p]
<1>0. \A i, j \in 1 .. n : s[i] = s[j] => i = j
  BY DEF NoTwice
<1>1. (CHOOSE j \in DOMAIN s : s[j] = x) = p
  BY <1>0
<1>2. {i \in {i \in DOMAIN s : s[i] # l} : i <= p} = (1 .. p) \ {q}
  <2>1. ASSUME NEW i
        PROVE  i \in {j \in {j \in DOMAIN s : s[j] # l} : j <= p}
               <=> i \in (1 .. p) \ {q}
    <3>1. i \in (1 .. p) \ {q} => i \in 1 .. n /\ i <= p /\ i # q
      OBVIOUS
    <3>2. i \in 1 .. n => (s[i] # l <=> i # q)
      BY <1>0
    <3>3. QED BY <3>1, <3>2
  <2>2. QED BY <2>1
<1>3. IsFiniteSet(1 .. p) /\ Cardinality(1 .. p) = p
  BY FS_Interval
<1>4. Cardinality((1 .. p) \ {q}) = Turns(p, q)
  <2>1. Cardinality((1 .. p) \ {q}) = IF q \in 1 .. p THEN p - 1 ELSE p
    BY <1>3, FS_RemoveElement
  <2>2. QED BY <2>1 DEF Turns
<1>5. QED BY <1>1, <1>2, <1>4 DEF TurnsIn

WalksAreInjective == \A l \in List : NoTwice(Walk(l))

(* No walk meets a node twice.                                              *)
LEMMA NoNodeTwice == RingInv => WalksAreInjective
<1> SUFFICES ASSUME RingInv, NEW l \in List
             PROVE  NoTwice(Walk(l))
  BY DEF WalksAreInjective
<1>1. PICK n : n = Cardinality(NodesOf(l))
  OBVIOUS
<1>2. RingWalk(Walk(l), pxNext, pxIndex[l], NodesOf(l)) /\ Walk(l) \in [1 .. n -> Node]
  BY <1>1, WalkOfList
<1>3. DOMAIN Walk(l) = 1 .. n
  BY <1>2
<1>4. QED BY <1>1, <1>2, <1>3 DEF RingWalk, NoTwice

(* TurnsUntil before and after a step, from the places of x and the marker. *)
LEMMA TurnsBefore ==
    ASSUME WalksAreInjective, NEW l \in List, NEW n \in Nat, NEW s, Walk(l) = s,
           DOMAIN s = 1 .. n,
           NEW x, NEW p \in 1 .. n, s[p] = x, NEW q \in 1 .. n, s[q] = l
    PROVE  TurnsUntil(l, x) = Turns(p, q)
<1>1. NoTwice(s)
  BY DEF WalksAreInjective
<1>2. TurnsIn(s, l, x) = Turns(p, q)
  <2>1. TurnsIn(s, s[q], s[p]) = Turns(p, q)
    BY <1>1, TurnsAreCounted
  <2>2. QED BY <2>1
<1>3. QED BY <1>2 DEF TurnsUntil, TurnsIn

(* And after a step.                                                        *)
LEMMA TurnsAfter ==
    ASSUME WalksAreInjective', NEW l \in List, NEW n \in Nat, NEW s, Walk(l)' = s,
           DOMAIN s = 1 .. n,
           NEW x, NEW p \in 1 .. n, s[p] = x, NEW q \in 1 .. n, s[q] = l
    PROVE  TurnsUntil(l, x)' = Turns(p, q)
<1>1. NoTwice(s)
  BY DEF WalksAreInjective
<1>2. TurnsIn(s, l, x) = Turns(p, q)
  <2>1. TurnsIn(s, s[q], s[p]) = Turns(p, q)
    BY <1>1, TurnsAreCounted
  <2>2. QED BY <2>1
<1>3. QED BY <1>2 DEF TurnsUntil, TurnsIn
-----------------------------------------------------------------------------
(* The turn of x in list l is not put off by a step; it comes or gets       *)
(* closer.                                                                  *)
NotLater(l, x) == TurnsUntil(l, x)' <= TurnsUntil(l, x)
Closer(l, x) ==
    \/ pxIndex'[l] = x
    \/ TurnsUntil(l, x)' < TurnsUntil(l, x) /\ NotLater(l, x)

(* The places of an item and of the marker in the walk of their list.       *)
LEMMA Places ==
    ASSUME RingInv, NEW l \in List, NEW n, n = Cardinality(NodesOf(l)),
           NEW x \in ItemsOf(l), x # pxIndex[l], NEW s, s = Walk(l)
    PROVE  \E p, q \in 1 .. n :
              /\ s[p] = x /\ s[q] = l /\ p # n /\ p # q
              /\ n \in Nat /\ DOMAIN s = 1 .. n /\ NoTwice(s)
              /\ s[n] = pxIndex[l]
              /\ TurnsUntil(l, x) = Turns(p, q)
<1>1. /\ RingWalk(s, pxNext, pxIndex[l], NodesOf(l))
      /\ n \in Nat \ {0} /\ s \in [1 .. n -> Node]
      /\ x \in NodesOf(l) /\ l \in NodesOf(l) /\ x # l
  BY WalkOfList, ListAssumption DEF NodesOf, ItemsOf, List
<1>2. PICK p \in 1 .. n, q \in 1 .. n : s[p] = x /\ s[q] = l
  BY <1>1 DEF RingWalk
<1>3. s[n] = pxIndex[l] /\ p # n /\ p # q
  BY <1>1, <1>2 DEF RingWalk
<1>4. DOMAIN s = 1 .. n
  BY <1>1
<1>5. WalksAreInjective /\ NoTwice(s)
  BY NoNodeTwice DEF WalksAreInjective
<1>6. TurnsUntil(l, x) = Turns(p, q)
  BY <1>1, <1>2, <1>4, <1>5, TurnsBefore
<1>7. QED BY <1>1, <1>2, <1>3, <1>4, <1>5, <1>6

(* A walk that stays is no later.                                           *)
LEMMA SameWalkNotLater ==
    ASSUME RingInv, NEW l \in List, NEW x \in ItemsOf(l), x # pxIndex[l],
           Walk(l)' = Walk(l)
    PROVE  NotLater(l, x)
<1>1. PICK n : n = Cardinality(NodesOf(l))
  OBVIOUS
<1>2. PICK s : s = Walk(l)
  OBVIOUS
<1>3. PICK p \in 1 .. n, q \in 1 .. n : TurnsUntil(l, x) = Turns(p, q)
  BY <1>1, <1>2, Places
<1>4. TurnsUntil(l, x)' = TurnsUntil(l, x)
  BY DEF TurnsUntil
<1>5. QED BY <1>3, <1>4 DEF NotLater, Turns

(* vListInsertEnd into the list puts its item behind x.                     *)
LEMMA InsertEndNotLater ==
    ASSUME RingInv, WalksAreInjective', NEW l \in RoundRobinList,
           NEW y \in Item, vListInsertEnd(l, y),
           NEW x \in ItemsOf(l), x # pxIndex[l], NEW n, n = Cardinality(NodesOf(l)),
           Walk(l)' = WithInserted(Walk(l), n - 1, y, n)
    PROVE  NotLater(l, x)
<1>0. l \in List
  BY DEF List
<1>2. PICK s : s = Walk(l)
  OBVIOUS
<1>3. PICK p \in 1 .. n, q \in 1 .. n :
         /\ s[p] = x /\ s[q] = l /\ p # n /\ p # q /\ n \in Nat
         /\ TurnsUntil(l, x) = Turns(p, q)
  BY <1>0, <1>2, Places
<1>4. PICK t : t = WithInserted(s, n - 1, y, n)
  OBVIOUS
<1>5. /\ DOMAIN t = 1 .. n + 1
      /\ \A i \in 1 .. n + 1 :
            t[i] = IF i <= n - 1 THEN s[i] ELSE IF i = (n - 1) + 1 THEN y ELSE s[i - 1]
  BY <1>4 DEF WithInserted
<1>6. PICK r \in 1 .. n + 1 : r = IF q = n THEN n + 1 ELSE q
  BY <1>3
<1>7. t[p] = x /\ t[r] = l /\ p \in 1 .. n + 1 /\ n + 1 \in Nat
  <2>1. p \in 1 .. n + 1 /\ p <= n - 1
    BY <1>3
  <2>2. CASE q = n
    <3>1. r = n + 1 /\ ~(r <= n - 1) /\ r # (n - 1) + 1 /\ r - 1 = n
      BY <2>2, <1>3, <1>6
    <3>2. QED BY <2>1, <2>2, <3>1, <1>3, <1>5
  <2>3. CASE q # n
    <3>1. r = q /\ q <= n - 1
      BY <2>3, <1>3, <1>6
    <3>2. QED BY <2>1, <3>1, <1>3, <1>5
  <2>4. QED BY <2>2, <2>3
<1>8. Walk(l)' = t
  BY <1>2, <1>4
<1>9. TurnsUntil(l, x)' = Turns(p, r)
  BY <1>0, <1>5, <1>7, <1>8, TurnsAfter
<1>10. Turns(p, r) <= Turns(p, q)
  BY <1>3, <1>6 DEF Turns
<1>11. QED BY <1>3, <1>9, <1>10 DEF NotLater

(* uxListRemove of another item lets x keep its place or move up.           *)
LEMMA RemoveNotLater ==
    ASSUME RingInv, WalksAreInjective', NEW l \in RoundRobinList,
           NEW x \in ItemsOf(l), x # pxIndex[l], NEW n, n = Cardinality(NodesOf(l)),
           NEW y \in Item, y # x, NEW m \in 1 .. n, Walk(l)[m] = y,
           Walk(l)' = WithoutPlace(Walk(l), m, n)
    PROVE  NotLater(l, x)
<1>0. l \in List /\ y # l
  BY ListAssumption DEF List
<1>2. PICK s : s = Walk(l)
  OBVIOUS
<1>3. PICK p \in 1 .. n, q \in 1 .. n :
         /\ s[p] = x /\ s[q] = l /\ p # n /\ p # q /\ n \in Nat
         /\ TurnsUntil(l, x) = Turns(p, q)
  BY <1>0, <1>2, Places
<1>4. PICK t : t = WithoutPlace(s, m, n)
  OBVIOUS
<1>5. /\ DOMAIN t = 1 .. n - 1
      /\ \A i \in 1 .. n - 1 : t[i] = IF i < m THEN s[i] ELSE s[i + 1]
  BY <1>4 DEF WithoutPlace
<1>6. m # p /\ m # q
  BY <1>0, <1>2, <1>3
<1> DEFINE Moved(i) == IF i < m THEN i ELSE i - 1
<1>7. ASSUME NEW i \in 1 .. n, i # m PROVE Moved(i) \in 1 .. n - 1 /\ t[Moved(i)] = s[i]
  <2>1. CASE i < m
    <3>1. i \in 1 .. n - 1
      BY <2>1, <1>3
    <3>2. QED BY <2>1, <3>1, <1>5
  <2>2. CASE i > m
    <3>1. i - 1 \in 1 .. n - 1 /\ ~(i - 1 < m) /\ (i - 1) + 1 = i
      BY <2>2, <1>3
    <3>2. t[i - 1] = s[(i - 1) + 1]
      BY <3>1, <1>5
    <3>3. QED BY <2>2, <3>1, <3>2
  <2>3. QED BY <2>1, <2>2, <1>7
<1>8. PICK pp \in 1 .. n - 1, qq \in 1 .. n - 1 :
         pp = Moved(p) /\ qq = Moved(q) /\ t[pp] = x /\ t[qq] = l
  <2> HIDE DEF Moved
  <2>1. QED BY <1>3, <1>6, <1>7
<1>9. Walk(l)' = t /\ n - 1 \in Nat
  <2>1. n - 1 \in Nat
    BY <1>3
  <2>2. QED BY <2>1, <1>2, <1>4
<1>10. TurnsUntil(l, x)' = Turns(pp, qq)
  <2> HIDE DEF Moved
  <2>1. QED BY <1>0, <1>5, <1>8, <1>9, TurnsAfter
<1>11. Turns(pp, qq) <= Turns(p, q)
  BY <1>3, <1>6, <1>8 DEF Turns
<1>12. QED BY <1>3, <1>10, <1>11 DEF NotLater

(* listGET_OWNER_OF_NEXT_ENTRY brings x closer or chooses it.               *)
LEMMA NextEntryCloser ==
    ASSUME RingInv, WalksAreInjective', NEW l \in RoundRobinList,
           listGET_OWNER_OF_NEXT_ENTRY(l),
           NEW x \in ItemsOf(l), x # pxIndex[l]
    PROVE  Closer(l, x)
<1>0. l \in List
  BY DEF List
<1>1. PICK n : n = Cardinality(NodesOf(l))
  OBVIOUS
<1>2. PICK s : s = Walk(l)
  OBVIOUS
<1>3. PICK p \in 1 .. n, q \in 1 .. n :
         /\ s[p] = x /\ s[q] = l /\ p # n /\ p # q /\ n \in Nat /\ NoTwice(s)
         /\ DOMAIN s = 1 .. n
         /\ TurnsUntil(l, x) = Turns(p, q)
  BY <1>0, <1>1, <1>2, Places
<1>4. PICK r : r = Rotated(s, n)
  OBVIOUS
<1>5. PICK t : t = IF s[1] = l THEN Rotated(r, n) ELSE r
  OBVIOUS
<1>6. n > 1 /\ Walk(l)' = t
  BY <1>1, <1>2, <1>4, <1>5, NextEntryWalks
<1>7. /\ DOMAIN r = 1 .. n
      /\ \A i \in 1 .. n : r[i] = IF i < n THEN s[i + 1] ELSE s[1]
  BY <1>4 DEF Rotated
<1>8. /\ s[1] = pxNext[pxIndex[l]] /\ s[1 + 1] = pxNext[s[1]]
  <2>1. RingWalk(s, pxNext, pxIndex[l], NodesOf(l))
    BY <1>0, <1>1, <1>2, WalkOfList
  <2>2. 1 \in 1 .. n - 1
    BY <1>3, <1>6
  <2>3. QED BY <2>1, <2>2, <1>1 DEF RingWalk
<1>9. pxIndex'[l] = IF s[1] = l THEN s[2] ELSE s[1]
  <2>1. pxIndex'[l] = NextEntry(l)
    BY <1>0 DEF listGET_OWNER_OF_NEXT_ENTRY, RingInv, TypeOK
  <2>2. QED BY <2>1, <1>8 DEF NextEntry
<1>10. CASE s[1] # l
  <2>1. t = r
    BY <1>5, <1>10
  <2>2. CASE p = 1
    BY <2>2, <1>3, <1>9, <1>10 DEF Closer
  <2>3. CASE p # 1
    <3>1. q # 1
      BY <1>3, <1>10
    <3>2. PICK pp \in 1 .. n, qq \in 1 .. n : pp = p - 1 /\ qq = q - 1
      BY <2>3, <3>1, <1>3
    <3>3. pp < n /\ qq < n /\ pp + 1 = p /\ qq + 1 = q
      BY <3>2, <1>3
    <3>4. t[pp] = x /\ t[qq] = l
      BY <3>3, <2>1, <1>3, <1>7
    <3>5. TurnsUntil(l, x)' = Turns(pp, qq)
      BY <3>4, <2>1, <1>0, <1>3, <1>6, <1>7, TurnsAfter
    <3>6. Turns(pp, qq) < Turns(p, q) /\ Turns(pp, qq) <= Turns(p, q)
      BY <3>2, <1>3 DEF Turns
    <3>7. QED BY <3>5, <3>6, <1>3 DEF Closer, NotLater
  <2>4. QED BY <2>2, <2>3
<1>11. CASE s[1] = l
  <2>1. t = Rotated(r, n)
    BY <1>5, <1>11
  <2>2. /\ DOMAIN t = 1 .. n
        /\ \A i \in 1 .. n : t[i] = IF i < n THEN r[i + 1] ELSE r[1]
    BY <2>1 DEF Rotated
  <2>3. q = 1 /\ p # 1
    <3>1. 1 \in DOMAIN s /\ q \in DOMAIN s /\ s[1] = s[q]
      BY <1>3, <1>11
    <3>2. q = 1
      BY <3>1, <1>3 DEF NoTwice
    <3>3. QED BY <3>2, <1>3
  <2>4. CASE p = 2
    BY <2>4, <1>3, <1>9, <1>11 DEF Closer
  <2>5. CASE p # 2
    <3>1. PICK pp \in 1 .. n, qq \in 1 .. n : pp = p - 2 /\ qq = n - 1
      BY <2>3, <2>5, <1>3, <1>6
    <3>2. /\ pp < n /\ pp + 1 \in 1 .. n /\ pp + 1 < n /\ (pp + 1) + 1 = p
          /\ qq < n /\ qq + 1 = n /\ n \in 1 .. n
      BY <3>1, <1>3, <1>6
    <3>3. t[pp] = r[pp + 1] /\ r[pp + 1] = s[(pp + 1) + 1]
      BY <3>2, <2>2, <1>7
    <3>4. t[qq] = r[n] /\ r[n] = s[1]
      BY <3>2, <2>2, <1>7
    <3>5. t[pp] = x /\ t[qq] = l
      BY <3>2, <3>3, <3>4, <1>3, <1>11
    <3>6. TurnsUntil(l, x)' = Turns(pp, qq)
      BY <3>5, <2>2, <1>0, <1>3, <1>6, TurnsAfter
    <3>7. Turns(pp, qq) < Turns(p, q) /\ Turns(pp, qq) <= Turns(p, q)
      BY <3>1, <2>3, <2>5, <1>3 DEF Turns
    <3>8. QED BY <3>6, <3>7, <1>3 DEF Closer, NotLater
  <2>6. QED BY <2>4, <2>5
<1>12. QED BY <1>10, <1>11

(* What TurnComesCloser says of one step and one item.                      *)
KeepsTurn(l, x) ==
    IF pxContainer' = pxContainer /\ pxIndex'[l] # pxIndex[l]
    THEN pxIndex'[l] = x \/ TurnsUntil(l, x)' < TurnsUntil(l, x)
    ELSE TurnsUntil(l, x)' <= TurnsUntil(l, x)

(* Each kind of step keeps or shortens the time to the turn of x.           *)
LEMMA StepKeepsTurn ==
    ASSUME RingInv, SearchPassed, WalksAreInjective', [Next]_vars, NEW l \in RoundRobinList,
           NEW x \in ItemsOf(l), x # pxIndex[l], pxContainer'[x] = l
    PROVE  KeepsTurn(l, x)
<1>0. /\ l \in List /\ l \notin OrderedList /\ x \in Item /\ l # NULL
      /\ \A y \in Item : y # l
      /\ pxIndex \in [List -> Node] /\ pxContainer \in [Item -> List \cup {NULL}]
  BY ListAssumption DEF List, RingInv, TypeOK, ItemsOf, Node
<1>1. ASSUME Walk(l)' = Walk(l), pxIndex'[l] = pxIndex[l]
      PROVE  KeepsTurn(l, x)
  BY <1>0, <1>1, SameWalkNotLater DEF NotLater, KeepsTurn
<1>2. ASSUME UNCHANGED <<pxNext, pxIndex, uxNumberOfItems>>
      PROVE  KeepsTurn(l, x)
  <2>1. Walk(l)' = Walk(l)
    BY <1>0, <1>2, SameWalk
  <2>2. QED BY <2>1, <1>1, <1>2
<1>3. ASSUME NEW m \in RoundRobinList, NEW y \in Item, vListInsertEnd(m, y)
      PROVE  KeepsTurn(l, x)
  <2>1. Rings' = [Rings EXCEPT ![m] = Abstract!InsertEnd(@, y)] /\ m \in List
    BY <1>3, InsertEndRefines DEF Abstract!AddLast, Rings, List
  <2>2. Rings[l] = Walk(l) /\ Rings'[l] = Walk(l)' /\ Rings = [k \in List |-> Walk(k)]
    BY <1>0 DEF Rings
  <2>3. pxIndex' = pxIndex
    BY <1>3 DEF vListInsertEnd
  <2>4. CASE m = l
    <3>1. Walk(l)' = Abstract!InsertEnd(Walk(l), y)
      BY <2>1, <2>2, <2>4, <1>0
    <3>2. PICK n : n = Cardinality(NodesOf(l))
      OBVIOUS
    <3>3. n \in Nat \ {0} /\ Len(Walk(l)) = n
      BY <3>2, <1>0, WalkOfList
    <3>4. Walk(l)' = WithInserted(Walk(l), n - 1, y, n)
      BY <3>1, <3>3, InsertEndOfWalk
    <3>5. NotLater(l, x)
      BY <3>2, <3>4, <2>4, <1>3, InsertEndNotLater
    <3>6. QED BY <3>5, <2>3 DEF NotLater, KeepsTurn
  <2>5. CASE m # l
    <3>1. Walk(l)' = Walk(l)
      BY <2>1, <2>2, <2>5, <1>0
    <3>2. QED BY <3>1, <2>3, <1>1
  <2>6. QED BY <2>4, <2>5
<1>4. ASSUME NEW m \in OrderedList, NEW y \in Item, Abstract!AddInOrder(m, y),
             pxIndex' = pxIndex
      PROVE  KeepsTurn(l, x)
  <2>1. m \in List /\ m # l
    BY <1>0 DEF List
  <2>2. \E r : Rings' = [Rings EXCEPT ![m] = r]
    BY <1>4 DEF Abstract!AddInOrder, Rings
  <2>3. Rings[l] = Walk(l) /\ Rings'[l] = Walk(l)' /\ Rings = [k \in List |-> Walk(k)]
    BY <1>0 DEF Rings
  <2>4. Walk(l)' = Walk(l)
    BY <2>1, <2>2, <2>3, <1>0
  <2>5. QED BY <2>4, <1>1, <1>4
<1>5. ASSUME NEW m \in OrderedList, NEW y \in Item, vListInsert(m, y)
      PROVE  KeepsTurn(l, x)
  <2>1. pxIndex' = pxIndex
    BY <1>5 DEF vListInsert
  <2>2. Abstract!AddInOrder(m, y) \/ UNCHANGED <<Rings, xItemValue>>
    BY <1>5, InsertRefines
  <2>3. CASE Abstract!AddInOrder(m, y)
    BY <2>1, <2>3, <1>4
  <2>4. CASE Rings' = Rings
    <3>1. Rings[l] = Walk(l) /\ Rings'[l] = Walk(l)'
      BY <1>0 DEF Rings
    <3>2. Walk(l)' = Walk(l)
      BY <3>1, <2>4
    <3>3. QED BY <3>2, <2>1, <1>1
  <2>5. QED BY <2>2, <2>3, <2>4
<1>6. ASSUME vListInsertLink PROVE KeepsTurn(l, x)
  <2>1. pxIndex' = pxIndex
    BY <1>6 DEF vListInsertLink
  <2>2. QED BY <2>1, <1>4, <1>6, LinkRefines
<1>7. ASSUME NEW y \in Item, uxListRemove(y) PROVE KeepsTurn(l, x)
  <2>1. PICK m \in List : m = pxContainer[y]
    BY <1>7, ListAssumption DEF uxListRemove, RingInv, TypeOK
  <2>2. /\ pxContainer' = [pxContainer EXCEPT ![y] = NULL] /\ pxContainer[y] # NULL
        /\ pxIndex' = [pxIndex EXCEPT ![m] = IF @ = y THEN pxPrevious[y] ELSE @]
    BY <1>7, <2>1 DEF uxListRemove
  <2>3. y # x /\ pxContainer' # pxContainer
    BY <2>2, <1>0
  <2>4. PICK n : n = Cardinality(NodesOf(m))
    OBVIOUS
  <2>5. PICK p \in 1 .. n : Walk(m)[p] = y
    <3>1. RingWalk(Walk(m), pxNext, pxIndex[m], NodesOf(m)) /\ y \in NodesOf(m)
      BY <2>1, <2>4, WalkOfList DEF NodesOf, ItemsOf
    <3>2. QED BY <3>1, <2>4 DEF RingWalk
  <2>6. /\ Walk(m)' = WithoutPlace(Walk(m), p, n)
        /\ \A k \in List : k # m => Walk(k)' = Walk(k)
    BY <1>7, <2>1, <2>4, <2>5, RemoveWalks
  <2>7. CASE m = l
    <3>1. NotLater(l, x)
      BY <2>3, <2>4, <2>5, <2>6, <2>7, RemoveNotLater
    <3>2. QED BY <3>1, <2>3 DEF NotLater, KeepsTurn
  <2>8. CASE m # l
    BY <2>2, <2>6, <2>8, <1>0, <1>1
  <2>9. QED BY <2>7, <2>8
<1>8. ASSUME NEW m \in RoundRobinList, listGET_OWNER_OF_NEXT_ENTRY(m)
      PROVE  KeepsTurn(l, x)
  <2>1. CASE m = l
    <3>1. Closer(l, x)
      BY <1>8, <2>1, NextEntryCloser
    <3>2. pxContainer' = pxContainer
      BY <1>8 DEF listGET_OWNER_OF_NEXT_ENTRY
    <3>3. QED BY <3>1, <3>2 DEF Closer, NotLater, KeepsTurn
  <2>2. CASE m # l
    <3>1. PICK n, t : /\ n = Cardinality(NodesOf(m))
                      /\ t = IF Walk(m)[1] = m THEN Rotated(Rotated(Walk(m), n), n)
                                               ELSE Rotated(Walk(m), n)
      OBVIOUS
    <3>2. Walk(l)' = Walk(l)
      BY <3>1, <2>2, <1>0, <1>8, NextEntryWalks
    <3>3. pxIndex'[l] = pxIndex[l]
      BY <2>2, <1>0, <1>8 DEF listGET_OWNER_OF_NEXT_ENTRY
    <3>4. QED BY <3>2, <3>3, <1>1
  <2>3. QED BY <2>1, <2>2
<1>9. QED
  BY <1>2, <1>3, <1>5, <1>6, <1>7, <1>8
     DEF Next, vars, listSET_LIST_ITEM_VALUE, vListInsertLoop

(* Round robin over any number of items: as long as an item stays in a ready*)
(* list, nothing that vListInsertEnd or uxListRemove does delays its turn, and*)
(* each selection of another item brings it closer.                         *)
THEOREM TurnsComeCloser == Spec => TurnComesCloser
<1>1. RingInv /\ SearchPassed /\ WalksAreInjective' /\ [Next]_vars =>
      \A l \in RoundRobinList : \A x \in ItemsOf(l) \ {pxIndex[l]} :
         pxContainer'[x] = l => KeepsTurn(l, x)
  BY StepKeepsTurn
<1>2. RingInv /\ SearchPassed /\ RingInv' /\ [Next]_vars =>
      [\A l \in RoundRobinList : \A x \in ItemsOf(l) \ {pxIndex[l]} :
          pxContainer'[x] = l
          => IF pxContainer' = pxContainer /\ pxIndex'[l] # pxIndex[l]
             THEN pxIndex'[l] = x \/ TurnsUntil(l, x)' < TurnsUntil(l, x)
             ELSE TurnsUntil(l, x)' <= TurnsUntil(l, x)]_vars
  <2>1. RingInv' => WalksAreInjective'
    BY NoNodeTwice, PTL
  <2>2. QED BY <2>1, <1>1 DEF KeepsTurn
<1>3. QED BY <1>2, RingInvHolds, SearchPassedHolds, PTL DEF Spec, TurnComesCloser
===============================================================================
