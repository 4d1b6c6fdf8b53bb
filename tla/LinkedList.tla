------------------------------ MODULE LinkedList ------------------------------
(***************************************************************************)
(* The kernel's intrusive doubly linked lists (os/list.c, os/list.h) at the *)
(* level of their pointers.                                                *)
(*                                                                         *)
(* A LinkedList owns one end marker, xListEnd, that closes its ring; here a *)
(* list stands for its own marker, so a node is an item or a list.  Every   *)
(* operation runs with interrupts and the scheduler held off, hence the     *)
(* operations are atomic with respect to each other; only the search loop   *)
(* of vListInsert takes one step per iteration, so that its termination is  *)
(* a property of the model and not of an operator.                          *)
(***************************************************************************)
EXTENDS Integers, FiniteSets

CONSTANTS
    OrderedList,     \* lists filled by vListInsert (delayed and event lists)
    RoundRobinList,  \* lists filled by vListInsertEnd (ready lists)
    Item,            \* LinkedListNode objects (xStateListItem, xEventListItem)
    portMAX_DELAY,   \* the largest TickType, value of every end marker
    NULL

List == OrderedList \cup RoundRobinList
Node == Item \cup List
TickType == 0 .. portMAX_DELAY

ASSUME ListAssumption ==
    /\ OrderedList \cap RoundRobinList = {}
    /\ Item \cap List = {}
    /\ NULL \notin Node
    /\ portMAX_DELAY \in Nat \ {0}
    /\ IsFiniteSet(Item)

VARIABLES
    pxNext, pxPrevious,  \* the links of every node
    pxContainer,         \* the list an item is in, or NULL
    xItemValue,          \* the sort key of an item
    pxIndex,             \* the cursor of a list
    uxNumberOfItems,     \* the length field of a list
    search,              \* the locals of a vListInsert in its loop, or NULL
    rekeyed              \* history: lists with a key set in place, see below

vars == <<pxNext, pxPrevious, pxContainer, xItemValue, pxIndex,
          uxNumberOfItems, search, rekeyed>>
-----------------------------------------------------------------------------
(* The value a node compares with: the marker holds portMAX_DELAY.          *)
ValueOf(n) == IF n \in List THEN portMAX_DELAY ELSE xItemValue[n]

ItemsOf(l) == {x \in Item : pxContainer[x] = l}
NodesOf(l) == {l} \cup ItemsOf(l)

Idle == search = NULL
-----------------------------------------------------------------------------
(* vListInitialise of every list and vListInitialiseItem of every item; the *)
(* links of an item that is in no list are never read.                      *)
Init ==
    /\ pxNext = [n \in Node |-> n]
    /\ pxPrevious = [n \in Node |-> n]
    /\ pxContainer = [x \in Item |-> NULL]
    /\ xItemValue = [x \in Item |-> 0]
    /\ pxIndex = [l \in List |-> l]
    /\ uxNumberOfItems = [l \in List |-> 0]
    /\ search = NULL
    /\ rekeyed = {}

(* The owner sets the key of an item, in a list or out of one: priority     *)
(* inheritance sets it in an event list and leaves the item where it is.    *)
(* Such a list counts as rekeyed until it is empty again.                   *)
listSET_LIST_ITEM_VALUE(x, v) ==
    /\ Idle
    /\ xItemValue' = [xItemValue EXCEPT ![x] = v]
    /\ rekeyed' = rekeyed \cup ({pxContainer[x]} \cap OrderedList)
    /\ UNCHANGED <<pxNext, pxPrevious, pxContainer, pxIndex,
                   uxNumberOfItems, search>>

(* Mutant of LinkBetween: one of the four pointer assignments is missing.   *)
LinkWithoutBackLink(l, x, before, after) ==
    /\ pxNext' = [pxNext EXCEPT ![x] = after, ![before] = x]
    /\ pxPrevious' = [pxPrevious EXCEPT ![x] = before]
    /\ pxContainer' = [pxContainer EXCEPT ![x] = l]
    /\ uxNumberOfItems' = [uxNumberOfItems EXCEPT ![l] = @ + 1]

(* The four pointer assignments that put x between two adjacent nodes, and  *)
(* the bookkeeping of pxContainer and uxNumberOfItems.                      *)
LinkBetween(l, x, before, after) ==
    /\ pxNext' = [pxNext EXCEPT ![x] = after, ![before] = x]
    /\ pxPrevious' = [pxPrevious EXCEPT ![x] = before, ![after] = x]
    /\ pxContainer' = [pxContainer EXCEPT ![x] = l]
    /\ uxNumberOfItems' = [uxNumberOfItems EXCEPT ![l] = @ + 1]

(* x becomes the last item that a round starting at pxIndex reaches.        *)
vListInsertEnd(l, x) ==
    /\ Idle
    /\ pxContainer[x] = NULL
    /\ LinkBetween(l, x, pxPrevious[pxIndex[l]], pxIndex[l])
    /\ UNCHANGED <<xItemValue, pxIndex, search, rekeyed>>

(* Mutant of vListInsert: the case of a key equal to the marker's is left   *)
(* out.                                                                     *)
InsertAlwaysSearching(l, x) ==
    /\ Idle
    /\ pxContainer[x] = NULL
    /\ search' = [list |-> l, item |-> x, pxIterator |-> l]
    /\ UNCHANGED <<pxNext, pxPrevious, pxContainer, uxNumberOfItems,
                   xItemValue, pxIndex, rekeyed>>

(* vListInsert up to its loop: a key equal to the marker's would never stop *)
(* the loop, so such an item goes straight in front of the marker.          *)
vListInsert(l, x) ==
    /\ Idle
    /\ pxContainer[x] = NULL
    /\ \/ /\ xItemValue[x] = portMAX_DELAY
          /\ LinkBetween(l, x, pxPrevious[l], l)
          /\ UNCHANGED search
       \/ /\ xItemValue[x] # portMAX_DELAY
          /\ search' = [list |-> l, item |-> x, pxIterator |-> l]
          /\ UNCHANGED <<pxNext, pxPrevious, pxContainer, uxNumberOfItems>>
    /\ UNCHANGED <<xItemValue, pxIndex, rekeyed>>

(* Mutant of KeepSearching: the comparison is strict.                       *)
SearchBeforeEqual ==
    ValueOf(pxNext[search.pxIterator]) < xItemValue[search.item]

(* The loop test of vListInsert: is the next node still not beyond the key? *)
KeepSearching ==
    ValueOf(pxNext[search.pxIterator]) <= xItemValue[search.item]

vListInsertLoop ==
    /\ search # NULL
    /\ KeepSearching
    /\ search' = [search EXCEPT !.pxIterator = pxNext[@]]
    /\ UNCHANGED <<pxNext, pxPrevious, pxContainer, xItemValue, pxIndex,
                   uxNumberOfItems, rekeyed>>

vListInsertLink ==
    /\ search # NULL
    /\ ~KeepSearching
    /\ LinkBetween(search.list, search.item,
                   search.pxIterator, pxNext[search.pxIterator])
    /\ search' = NULL
    /\ UNCHANGED <<xItemValue, pxIndex, rekeyed>>

(* The last item of a list takes its history along.                         *)
RekeyedAfter(x) == rekeyed' = {l \in rekeyed : ItemsOf(l) # {x}}

(* Mutants of uxListRemove: the length is not decremented; or a cursor on   *)
(* the removed item steps forward.                                          *)
RemoveWithoutCounting(x) ==
    /\ Idle
    /\ pxContainer[x] # NULL
    /\ LET l == pxContainer[x] IN
       /\ pxPrevious' = [pxPrevious EXCEPT ![pxNext[x]] = pxPrevious[x]]
       /\ pxNext' = [pxNext EXCEPT ![pxPrevious[x]] = pxNext[x]]
       /\ pxIndex' = [pxIndex EXCEPT ![l] =
                        IF @ = x THEN pxPrevious[x] ELSE @]
       /\ pxContainer' = [pxContainer EXCEPT ![x] = NULL]
    /\ RekeyedAfter(x)
    /\ UNCHANGED <<xItemValue, uxNumberOfItems, search>>

RemoveSteppingForward(x) ==
    /\ Idle
    /\ pxContainer[x] # NULL
    /\ LET l == pxContainer[x] IN
       /\ pxPrevious' = [pxPrevious EXCEPT ![pxNext[x]] = pxPrevious[x]]
       /\ pxNext' = [pxNext EXCEPT ![pxPrevious[x]] = pxNext[x]]
       /\ pxIndex' = [pxIndex EXCEPT ![l] = IF @ = x THEN pxNext[x] ELSE @]
       /\ pxContainer' = [pxContainer EXCEPT ![x] = NULL]
       /\ uxNumberOfItems' = [uxNumberOfItems EXCEPT ![l] = @ - 1]
    /\ RekeyedAfter(x)
    /\ UNCHANGED <<xItemValue, search>>

(* The removed item keeps its own links; a cursor on it steps back.         *)
uxListRemove(x) ==
    /\ Idle
    /\ pxContainer[x] # NULL
    /\ LET l == pxContainer[x] IN
       /\ pxPrevious' = [pxPrevious EXCEPT ![pxNext[x]] = pxPrevious[x]]
       /\ pxNext' = [pxNext EXCEPT ![pxPrevious[x]] = pxNext[x]]
       /\ pxIndex' = [pxIndex EXCEPT ![l] =
                        IF @ = x THEN pxPrevious[x] ELSE @]
       /\ pxContainer' = [pxContainer EXCEPT ![x] = NULL]
       /\ uxNumberOfItems' = [uxNumberOfItems EXCEPT ![l] = @ - 1]
    /\ RekeyedAfter(x)
    /\ UNCHANGED <<xItemValue, search>>

(* The cursor advances over the marker to the next item, which is returned. *)
(* The scheduler only asks a list that is not empty.                        *)
NextEntry(l) ==
    IF pxNext[pxIndex[l]] = l THEN pxNext[l] ELSE pxNext[pxIndex[l]]

listGET_OWNER_OF_NEXT_ENTRY(l) ==
    /\ Idle
    /\ uxNumberOfItems[l] > 0
    /\ pxIndex' = [pxIndex EXCEPT ![l] = NextEntry(l)]
    /\ UNCHANGED <<pxNext, pxPrevious, pxContainer, xItemValue,
                   uxNumberOfItems, search, rekeyed>>

Next ==
    \/ \E x \in Item, v \in TickType : listSET_LIST_ITEM_VALUE(x, v)
    \/ \E l \in RoundRobinList, x \in Item : vListInsertEnd(l, x)
    \/ \E l \in OrderedList, x \in Item : vListInsert(l, x)
    \/ vListInsertLoop
    \/ vListInsertLink
    \/ \E x \in Item : uxListRemove(x)
    \/ \E l \in RoundRobinList : listGET_OWNER_OF_NEXT_ENTRY(l)

Spec == Init /\ [][Next]_vars

(* A kernel routine that has entered the search loop keeps executing it.    *)
FairSpec == Spec /\ WF_vars(vListInsertLoop \/ vListInsertLink)
-----------------------------------------------------------------------------
TypeOK ==
    /\ pxNext \in [Node -> Node]
    /\ pxPrevious \in [Node -> Node]
    /\ pxContainer \in [Item -> List \cup {NULL}]
    /\ xItemValue \in [Item -> TickType]
    /\ pxIndex \in [List -> Node]
    /\ uxNumberOfItems \in [List -> Int]
    /\ search \in [list : OrderedList, item : Item, pxIterator : Node]
                  \cup {NULL}
    /\ rekeyed \subseteq OrderedList

(* Every list is a ring: from any of its nodes one step along either link   *)
(* stays in the same list and the opposite link leads back, and the cursor  *)
(* is on a node of its own list (vListInsertEnd, vListInsert, uxListRemove).*)
RingsAreClosed ==
    \A l \in List :
        /\ pxIndex[l] \in NodesOf(l)
        /\ \A n \in NodesOf(l) :
            /\ pxNext[n] \in NodesOf(l)
            /\ pxPrevious[n] \in NodesOf(l)
            /\ pxPrevious[pxNext[n]] = n
            /\ pxNext[pxPrevious[n]] = n

(* Every item of a list is met on the way round from its marker: a set of   *)
(* nodes that holds the marker and is closed under pxNext is the whole list,*)
(* so no insertion or removal splits a ring in two.                         *)
RingsAreConnected ==
    \A l \in List : \A S \in SUBSET NodesOf(l) :
        (l \in S /\ \A n \in S : pxNext[n] \in S) => S = NodesOf(l)

(* The length that listLIST_IS_EMPTY and the callers of uxListRemove trust  *)
(* is the number of items whose container is the list.                      *)
LengthIsExact == \A l \in List : uxNumberOfItems[l] = Cardinality(ItemsOf(l))

(* A list filled by vListInsert is sorted as long as the items in it keep   *)
(* the keys they came with: no item precedes one with a smaller key,        *)
(* whatever was removed or inserted in between.                             *)
OrderedListsAreSorted ==
    \A l \in OrderedList \ rekeyed : \A x \in ItemsOf(l) :
        ValueOf(x) <= ValueOf(pxNext[x])

(* While vListInsert searches, its iterator is on the list it searches, at  *)
(* a node the new item may follow.                                          *)
SearchIsOnTheList ==
    search # NULL =>
        /\ pxContainer[search.item] = NULL
        /\ xItemValue[search.item] < portMAX_DELAY
        /\ search.pxIterator \in NodesOf(search.list)
        /\ search.pxIterator \in Item =>
               xItemValue[search.pxIterator] <= xItemValue[search.item]

(* Whatever order the operations of list.c come in, and whenever keys are   *)
(* set, each list stays one ring around its marker with links that agree,   *)
(* and the search of vListInsert stands on the list it searches, also if    *)
(* that is not sorted; a list filled by vListInsert is sorted from the time *)
(* it is empty until the key of an item in it is set.                       *)
ListInv ==
    /\ TypeOK
    /\ RingsAreClosed
    /\ RingsAreConnected
    /\ OrderedListsAreSorted
    /\ SearchIsOnTheList
-----------------------------------------------------------------------------
(* The nodes of list l in the order of pxNext, from the one behind the      *)
(* cursor round to the cursor itself; as many steps as the list has nodes.  *)
Walk(l) ==
    LET n == uxNumberOfItems[l] + 1
        node[i \in 1 .. n] == IF i = 1 THEN pxNext[pxIndex[l]]
                              ELSE pxNext[node[i - 1]]
    IN [i \in 1 .. n |-> node[i]]

Abstract == INSTANCE ListSpec WITH ring <- [l \in List |-> Walk(l)]

(* The pointer structure implements the sequence operations the kernel      *)
(* modules use: vListInsertEnd, vListInsert (after its loop), uxListRemove  *)
(* and listGET_OWNER_OF_NEXT_ENTRY do to the ring what ListOps says.        *)
ImplementsListSpec == Abstract!Spec

(* How many selections of list l come before item x is selected.            *)
TurnsUntil(l, x) ==
    LET others == {i \in DOMAIN Walk(l) : Walk(l)[i] # l}
    IN Cardinality({i \in others :
           i <= CHOOSE j \in DOMAIN Walk(l) : Walk(l)[j] = x})

(* Round robin: as long as an item stays in a ready list, no insertion or   *)
(* removal of another item delays its turn, and every selection of another  *)
(* item brings it closer (vListInsertEnd puts new items behind all others,  *)
(* uxListRemove steps a cursor back and not forward).                       *)
TurnComesCloser ==
    [][\A l \in RoundRobinList : \A x \in ItemsOf(l) \ {pxIndex[l]} :
          pxContainer'[x] = l
          => IF pxContainer' = pxContainer /\ pxIndex'[l] # pxIndex[l]
             THEN pxIndex'[l] = x \/ TurnsUntil(l, x)' < TurnsUntil(l, x)
             ELSE TurnsUntil(l, x)' <= TurnsUntil(l, x)]_vars
===============================================================================
