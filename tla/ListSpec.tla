------------------------------- MODULE ListSpec -------------------------------
(***************************************************************************)
(* What the kernel expects of os/list.c: every list is a sequence that the  *)
(* operators of ListOps transform.  LinkedList implements this.             *)
(***************************************************************************)
EXTENDS ListOps, FiniteSets

CONSTANTS OrderedList, RoundRobinList, Item, portMAX_DELAY

VARIABLES
    ring,        \* the nodes of a list, from behind its cursor round to it
    xItemValue   \* the sort key of every item

specVars == <<ring, xItemValue>>

SpecList == OrderedList \cup RoundRobinList

Free(x) == \A l \in SpecList : x \notin Elements(ring[l])

(* The key of the marker is not compared: an ordered ring without its last  *)
(* node, the marker, is the sorted sequence.                                *)
Sorted(l) == SubSeq(ring[l], 1, Len(ring[l]) - 1)

SpecInit ==
    /\ ring = [l \in SpecList |-> <<l>>]
    /\ xItemValue = [x \in Item |-> 0]

SetValue(x, v) ==
    /\ xItemValue' = [xItemValue EXCEPT ![x] = v]
    /\ UNCHANGED ring

AddLast(l, x) ==
    /\ Free(x)
    /\ ring' = [ring EXCEPT ![l] = InsertEnd(@, x)]
    /\ UNCHANGED xItemValue

AddInOrder(l, x) ==
    /\ Free(x)
    /\ ring' = [ring EXCEPT ![l] =
                  Append(InsertInOrder(Sorted(l), x, xItemValue), l)]
    /\ UNCHANGED xItemValue

Take(l, x) ==
    /\ x \in Elements(ring[l])
    /\ ring' = [ring EXCEPT ![l] = Without(@, x)]
    /\ UNCHANGED xItemValue

Advance(l) ==
    /\ Len(ring[l]) > 1
    /\ ring' = [ring EXCEPT ![l] = NextRound(@, l)]
    /\ UNCHANGED xItemValue

SpecNext ==
    \/ \E x \in Item, v \in 0 .. portMAX_DELAY : SetValue(x, v)
    \/ \E l \in RoundRobinList, x \in Item : AddLast(l, x)
    \/ \E l \in OrderedList, x \in Item : AddInOrder(l, x)
    \/ \E l \in SpecList, x \in Item : Take(l, x)
    \/ \E l \in RoundRobinList : Advance(l)

Spec == SpecInit /\ [][SpecNext]_specVars
===============================================================================
