-------------------------------- MODULE ListOps --------------------------------
(***************************************************************************)
(* What the operations of os/list.c do to a list seen as a sequence.        *)
(*                                                                         *)
(* A ready list is seen from its cursor: the sequence starts at the node    *)
(* after pxIndex and ends at the node pxIndex points to, so it contains the *)
(* end marker.  A delayed, event or pending list never moves its cursor off *)
(* the marker, so the marker is left out of its sequence.                   *)
(***************************************************************************)
EXTENDS Integers, Sequences

(* vListInsertEnd: the new item goes in front of the cursor.                *)
InsertEnd(s, x) ==
    [i \in 1 .. Len(s) + 1 |-> IF i < Len(s) THEN s[i]
                               ELSE IF i = Len(s) THEN x ELSE s[Len(s)]]

(* vListInsert: the new item goes in front of the first one with a larger   *)
(* key, hence behind the items with the same key.                           *)
InsertPosition(s, x, key) ==
    CHOOSE i \in 1 .. Len(s) + 1 :
        /\ i <= Len(s) => key[s[i]] > key[x]
        /\ \A j \in 1 .. i - 1 : key[s[j]] <= key[x]

InsertInOrder(s, x, key) ==
    LET p == InsertPosition(s, x, key)
    IN [i \in 1 .. Len(s) + 1 |-> IF i < p THEN s[i]
                                  ELSE IF i = p THEN x ELSE s[i - 1]]

(* uxListRemove.                                                            *)
IndexOf(s, x) == CHOOSE i \in 1 .. Len(s) : s[i] = x

Without(s, x) ==
    LET p == IndexOf(s, x)
    IN [i \in 1 .. Len(s) - 1 |-> IF i < p THEN s[i] ELSE s[i + 1]]

(* listGET_OWNER_OF_NEXT_ENTRY: the cursor moves on by one, and by one more *)
(* when that is the marker; the entry chosen is then the last of the        *)
(* sequence.                                                                *)
Rotate(s) ==
    [i \in 1 .. Len(s) |-> IF i < Len(s) THEN s[i + 1] ELSE s[1]]

NextRound(s, marker) == IF s[1] = marker THEN Rotate(Rotate(s)) ELSE Rotate(s)

Elements(s) == {s[i] : i \in 1 .. Len(s)}
NoDuplicates(s) == \A j \in 1 .. Len(s) : \A i \in 1 .. j - 1 : s[i] # s[j]
InOrder(s, key) == \A i, j \in 1 .. Len(s) : i < j => key[s[i]] <= key[s[j]]
===============================================================================
