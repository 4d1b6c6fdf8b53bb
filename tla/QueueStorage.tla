----------------------------- MODULE QueueStorage -----------------------------
(***************************************************************************)
(* The circular message store of a queue (os/queue.c): the storage area     *)
(* behind pcHead and the pointers pcWriteTo and u.xQueue.pcReadFrom.        *)
(*                                                                         *)
(* A pointer is the number of the slot it points to, from 0 at pcHead;      *)
(* uxLength stands for pcTail.  pcReadFrom points to the slot read last, so *)
(* the oldest message is one slot further.  The operators take a store and  *)
(* return it changed; Queue uses them for all its queues, and the           *)
(* specification below is one store on its own.                             *)
(***************************************************************************)
EXTENDS Integers

CONSTANTS
    Message,    \* what callers send
    NoMessage   \* the content of a slot that was never written

ASSUME MessageAssumption == NoMessage \notin Message

(* A store, given what its fields hold.                                     *)
StoreOf(length, slots, write, read, waiting) ==
    [uxLength |-> length, slot |-> slots, pcWriteTo |-> write,
     pcReadFrom |-> read, uxMessagesWaiting |-> waiting]

(* prvInitialiseNewQueue, which ends in xQueueGenericReset(q, true).        *)
NewStore(length) ==
    StoreOf(length, [i \in 0 .. length - 1 |-> NoMessage], 0, length - 1, 0)

(* xQueueGenericReset resets the pointers and leaves the storage alone.     *)
ResetStore(s) == StoreOf(s.uxLength, s.slot, 0, s.uxLength - 1, 0)

(* A pointer past pcTail wraps to pcHead, one before pcHead to the last     *)
(* slot.                                                                    *)
NextSlot(s, p) == IF p + 1 >= s.uxLength THEN 0 ELSE p + 1
PreviousSlot(s, p) == IF p - 1 < 0 THEN s.uxLength - 1 ELSE p - 1

(* Mutants of the copies: the front is written where the back is; an        *)
(* overwritten message is counted again.                                    *)
CopyToFrontAtWritePointer(s, m) ==
    StoreOf(s.uxLength, [s.slot EXCEPT ![s.pcWriteTo] = m], s.pcWriteTo,
            PreviousSlot(s, s.pcReadFrom), s.uxMessagesWaiting + 1)

CopyOverwritingCounted(s, m) ==
    StoreOf(s.uxLength, [s.slot EXCEPT ![s.pcReadFrom] = m], s.pcWriteTo,
            PreviousSlot(s, s.pcReadFrom), s.uxMessagesWaiting + 1)

(* prvCopyDataToQueue of a queue with uxItemSize # 0, for each xPosition.   *)
CopyToBack(s, m) ==
    StoreOf(s.uxLength, [s.slot EXCEPT ![s.pcWriteTo] = m],
            NextSlot(s, s.pcWriteTo), s.pcReadFrom, s.uxMessagesWaiting + 1)

CopyToFront(s, m) ==
    StoreOf(s.uxLength, [s.slot EXCEPT ![s.pcReadFrom] = m], s.pcWriteTo,
            PreviousSlot(s, s.pcReadFrom), s.uxMessagesWaiting + 1)

CopyOverwriting(s, m) ==
    StoreOf(s.uxLength, [s.slot EXCEPT ![s.pcReadFrom] = m], s.pcWriteTo,
            PreviousSlot(s, s.pcReadFrom),
            IF s.uxMessagesWaiting > 0 THEN s.uxMessagesWaiting
                                       ELSE s.uxMessagesWaiting + 1)

(* Mutant of CopiedOut: it copies before it moves the pointer.              *)
CopiedBeforeMoving(s) == s.slot[s.pcReadFrom]

(* prvCopyDataFromQueue moves pcReadFrom and copies the slot it reaches;    *)
(* the caller then counts one message less.                                 *)
CopiedOut(s) == s.slot[NextSlot(s, s.pcReadFrom)]
TakeOut(s) ==
    StoreOf(s.uxLength, s.slot, s.pcWriteTo, NextSlot(s, s.pcReadFrom),
            s.uxMessagesWaiting - 1)
-----------------------------------------------------------------------------
CONSTANT Length   \* uxQueueLength of xQueueGenericCreate

ASSUME LengthAssumption == Length \in Nat \ {0}

VARIABLES store, pvBuffer

storeVars == <<store, pvBuffer>>

StoreInit == store = NewStore(Length) /\ pvBuffer = NoMessage

HasSpace == store.uxMessagesWaiting < store.uxLength
HasMessage == store.uxMessagesWaiting > 0

SendToBack(m) ==
    /\ HasSpace
    /\ store' = CopyToBack(store, m)
    /\ UNCHANGED pvBuffer

SendToFront(m) ==
    /\ HasSpace
    /\ store' = CopyToFront(store, m)
    /\ UNCHANGED pvBuffer

(* Callers overwrite only in queues of length one (xQueueOverwrite).        *)
Overwrite(m) ==
    /\ store.uxLength = 1
    /\ store' = CopyOverwriting(store, m)
    /\ UNCHANGED pvBuffer

Receive ==
    /\ HasMessage
    /\ pvBuffer' = CopiedOut(store)
    /\ store' = TakeOut(store)

(* xQueuePeek puts pcReadFrom back where it was.                            *)
Peek ==
    /\ HasMessage
    /\ pvBuffer' = CopiedOut(store)
    /\ UNCHANGED store

Reset == store' = ResetStore(store) /\ UNCHANGED pvBuffer

StoreNext ==
    \/ \E m \in Message : SendToBack(m) \/ SendToFront(m) \/ Overwrite(m)
    \/ Receive
    \/ Peek
    \/ Reset

StoreSpec == StoreInit /\ [][StoreNext]_storeVars
-----------------------------------------------------------------------------
Slot == 0 .. Length - 1

StoreTypeOK ==
    /\ store \in [uxLength : {Length}, slot : [Slot -> Message \cup {NoMessage}],
                  pcWriteTo : Slot, pcReadFrom : Slot,
                  uxMessagesWaiting : 0 .. Length]
    /\ pvBuffer \in Message \cup {NoMessage}

(* The slot that is i places behind the one read last.                      *)
SlotAfter(s, i) ==
    LET k == s.pcReadFrom + i
    IN IF k < s.uxLength THEN k
       ELSE IF k < 2 * s.uxLength THEN k - s.uxLength
       ELSE k - 2 * s.uxLength

(* The write pointer is where the count and the read pointer say it is.     *)
PointersAgree ==
    store.pcWriteTo = SlotAfter(store, store.uxMessagesWaiting + 1)

(* No slot that counts as waiting was left unwritten.                       *)
WaitingWereWritten ==
    \A i \in 1 .. store.uxMessagesWaiting :
        store.slot[SlotAfter(store, i)] \in Message

(* pcReadFrom, pcWriteTo and uxMessagesWaiting agree at every wrap, and what *)
(* counts as waiting was written.                                           *)
StoreInv == StoreTypeOK /\ PointersAgree /\ WaitingWereWritten

(* The messages of a store, the oldest first.                               *)
Waiting(s) == [i \in 1 .. s.uxMessagesWaiting |-> s.slot[SlotAfter(s, i)]]

Fifo == INSTANCE FifoQueue
          WITH uxLength <- Length, contents <- Waiting(store),
               buffer <- pvBuffer

(* The store implements the promised queue: what xQueueReceive and          *)
(* xQueuePeek copy out is the front of the sequence that xQueueGenericSend  *)
(* with its three copy positions and xQueueGenericReset maintain.           *)
ImplementsFifo == Fifo!FifoSpec
===============================================================================
