-------------------------- MODULE QueueStorageProofs --------------------------
(***************************************************************************)
(* TLAPS proofs about QueueStorage: for every length of the queue and every *)
(* set of messages the circular store behaves as the bounded FIFO sequence  *)
(* of FifoQueue.                                                            *)
(***************************************************************************)
EXTENDS QueueStorage, Sequences, SequenceTheorems, TLAPS

(* The pointers of a store with its slots, as the lemmas assume them.       *)
Store ==
    [uxLength : {Length}, slot : [Slot -> Message \cup {NoMessage}],
     pcWriteTo : Slot, pcReadFrom : Slot, uxMessagesWaiting : 0 .. Length]

(* The types of the fields of a store.                                      *)
LEMMA StoreFields ==
    ASSUME NEW s \in Store
    PROVE  /\ s.uxLength = Length /\ Length \in Nat /\ Length >= 1
           /\ s.slot \in [Slot -> Message \cup {NoMessage}]
           /\ s.pcWriteTo \in Slot /\ s.pcReadFrom \in Slot
           /\ s.uxMessagesWaiting \in 0 .. Length
           /\ s.pcWriteTo \in Int /\ s.pcReadFrom \in Int
  BY LengthAssumption DEF Store, Slot

(* Positions behind the read pointer are slots, distinct ones within one    *)
(* turn of the ring.                                                        *)
LEMMA SlotAfterRange ==
    ASSUME NEW s \in Store, NEW i \in 1 .. Length + 1
    PROVE  SlotAfter(s, i) \in Slot
  BY StoreFields DEF SlotAfter, Slot

(* Two different messages lie in two different slots.                       *)
LEMMA SlotAfterInjective ==
    ASSUME NEW s \in Store, NEW i \in 1 .. Length, NEW j \in 1 .. Length,
           SlotAfter(s, i) = SlotAfter(s, j)
    PROVE  i = j
  BY StoreFields DEF SlotAfter, Slot

(* One step on from a position is the next position (prvCopyDataToQueue and *)
(* prvCopyDataFromQueue wrap the same way).                                 *)
LEMMA SlotAfterNext ==
    ASSUME NEW s \in Store, NEW i \in 1 .. Length
    PROVE  NextSlot(s, SlotAfter(s, i)) = SlotAfter(s, i + 1)
  BY SMTT(40), StoreFields DEF SlotAfter, NextSlot, Slot

(* Seen from a read pointer that moved on, everything is one place nearer.  *)
LEMMA SlotAfterAdvance ==
    ASSUME NEW s \in Store, NEW t \in Store,
           t.pcReadFrom = NextSlot(s, s.pcReadFrom), NEW i \in 1 .. Length
    PROVE  SlotAfter(t, i) = SlotAfter(s, i + 1)
<1>1. /\ s.uxLength = Length /\ t.uxLength = Length /\ Length \in Nat
      /\ s.pcReadFrom \in 0 .. Length - 1 /\ t.pcReadFrom \in 0 .. Length - 1
  BY StoreFields DEF Slot
<1>2. CASE s.pcReadFrom = Length - 1
  <2>1. t.pcReadFrom = 0
    BY <1>1, <1>2 DEF NextSlot
  <2>2. SlotAfter(t, i) = IF i < Length THEN i ELSE 0
    BY <2>1, <1>1 DEF SlotAfter
  <2>3. SlotAfter(s, i + 1) = IF i < Length THEN i ELSE 0
    BY <1>1, <1>2 DEF SlotAfter
  <2>4. QED BY <2>2, <2>3
<1>3. CASE s.pcReadFrom # Length - 1
  <2>1. t.pcReadFrom = s.pcReadFrom + 1
    BY <1>1, <1>3 DEF NextSlot
  <2>2. t.pcReadFrom + i = s.pcReadFrom + (i + 1)
    BY <2>1, <1>1
  <2>3. QED BY <2>2, <1>1 DEF SlotAfter
<1>4. QED BY <1>2, <1>3

(* And one place further from a read pointer that moved back.               *)
LEMMA SlotAfterRetreat ==
    ASSUME NEW s \in Store, NEW t \in Store,
           t.pcReadFrom = PreviousSlot(s, s.pcReadFrom), NEW i \in 1 .. Length
    PROVE  /\ SlotAfter(t, 1) = s.pcReadFrom
           /\ SlotAfter(t, i + 1) = SlotAfter(s, i)
<1>1. /\ s.uxLength = Length /\ t.uxLength = Length /\ Length \in Nat
      /\ s.pcReadFrom \in 0 .. Length - 1 /\ t.pcReadFrom \in 0 .. Length - 1
  BY StoreFields DEF Slot
<1>2. QED BY <1>1 DEF SlotAfter, PreviousSlot

(* The oldest message lies one slot on from the read pointer, which is      *)
(* where prvCopyDataFromQueue reads.                                        *)
LEMMA FirstSlot ==
    ASSUME NEW s \in Store
    PROVE  SlotAfter(s, 1) = NextSlot(s, s.pcReadFrom)
  BY StoreFields DEF SlotAfter, NextSlot, Slot

(* A whole turn on from the read pointer is the read pointer itself.        *)
LEMMA LastSlot ==
    ASSUME NEW s \in Store
    PROVE  SlotAfter(s, Length) = s.pcReadFrom
  BY StoreFields DEF SlotAfter, Slot
-----------------------------------------------------------------------------
(* What each operation does to the fields of a store.                       *)
LEMMA CopyToBackFields ==
    ASSUME NEW s \in Store, NEW m \in Message, s.uxMessagesWaiting < Length
    PROVE  /\ CopyToBack(s, m) \in Store
           /\ CopyToBack(s, m).slot = [s.slot EXCEPT ![s.pcWriteTo] = m]
           /\ CopyToBack(s, m).pcWriteTo = NextSlot(s, s.pcWriteTo)
           /\ CopyToBack(s, m).pcReadFrom = s.pcReadFrom
           /\ CopyToBack(s, m).uxMessagesWaiting = s.uxMessagesWaiting + 1
<1>1. NextSlot(s, s.pcWriteTo) \in Slot
  BY StoreFields DEF NextSlot, Slot
<1>2. s.uxMessagesWaiting + 1 \in 0 .. Length
  BY StoreFields
<1>3. QED BY <1>1, <1>2, StoreFields DEF CopyToBack, StoreOf, Store

(* queueSEND_TO_FRONT writes at the read pointer and moves it back.         *)
LEMMA CopyToFrontFields ==
    ASSUME NEW s \in Store, NEW m \in Message, s.uxMessagesWaiting < Length
    PROVE  /\ CopyToFront(s, m) \in Store
           /\ CopyToFront(s, m).slot = [s.slot EXCEPT ![s.pcReadFrom] = m]
           /\ CopyToFront(s, m).pcWriteTo = s.pcWriteTo
           /\ CopyToFront(s, m).pcReadFrom = PreviousSlot(s, s.pcReadFrom)
           /\ CopyToFront(s, m).uxMessagesWaiting = s.uxMessagesWaiting + 1
<1>1. PreviousSlot(s, s.pcReadFrom) \in Slot
  BY StoreFields DEF PreviousSlot, Slot
<1>2. s.uxMessagesWaiting + 1 \in 0 .. Length
  BY StoreFields
<1>3. QED BY <1>1, <1>2, StoreFields DEF CopyToFront, StoreOf, Store

(* queueOVERWRITE counts no message more when there was one.                *)
LEMMA CopyOverwritingFields ==
    ASSUME NEW s \in Store, NEW m \in Message, Length = 1
    PROVE  /\ CopyOverwriting(s, m) \in Store
           /\ CopyOverwriting(s, m).slot = [s.slot EXCEPT ![0] = m]
           /\ CopyOverwriting(s, m).pcWriteTo = s.pcWriteTo
           /\ CopyOverwriting(s, m).pcReadFrom = 0
           /\ CopyOverwriting(s, m).uxMessagesWaiting = 1
<1>1. /\ PreviousSlot(s, s.pcReadFrom) = 0 /\ s.pcReadFrom = 0
      /\ 0 \in Slot /\ 1 \in 0 .. Length
  BY StoreFields DEF PreviousSlot, Slot
<1>2. (IF s.uxMessagesWaiting > 0 THEN s.uxMessagesWaiting
       ELSE s.uxMessagesWaiting + 1) = 1
  BY StoreFields
<1>3. QED BY <1>1, <1>2, StoreFields DEF CopyOverwriting, StoreOf, Store

(* prvCopyDataFromQueue moves the read pointer on and counts one less.      *)
LEMMA TakeOutFields ==
    ASSUME NEW s \in Store, s.uxMessagesWaiting > 0
    PROVE  /\ TakeOut(s) \in Store /\ TakeOut(s).slot = s.slot
           /\ TakeOut(s).pcWriteTo = s.pcWriteTo
           /\ TakeOut(s).pcReadFrom = NextSlot(s, s.pcReadFrom)
           /\ TakeOut(s).uxMessagesWaiting = s.uxMessagesWaiting - 1
<1>1. NextSlot(s, s.pcReadFrom) \in Slot
  BY StoreFields DEF NextSlot, Slot
<1>2. s.uxMessagesWaiting - 1 \in 0 .. Length
  BY StoreFields
<1>3. QED BY <1>1, <1>2, StoreFields DEF TakeOut, StoreOf, Store

(* xQueueGenericReset puts both pointers where a new queue has them.        *)
LEMMA ResetFields ==
    ASSUME NEW s \in Store
    PROVE  /\ ResetStore(s) \in Store /\ ResetStore(s).slot = s.slot
           /\ ResetStore(s).pcWriteTo = 0
           /\ ResetStore(s).pcReadFrom = Length - 1
           /\ ResetStore(s).uxMessagesWaiting = 0
<1>1. 0 \in Slot /\ Length - 1 \in Slot /\ 0 \in 0 .. Length
  BY StoreFields DEF Slot
<1>2. QED BY <1>1, StoreFields DEF ResetStore, StoreOf, Store
-----------------------------------------------------------------------------
(* StoreInv, said of any store.                                             *)
Good(s) ==
    /\ s \in Store
    /\ s.pcWriteTo = SlotAfter(s, s.uxMessagesWaiting + 1)
    /\ \A i \in 1 .. s.uxMessagesWaiting : s.slot[SlotAfter(s, i)] \in Message

(* The invariants the runs check say that the store is good.                *)
LEMMA StoreInvIsGood ==
    StoreInv <=> Good(store) /\ pvBuffer \in Message \cup {NoMessage}
  BY DEF StoreInv, Good, StoreTypeOK, PointersAgree, WaitingWereWritten, Store

(* The messages of a good store form a sequence of their number.            *)
LEMMA WaitingIsSequence ==
    ASSUME NEW s, Good(s)
    PROVE  /\ Waiting(s) \in Seq(Message)
           /\ Len(Waiting(s)) = s.uxMessagesWaiting
           /\ s.uxMessagesWaiting \in Nat
           /\ \A i \in 1 .. s.uxMessagesWaiting :
                 Waiting(s)[i] = s.slot[SlotAfter(s, i)]
  BY StoreFields DEF Good, Waiting

(* prvCopyDataToQueue with queueSEND_TO_BACK writes behind the last message *)
(* and touches none of the others.                                          *)
LEMMA CopyToBackAppends ==
    ASSUME NEW s, Good(s), NEW m \in Message, s.uxMessagesWaiting < Length
    PROVE  /\ Good(CopyToBack(s, m))
           /\ Waiting(CopyToBack(s, m)) = Append(Waiting(s), m)
<1> DEFINE t == CopyToBack(s, m)
           n == s.uxMessagesWaiting
<1>1. /\ s \in Store /\ t \in Store /\ n \in 0 .. Length - 1 /\ Length \in Nat
      /\ t.slot = [s.slot EXCEPT ![s.pcWriteTo] = m]
      /\ s.slot \in [Slot -> Message \cup {NoMessage}]
      /\ t.pcWriteTo = NextSlot(s, s.pcWriteTo)
      /\ t.pcReadFrom = s.pcReadFrom /\ t.uxMessagesWaiting = n + 1
      /\ t.uxLength = s.uxLength
      /\ s.pcWriteTo = SlotAfter(s, n + 1) /\ s.pcWriteTo \in Slot
  BY CopyToBackFields, StoreFields DEF Good
<1> HIDE DEF t, n
<1>2. \A i : SlotAfter(t, i) = SlotAfter(s, i)
  BY <1>1 DEF SlotAfter
<1>3. t.pcWriteTo = SlotAfter(t, t.uxMessagesWaiting + 1)
  BY <1>1, <1>2, SlotAfterNext
<1>4. \A i \in 1 .. n : t.slot[SlotAfter(t, i)] = s.slot[SlotAfter(s, i)]
  <2> TAKE i \in 1 .. n
  <2>1. /\ i \in 1 .. Length /\ n + 1 \in 1 .. Length /\ i # n + 1
        /\ i \in 1 .. Length + 1
    BY <1>1
  <2>2. SlotAfter(s, i) # s.pcWriteTo
    BY <1>1, <2>1, SlotAfterInjective
  <2>3. SlotAfter(s, i) \in Slot
    BY <1>1, <2>1, SlotAfterRange
  <2>4. QED BY <1>1, <1>2, <2>2, <2>3
<1>5. t.slot[SlotAfter(t, n + 1)] = m
  BY <1>1, <1>2
<1>6. \A i \in 1 .. n : s.slot[SlotAfter(s, i)] \in Message
  BY DEF Good, n
<1>7. \A i \in 1 .. n + 1 : t.slot[SlotAfter(t, i)] \in Message
  <2> TAKE i \in 1 .. n + 1
  <2>1. CASE i = n + 1
    BY <1>5, <2>1
  <2>2. CASE i \in 1 .. n
    BY <1>4, <1>6, <2>2
  <2>3. QED BY <1>1, <2>1, <2>2
<1>8. Good(t)
  BY <1>1, <1>3, <1>7 DEF Good
<1>9. Waiting(t) = Append(Waiting(s), m)
  <2>1. /\ Waiting(t) \in Seq(Message) /\ Len(Waiting(t)) = n + 1
        /\ \A i \in 1 .. n + 1 : Waiting(t)[i] = t.slot[SlotAfter(t, i)]
    BY ZenonT(60), <1>1, <1>8, WaitingIsSequence
  <2>2. /\ Waiting(s) \in Seq(Message) /\ Len(Waiting(s)) = n
        /\ \A i \in 1 .. n : Waiting(s)[i] = s.slot[SlotAfter(s, i)]
    BY WaitingIsSequence DEF n
  <2> DEFINE w == Waiting(s)  v == Waiting(t)
  <2> HIDE DEF w, v
  <2>3. /\ v \in Seq(Message) /\ Append(w, m) \in Seq(Message)
        /\ Len(v) = Len(Append(w, m))
    BY <2>1, <2>2 DEF w, v
  <2>4. \A i \in 1 .. Len(v) : v[i] = Append(w, m)[i]
    <3> TAKE i \in 1 .. Len(v)
    <3>1. CASE i = n + 1
      BY <1>1, <1>5, <2>1, <2>2, <3>1 DEF w, v
    <3>2. CASE i \in 1 .. n
      BY <1>1, <1>4, <2>1, <2>2, <3>2 DEF w, v
    <3>3. Len(v) = n + 1
      BY <2>1 DEF v
    <3>4. n \in Nat
      BY <1>1
    <3>5. i = n + 1 \/ i \in 1 .. n
      BY <3>3, <3>4
    <3>6. QED BY <3>1, <3>2, <3>5
  <2>5. v = Append(w, m)
    BY <2>3, <2>4, SeqEqual
  <2>6. QED BY <2>5 DEF w, v
<1>10. QED BY <1>8, <1>9 DEF t

(* queueSEND_TO_FRONT writes the slot read last, which then comes first.    *)
LEMMA CopyToFrontPrepends ==
    ASSUME NEW s, Good(s), NEW m \in Message, s.uxMessagesWaiting < Length
    PROVE  /\ Good(CopyToFront(s, m))
           /\ Waiting(CopyToFront(s, m)) = <<m>> \o Waiting(s)
<1> DEFINE t == CopyToFront(s, m)
           n == s.uxMessagesWaiting
<1>1. /\ s \in Store /\ t \in Store /\ n \in 0 .. Length - 1 /\ Length \in Nat
      /\ t.slot = [s.slot EXCEPT ![s.pcReadFrom] = m]
      /\ s.slot \in [Slot -> Message \cup {NoMessage}]
      /\ t.pcReadFrom = PreviousSlot(s, s.pcReadFrom)
      /\ t.pcWriteTo = s.pcWriteTo /\ t.uxMessagesWaiting = n + 1
      /\ s.pcWriteTo = SlotAfter(s, n + 1) /\ s.pcReadFrom \in Slot
  BY CopyToFrontFields, StoreFields DEF Good
<1> HIDE DEF t, n
<1>2. /\ SlotAfter(t, 1) = s.pcReadFrom
      /\ \A i \in 1 .. Length : SlotAfter(t, i + 1) = SlotAfter(s, i)
  <2>1. 1 \in 1 .. Length
    BY <1>1
  <2>2. QED BY <1>1, <2>1, SlotAfterRetreat
<1>3. t.pcWriteTo = SlotAfter(t, t.uxMessagesWaiting + 1)
  <2>1. n + 1 \in 1 .. Length
    BY <1>1
  <2>2. QED BY <1>1, <1>2, <2>1
<1>4. \A i \in 1 .. n : t.slot[SlotAfter(t, i + 1)] = s.slot[SlotAfter(s, i)]
  <2> TAKE i \in 1 .. n
  <2>1. /\ i \in 1 .. Length /\ Length \in 1 .. Length /\ i # Length
        /\ i \in 1 .. Length + 1
    BY <1>1
  <2>2. SlotAfter(s, i) # s.pcReadFrom
    BY <1>1, <2>1, SlotAfterInjective, LastSlot
  <2>3. SlotAfter(s, i) \in Slot
    BY <1>1, <2>1, SlotAfterRange
  <2>4. QED BY <1>1, <1>2, <2>1, <2>2, <2>3
<1>5. t.slot[SlotAfter(t, 1)] = m
  BY <1>1, <1>2
<1>6. \A i \in 1 .. n : s.slot[SlotAfter(s, i)] \in Message
  BY DEF Good, n
<1>7. \A i \in 1 .. n + 1 : t.slot[SlotAfter(t, i)] \in Message
  <2> TAKE i \in 1 .. n + 1
  <2>1. CASE i = 1
    BY <1>5, <2>1
  <2>2. CASE i # 1
    <3>1. i - 1 \in 1 .. n /\ (i - 1) + 1 = i
      BY <1>1, <2>2
    <3>2. QED BY <1>4, <1>6, <3>1
  <2>3. QED BY <2>1, <2>2
<1>8. Good(t)
  BY <1>1, <1>3, <1>7 DEF Good
<1>9. Waiting(t) = <<m>> \o Waiting(s)
  <2>1. /\ Waiting(t) \in Seq(Message) /\ Len(Waiting(t)) = n + 1
        /\ \A i \in 1 .. n + 1 : Waiting(t)[i] = t.slot[SlotAfter(t, i)]
    BY <1>1, <1>8, WaitingIsSequence
  <2>2. /\ Waiting(s) \in Seq(Message) /\ Len(Waiting(s)) = n
        /\ \A i \in 1 .. n : Waiting(s)[i] = s.slot[SlotAfter(s, i)]
    BY WaitingIsSequence DEF n
  <2> DEFINE w == Waiting(s)  v == Waiting(t)  f == <<m>>
  <2> HIDE DEF w, v
  <2>3. f \in Seq(Message) /\ Len(f) = 1 /\ f[1] = m
    OBVIOUS
  <2> HIDE DEF f
  <2>4. /\ f \o w \in Seq(Message) /\ Len(f \o w) = n + 1
        /\ \A i \in 1 .. 1 + n :
              (f \o w)[i] = IF i <= 1 THEN f[i] ELSE w[i - 1]
    <3>1. w \in Seq(Message) /\ Len(w) = n
      BY <2>2 DEF w
    <3>2. /\ f \o w \in Seq(Message) /\ Len(f \o w) = Len(f) + Len(w)
          /\ \A i \in 1 .. Len(f) + Len(w) :
                (f \o w)[i] = IF i <= Len(f) THEN f[i] ELSE w[i - Len(f)]
      BY <2>3, <3>1, ConcatProperties
    <3>3. QED BY <1>1, <2>3, <3>1, <3>2
  <2>5. v \in Seq(Message) /\ Len(v) = n + 1
    BY <2>1 DEF v
  <2>6. \A i \in 1 .. Len(v) : v[i] = (f \o w)[i]
    <3> TAKE i \in 1 .. Len(v)
    <3>0. i \in 1 .. n + 1 /\ v[i] = t.slot[SlotAfter(t, i)]
      BY <2>1, <2>5 DEF v
    <3>1. CASE i = 1
      BY <1>1, <1>5, <2>3, <2>4, <3>0, <3>1
    <3>2. CASE i # 1
      <4>1. i - 1 \in 1 .. n /\ (i - 1) + 1 = i
        BY <1>1, <3>0, <3>2
      <4>2. v[i] = s.slot[SlotAfter(s, i - 1)]
        BY <1>4, <3>0, <4>1
      <4>3. (f \o w)[i] = w[i - 1]
        <5>1. n \in Nat
          BY <1>1
        <5>2. i \in 1 .. 1 + n /\ ~(i <= 1)
          BY <3>0, <3>2, <5>1
        <5>3. QED BY <2>4, <5>2
      <4>4. QED BY <2>2, <4>1, <4>2, <4>3 DEF w
    <3>3. QED BY <3>1, <3>2
  <2>7. v = f \o w
    BY <2>4, <2>5, <2>6, SeqEqual
  <2>8. QED BY <2>7 DEF w, v, f
<1>10. QED BY <1>8, <1>9 DEF t

(* queueOVERWRITE on a queue of length one leaves exactly the new message.  *)
LEMMA CopyOverwritingReplaces ==
    ASSUME NEW s, Good(s), NEW m \in Message, Length = 1
    PROVE  /\ Good(CopyOverwriting(s, m))
           /\ Waiting(CopyOverwriting(s, m)) = <<m>>
<1> DEFINE t == CopyOverwriting(s, m)
<1>1. /\ s \in Store /\ t \in Store /\ t.slot = [s.slot EXCEPT ![0] = m]
      /\ s.slot \in [Slot -> Message \cup {NoMessage}] /\ 0 \in Slot
      /\ t.pcWriteTo = s.pcWriteTo /\ t.pcReadFrom = 0
      /\ t.uxMessagesWaiting = 1 /\ t.uxLength = 1 /\ s.pcWriteTo = 0
  BY CopyOverwritingFields, StoreFields DEF Good, Slot
<1> HIDE DEF t
<1>2. SlotAfter(t, 1) = 0 /\ SlotAfter(t, 2) = 0
  BY <1>1 DEF SlotAfter
<1>3. Good(t)
  BY <1>1, <1>2 DEF Good
<1>4. /\ Waiting(t) \in Seq(Message) /\ Len(Waiting(t)) = 1
      /\ Waiting(t)[1] = m
  <2>1. /\ Waiting(t) \in Seq(Message) /\ Len(Waiting(t)) = 1
        /\ \A i \in 1 .. 1 : Waiting(t)[i] = t.slot[SlotAfter(t, i)]
    BY <1>1, <1>3, WaitingIsSequence
  <2>2. t.slot[SlotAfter(t, 1)] = m
    BY <1>1, <1>2
  <2>3. Waiting(t)[1] = t.slot[SlotAfter(t, 1)]
    BY <2>1
  <2>4. QED BY <2>1, <2>2, <2>3
<1>5. Waiting(t) = <<m>>
  BY <1>4
<1>6. QED BY <1>3, <1>5 DEF t

(* prvCopyDataFromQueue takes the oldest message and leaves the rest.       *)
LEMMA TakeOutIsTail ==
    ASSUME NEW s, Good(s), s.uxMessagesWaiting > 0
    PROVE  /\ Good(TakeOut(s))
           /\ Waiting(s) # << >>
           /\ CopiedOut(s) = Head(Waiting(s))
           /\ CopiedOut(s) \in Message
           /\ Waiting(TakeOut(s)) = Tail(Waiting(s))
<1> DEFINE t == TakeOut(s)
           n == s.uxMessagesWaiting
<1>1. /\ s \in Store /\ t \in Store /\ n \in 1 .. Length /\ Length \in Nat
      /\ t.slot = s.slot /\ t.pcReadFrom = NextSlot(s, s.pcReadFrom)
      /\ t.pcWriteTo = s.pcWriteTo /\ t.uxMessagesWaiting = n - 1
      /\ s.pcWriteTo = SlotAfter(s, n + 1)
      /\ CopiedOut(s) = s.slot[SlotAfter(s, 1)]
  BY TakeOutFields, StoreFields, FirstSlot DEF Good, CopiedOut
<1> HIDE DEF t, n
<1>2. \A i \in 1 .. Length : SlotAfter(t, i) = SlotAfter(s, i + 1)
  BY <1>1, SlotAfterAdvance
<1>3. t.pcWriteTo = SlotAfter(t, t.uxMessagesWaiting + 1)
  BY <1>1, <1>2
<1>4. \A i \in 1 .. n : s.slot[SlotAfter(s, i)] \in Message
  BY DEF Good, n
<1>5. \A i \in 1 .. n - 1 :
        t.slot[SlotAfter(t, i)] = s.slot[SlotAfter(s, i + 1)]
  BY <1>1, <1>2
<1>6. \A i \in 1 .. n - 1 : t.slot[SlotAfter(t, i)] \in Message
  BY <1>1, <1>4, <1>5
<1>7. Good(t)
  BY <1>1, <1>3, <1>6 DEF Good
<1> DEFINE w == Waiting(s)  v == Waiting(t)
<1>8. /\ w \in Seq(Message) /\ Len(w) = n
      /\ \A i \in 1 .. n : w[i] = s.slot[SlotAfter(s, i)]
  BY WaitingIsSequence DEF n
<1>9. /\ v \in Seq(Message) /\ Len(v) = n - 1
      /\ \A i \in 1 .. n - 1 : v[i] = t.slot[SlotAfter(t, i)]
  BY <1>1, <1>7, WaitingIsSequence
<1> HIDE DEF w, v
<1>10. w # << >> /\ Head(w) = w[1]
  BY <1>1, <1>8
<1>11. /\ Tail(w) \in Seq(Message) /\ Len(Tail(w)) = n - 1
       /\ \A i \in 1 .. n - 1 : Tail(w)[i] = w[i + 1]
  BY <1>1, <1>8, <1>10, HeadTailProperties
<1>12. \A i \in 1 .. n - 1 : v[i] = Tail(w)[i]
  <2> TAKE i \in 1 .. n - 1
  <2>1. i + 1 \in 1 .. n
    BY <1>1
  <2>2. QED BY <1>5, <1>8, <1>9, <1>11, <2>1
<1>13. v = Tail(w)
  BY <1>9, <1>11, <1>12, SeqEqual
<1>14. CopiedOut(s) = Head(w) /\ CopiedOut(s) \in Message
  BY <1>1, <1>4, <1>8, <1>10
<1>15. QED BY <1>7, <1>10, <1>13, <1>14 DEF t, v, w

(* xQueueGenericReset empties the queue.                                    *)
LEMMA ResetIsEmpty ==
    ASSUME NEW s, Good(s)
    PROVE  Good(ResetStore(s)) /\ Waiting(ResetStore(s)) = << >>
<1> DEFINE t == ResetStore(s)
<1>1. /\ t \in Store /\ t.pcWriteTo = 0 /\ t.pcReadFrom = Length - 1
      /\ t.uxMessagesWaiting = 0 /\ t.uxLength = Length
      /\ Length \in Nat /\ Length >= 1
  BY ResetFields, StoreFields DEF Good
<1> HIDE DEF t
<1>2. SlotAfter(t, 1) = 0
  BY <1>1 DEF SlotAfter
<1>3. Good(t)
  BY <1>1, <1>2 DEF Good
<1>4. Waiting(t) = << >>
  BY <1>1, <1>3, WaitingIsSequence
<1>5. QED BY <1>3, <1>4 DEF t
-----------------------------------------------------------------------------
(* The store prvInitialiseNewQueue leaves is good and empty.                *)
LEMMA InitIsEmpty ==
    StoreInit => StoreInv /\ Waiting(store) = << >>
<1> SUFFICES ASSUME StoreInit PROVE StoreInv /\ Waiting(store) = << >>
  OBVIOUS
<1>1. 0 \in Slot /\ Length - 1 \in Slot /\ Length \in Nat /\ Length >= 1
  BY LengthAssumption DEF Slot
<1>2. /\ store \in Store /\ store.pcWriteTo = 0 /\ store.pcReadFrom = Length - 1
      /\ store.uxMessagesWaiting = 0 /\ store.uxLength = Length
  BY <1>1 DEF StoreInit, NewStore, StoreOf, Store, Slot
<1>3. SlotAfter(store, 1) = 0
  BY <1>1, <1>2 DEF SlotAfter
<1>4. Good(store)
  BY <1>2, <1>3 DEF Good
<1>5. Waiting(store) = << >>
  BY <1>2, <1>4, WaitingIsSequence
<1>6. QED BY <1>4, <1>5, StoreInvIsGood DEF StoreInit

(* Every operation keeps the store good and is the operation of the same    *)
(* name on the sequence of waiting messages.                                *)
LEMMA StepRefines ==
    StoreInv /\ [StoreNext]_storeVars =>
        Good(store') /\ pvBuffer' \in Message \cup {NoMessage}
        /\ [Fifo!FifoNext]_(Fifo!fifoVars)
<1> SUFFICES ASSUME StoreInv, [StoreNext]_storeVars
             PROVE  /\ Good(store') /\ pvBuffer' \in Message \cup {NoMessage}
                    /\ [Fifo!FifoNext]_(Fifo!fifoVars)
  OBVIOUS
<1>1. /\ Good(store) /\ pvBuffer \in Message \cup {NoMessage}
      /\ store.uxLength = Length /\ Len(Waiting(store)) = store.uxMessagesWaiting
  BY StoreInvIsGood, StoreFields, WaitingIsSequence DEF Good
<1>2. ASSUME NEW m \in Message, SendToBack(m)
      PROVE  /\ Good(store') /\ pvBuffer' = pvBuffer /\ Fifo!SendToBack(m)
  <2>1. store.uxMessagesWaiting < Length
    BY <1>1, <1>2 DEF SendToBack, HasSpace
  <2>2. Good(store') /\ Waiting(store') = Append(Waiting(store), m)
    BY <1>1, <1>2, <2>1, CopyToBackAppends DEF SendToBack
  <2>3. QED BY <1>1, <1>2, <2>1, <2>2 DEF SendToBack, Fifo!SendToBack
<1>3. ASSUME NEW m \in Message, SendToFront(m)
      PROVE  /\ Good(store') /\ pvBuffer' = pvBuffer /\ Fifo!SendToFront(m)
  <2>1. store.uxMessagesWaiting < Length
    BY <1>1, <1>3 DEF SendToFront, HasSpace
  <2>2. Good(store') /\ Waiting(store') = <<m>> \o Waiting(store)
    BY <1>1, <1>3, <2>1, CopyToFrontPrepends DEF SendToFront
  <2>3. QED BY <1>1, <1>3, <2>1, <2>2 DEF SendToFront, Fifo!SendToFront
<1>4. ASSUME NEW m \in Message, Overwrite(m)
      PROVE  /\ Good(store') /\ pvBuffer' = pvBuffer /\ Fifo!Overwrite(m)
  <2>1. Length = 1
    BY <1>1, <1>4 DEF Overwrite
  <2>2. Good(store') /\ Waiting(store') = <<m>>
    BY <1>1, <1>4, <2>1, CopyOverwritingReplaces DEF Overwrite
  <2>3. QED BY <1>4, <2>1, <2>2 DEF Overwrite, Fifo!Overwrite
<1>5. ASSUME Receive
      PROVE  /\ Good(store') /\ pvBuffer' \in Message /\ Fifo!Receive
  <2>1. /\ Good(store') /\ Waiting(store) # << >>
        /\ pvBuffer' = Head(Waiting(store)) /\ pvBuffer' \in Message
        /\ Waiting(store') = Tail(Waiting(store))
    BY <1>1, <1>5, TakeOutIsTail DEF Receive, HasMessage
  <2>2. QED BY <2>1 DEF Fifo!Receive
<1>6. ASSUME Peek
      PROVE  /\ Good(store') /\ pvBuffer' \in Message /\ Fifo!Peek
  <2>1. /\ Waiting(store) # << >> /\ pvBuffer' = Head(Waiting(store))
        /\ pvBuffer' \in Message /\ store' = store
    BY <1>1, <1>6, TakeOutIsTail DEF Peek, HasMessage
  <2>2. QED BY <1>1, <2>1 DEF Fifo!Peek
<1>7. ASSUME Reset
      PROVE  /\ Good(store') /\ pvBuffer' = pvBuffer /\ Fifo!Clear
  <2>1. Good(store') /\ Waiting(store') = << >>
    BY <1>1, <1>7, ResetIsEmpty DEF Reset
  <2>2. QED BY <1>7, <2>1 DEF Reset, Fifo!Clear
<1>8. CASE UNCHANGED storeVars
  BY <1>1, <1>8 DEF storeVars, Fifo!fifoVars
<1>9. CASE StoreNext
  BY <1>1, <1>2, <1>3, <1>4, <1>5, <1>6, <1>7, <1>9 DEF StoreNext, Fifo!FifoNext
<1>10. QED BY <1>8, <1>9

(* The pointers of the store agree with its count and every message counted *)
(* as waiting was written, whatever the length of the queue.                *)
THEOREM StoreStaysWellFormed == StoreSpec => []StoreInv
<1>1. StoreInit => StoreInv
  BY InitIsEmpty
<1>2. StoreInv /\ [StoreNext]_storeVars => StoreInv'
  <2>1. Good(store') /\ pvBuffer' \in Message \cup {NoMessage} => StoreInv'
    BY DEF StoreInv, Good, StoreTypeOK, PointersAgree, WaitingWereWritten, Store
  <2>2. QED BY <2>1, StepRefines
<1>3. QED BY <1>1, <1>2, PTL DEF StoreSpec

(* The circular store of queue.c implements the bounded FIFO sequence: a    *)
(* wrap of either pointer, for any length, loses and reorders nothing.      *)
THEOREM StoreImplementsFifo == StoreSpec => ImplementsFifo
<1>1. StoreInit => Fifo!FifoInit
  BY InitIsEmpty DEF StoreInit, Fifo!FifoInit
<1>2. StoreInv /\ [StoreNext]_storeVars => [Fifo!FifoNext]_(Fifo!fifoVars)
  BY StepRefines
<1>3. QED BY <1>1, <1>2, StoreStaysWellFormed, PTL
         DEF StoreSpec, ImplementsFifo, Fifo!FifoSpec
===============================================================================
