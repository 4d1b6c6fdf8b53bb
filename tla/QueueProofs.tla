------------------------------ MODULE QueueProofs ------------------------------
(***************************************************************************)
(* Proofs about Queue for any tasks, queues, programs and bounds, whether   *)
(* or not critical sections keep interrupts out (CriticalMasks).            *)
(***************************************************************************)
EXTENDS Queue, KernelProofs, FiniteSetTheorems

USE DEF readyVars, delayVars, eventVars, tickVars, prioVars, switchVars, kernelVars,
        lockVars, mutexVars

(* The places in a call: those where another task may be switched to, those *)
(* in a critical section, and those where the scheduler is suspended, before*)
(* and after the decision to wait.                                          *)
Preemptible == {"app", "try", "count", "suspend", "yield", "recheck", "disinherit"}
Critical == {"notify", "wakeReceivers", "wakeSenders"}
Looking == {"lock", "check", "test", "inherit", "place"}
Unlocking == {"unlockTx", "wakeReceivers", "unlockRx", "wakeSenders", "resume"}
Suspended == Looking \cup Unlocking

Frame ==
    [pc : Preemptible \cup Critical \cup Suspended \cup {"resuming"},
     fn : {"none", "send", "overwrite", "receive", "peek", "take", "takeRecursive", "reset"},
     q : QueueHandle \cup {NULL}, xTicksToWait : TickType,
     xEntryTimeSet : BOOLEAN, xTimeOnEntering : TickType, xOverflowed : BOOLEAN,
     xInheritanceOccurred : BOOLEAN, xYieldRequired : BOOLEAN,
     outcome : {"none", "timeout", "retry", "block"}, cLock : Int, due : Int]

QTypeOK ==
    /\ uxMessagesWaiting \in [QueueHandle -> Nat]
    /\ \A q \in QueueHandle : uxMessagesWaiting[q] <= uxLength[q]
    /\ cRxLock \in [QueueHandle -> Int] /\ cTxLock \in [QueueHandle -> Int]
    /\ xMutexHolder \in [Mutex -> Task \cup {NULL}]
    /\ uxRecursiveCallCount \in [Mutex -> Nat]
    /\ frame \in [Task -> Frame]

(* Which call can be at which place, and with what locals.                  *)
FrameFits(f) ==
    /\ f.pc = "app" => f = AppFrame
    /\ f.pc # "app" => f.q \in QueueHandle /\ f.fn # "none"
    /\ f.fn = "reset" => f.pc = "notify"
    /\ f.fn = "overwrite" => f.pc \in {"try", "notify"}
    /\ f.pc = "count" => f.fn = "takeRecursive"
    /\ f.fn = "takeRecursive" => f.q \in Recursive
    /\ f.q \in Mutex => f.fn \in {"send", "take", "takeRecursive"}
    /\ f.q \in Mutex /\ f.fn = "send" => f.pc \in {"try", "notify"}
    /\ f.q \in Recursive => f.fn # "take"
    /\ f.pc \in {"recheck", "disinherit"} => ~Sends(f.fn)
    /\ f.pc \in {"inherit", "disinherit"} \/ f.xInheritanceOccurred => f.q \in Mutex
    /\ f.pc \in Suspended \cup {"suspend", "resuming", "yield", "recheck", "disinherit"} =>
           f.xEntryTimeSet
    /\ f.pc \in Looking \cup {"suspend"} => f.xTicksToWait > 0
    /\ f.outcome \in IF f.pc \in Unlocking \cup {"resuming"} THEN {"timeout", "retry", "block"}
                     ELSE IF f.pc \in {"recheck", "disinherit"} THEN {"timeout"} ELSE {"none"}

FramesFit == \A t \in Task : FrameFits(frame[t])

(* Only the current task has the scheduler suspended, and once.  It is the  *)
(* only one in a critical section too where those keep interrupts out; where*)
(* they do not, another task may be switched to before the wake-up.         *)
Nested(f) == IF f.pc \in Critical THEN 1 ELSE 0

USE DEF Nested

Stops(pc) == pc \in Preemptible \/ (pc = "notify" /\ ~CriticalMasks)

Control ==
    /\ \A t \in Task : t # pxCurrentTCB => Stops(frame[t].pc)
    /\ uxCriticalNesting = Cardinality({t \in Task : frame[t].pc \in Critical})
    /\ frame[IdleTask].pc = "app"
    /\ ~xSchedulerRunning =>
          /\ uxCriticalNesting = 0
          /\ \A t \in Task : frame[t].pc = "app"
          /\ \A q \in Mutex : xMutexHolder[q] = NULL
    /\ xSchedulerRunning =>
          /\ uxSchedulerSuspended = IF Self.pc \in Suspended THEN 1 ELSE 0
          /\ Self.pc = "resuming" <=> section.at \in {"pending", "ticks", "resumeTick"}
          /\ section.at = "tick" => Stops(Self.pc)

(* A task that is not ready is current only between its move to an event    *)
(* list and the switch.                                                     *)
Blocked(f) ==
    \/ f.pc \in {"yield", "try"}
    \/ f.pc \in Unlocking \cup {"resuming"} /\ f.outcome = "block"

CurrentIsReady ==
    xSchedulerRunning /\ ~Ready(pxCurrentTCB) =>
        Blocked(Self) /\ (Self.pc = "try" => PENDING_SOFT_SV)

(* Who holds the mutex a call is about.                                     *)
HolderFits(f, t) ==
    f.q \in Mutex =>
        /\ f.fn = "send" => (xMutexHolder[f.q] = t <=> f.pc = "try")
        /\ f.fn \in {"take", "takeRecursive"} =>
               (xMutexHolder[f.q] = t <=> f.pc \in {"notify", "count"})
        /\ f.pc = "inherit" => xMutexHolder[f.q] # NULL

HoldersFit == \A t \in Task : HolderFits(frame[t], t)

(* MutexesAreCounted, part by part.                                         *)
Counting(f, q) == f.q = q /\ f.fn \in {"takeRecursive", "send"}

TakenIsHeld == \A q \in Mutex : uxMessagesWaiting[q] = 0 <=> xMutexHolder[q] # NULL
HeldIsCounted ==
    \A t \in Task : uxMutexesHeld[t] = Cardinality({q \in Mutex : xMutexHolder[q] = t})
RecursionIsCounted ==
    \A q \in Recursive :
        uxRecursiveCallCount[q] > 0 <=>
            xMutexHolder[q] # NULL /\ ~Counting(frame[xMutexHolder[q]], q)

(* Together they are kept by every step.                                    *)
QInv ==
    /\ KInv /\ QTypeOK /\ FramesFit /\ Control /\ CurrentIsReady
    /\ HoldersFit /\ TakenIsHeld /\ HeldIsCounted /\ RecursionIsCounted
-----------------------------------------------------------------------------
(* The frames of a task outside the calls and at the start of one.          *)
LEMMA FrameFacts ==
    /\ AppFrame \in Frame /\ FrameFits(AppFrame)
    /\ AppFrame.pc = "app" /\ AppFrame.fn = "none" /\ AppFrame.q = NULL
    /\ NULL \notin QueueHandle /\ NULL \notin Mutex /\ NULL \notin Recursive
    /\ Recursive \subseteq Mutex /\ Mutex \subseteq QueueHandle
  <1>1. 0 \in TickType BY KernelAssumption DEF TickType
  <1>2. /\ NULL \notin QueueHandle /\ NULL \notin Mutex /\ NULL \notin Recursive
        /\ Recursive \subseteq Mutex /\ Mutex \subseteq QueueHandle
        BY QueueAssumption, ProgramAssumption
  <1>3. AppFrame \in Frame BY <1>1 DEF AppFrame, Frame, Stops, Preemptible
  <1>4. /\ AppFrame.pc = "app" /\ AppFrame.fn = "none" /\ AppFrame.q = NULL
        /\ AppFrame.outcome = "none" /\ ~AppFrame.xInheritanceOccurred
        BY DEF AppFrame
  <1>5. FrameFits(AppFrame)
        BY <1>2, <1>4 DEF FrameFits, Suspended, Looking, Unlocking
  <1> QED BY <1>2, <1>3, <1>4, <1>5

(* The nesting count is that of the tasks in a critical section.            *)
LEMMA NestingFacts ==
    ASSUME QInv, pxCurrentTCB \in Task
    PROVE  /\ uxCriticalNesting >= Nested(Self)
           /\ CriticalMasks => uxCriticalNesting = Nested(Self)
  <1> DEFINE S == {t \in Task : frame[t].pc \in Critical}
  <1>1. IsFiniteSet(S) /\ uxCriticalNesting = Cardinality(S)
        BY ProgramAssumption, FS_Subset DEF QInv, Control
  <1>2. Cardinality(S) \in Nat /\ (Cardinality(S) = 0 <=> S = {})
        BY <1>1, FS_CardinalityType, FS_EmptySet
  <1>3. pxCurrentTCB \in S <=> Self.pc \in Critical BY DEF Self
  <1>4. CriticalMasks => S \subseteq {pxCurrentTCB}
        BY DEF QInv, Control, Stops, Preemptible, Critical
  <1>5. Cardinality({pxCurrentTCB}) = 1 BY FS_Singleton
  <1>6. CASE Self.pc \in Critical
    <2>1. uxCriticalNesting >= 1 BY <1>1, <1>2, <1>3, <1>6
    <2>2. CriticalMasks => S = {pxCurrentTCB} BY <1>3, <1>4, <1>6
    <2> HIDE DEF S
    <2> QED BY <1>1, <1>5, <1>6, <2>1, <2>2
  <1>7. CASE Self.pc \notin Critical
    <2>1. CriticalMasks => S = {} BY <1>3, <1>4, <1>7
    <2> HIDE DEF S
    <2> QED BY <1>1, <1>2, <1>7, <2>1
  <1> QED BY <1>6, <1>7

LEMMA NestingMoves ==
    ASSUME QInv, pxCurrentTCB \in Task, NEW g, Becomes(g),
           uxCriticalNesting' = uxCriticalNesting + Nested(g) - Nested(Self)
    PROVE  uxCriticalNesting' = Cardinality({t \in Task : frame'[t].pc \in Critical})
  <1> DEFINE S == {t \in Task : frame[t].pc \in Critical}
             R == {t \in Task : frame'[t].pc \in Critical}
  <1>1. IsFiniteSet(S) /\ uxCriticalNesting = Cardinality(S) /\ Cardinality(S) \in Nat
        BY ProgramAssumption, FS_Subset, FS_CardinalityType DEF QInv, Control
  <1>2. /\ frame'[pxCurrentTCB] = g
        /\ \A t \in Task : t # pxCurrentTCB => frame'[t] = frame[t]
        BY DEF QInv, QTypeOK, Becomes
  <1>3. /\ g.pc \in Critical => R = S \cup {pxCurrentTCB}
        /\ g.pc \notin Critical => R = S \ {pxCurrentTCB}
        BY <1>2
  <1>4. pxCurrentTCB \in S <=> Self.pc \in Critical BY DEF Self
  <1> HIDE DEF S, R
  <1>5. /\ Cardinality(S \cup {pxCurrentTCB}) =
              IF pxCurrentTCB \in S THEN Cardinality(S) ELSE Cardinality(S) + 1
        /\ Cardinality(S \ {pxCurrentTCB}) =
              IF pxCurrentTCB \in S THEN Cardinality(S) - 1 ELSE Cardinality(S)
        BY <1>1, FS_AddElement, FS_RemoveElement
  <1>6. uxCriticalNesting' = Cardinality(R)
    <2>1. /\ Nested(Self) = IF pxCurrentTCB \in S THEN 1 ELSE 0 BY <1>4
    <2>2. CASE g.pc \in Critical
      <3>1. R = S \cup {pxCurrentTCB} /\ Nested(g) = 1 BY <1>3, <2>2
      <3> QED BY <1>1, <1>5, <2>1, <3>1
    <2>3. CASE g.pc \notin Critical
      <3>1. R = S \ {pxCurrentTCB} /\ Nested(g) = 0 BY <1>3, <2>3
      <3> QED BY <1>1, <1>5, <2>1, <3>1
    <2> QED BY <2>2, <2>3
  <1> QED BY <1>6 DEF R

(* What holds when the current task goes on with its call.                  *)
LEMMA OwnFacts ==
    ASSUME QInv, TaskRuns
    PROVE  /\ pxCurrentTCB \in Task /\ Self \in Frame /\ FrameFits(Self)
           /\ xSchedulerRunning /\ section = NoSection /\ Self.pc # "resuming"
           /\ Self.pc # "app" => pxCurrentTCB # IdleTask
           /\ uxCriticalNesting \in 0 .. MaxCritical /\ MaxCritical \in Nat
           /\ uxCriticalNesting >= Nested(Self)
           /\ CriticalMasks => uxCriticalNesting = Nested(Self)
           /\ uxSchedulerSuspended = IF Self.pc \in Suspended THEN 1 ELSE 0
           /\ Self.pc # "yield" /\ ~(Self.pc \in Unlocking /\ Self.outcome = "block") =>
                  Ready(pxCurrentTCB)
           /\ MustYield => Self.pc = "yield"
           /\ KInv /\ TypeOK
  <1>1. pxCurrentTCB \in Task /\ xSchedulerRunning /\ section = NoSection
        BY DEF QInv, KInv, SectionsAreInStep, TaskRuns
  <1>2. Self \in Frame /\ FrameFits(Self) BY <1>1 DEF QInv, QTypeOK, FramesFit, Self
  <1>31. /\ uxCriticalNesting \in 0 .. MaxCritical /\ MaxCritical \in Nat
         /\ uxCriticalNesting >= Nested(Self)
         /\ CriticalMasks => uxCriticalNesting = Nested(Self)
         BY <1>1, NestingFacts, KernelAssumption DEF QInv, KInv, TypeOK
  <1>3. /\ uxSchedulerSuspended = IF Self.pc \in Suspended THEN 1 ELSE 0
        /\ Self.pc # "resuming" /\ (Self.pc # "app" => pxCurrentTCB # IdleTask)
        BY <1>1, SectionFacts DEF QInv, Control, Self
  <1>4. Self.pc = "try" => ~PENDING_SOFT_SV
        BY <1>1, <1>31 DEF TaskRuns, Masked, Critical
  <1>5. Self.pc # "yield" /\ ~(Self.pc \in Unlocking /\ Self.outcome = "block") =>
            Ready(pxCurrentTCB)
        BY <1>1, <1>3, <1>4 DEF QInv, CurrentIsReady, Blocked
  <1>6. MustYield => Self.pc = "yield"
        BY <1>3, <1>5 DEF MustYield, Suspended
  <1> QED BY <1>1, <1>2, <1>31, <1>3, <1>5, <1>6 DEF QInv, KInv

(* The current task goes on to the frame g.                                 *)
LEMMA OwnStep ==
    ASSUME QInv, TaskStep, NEW g \in Frame, Becomes(g), FrameFits(g),
           UNCHANGED <<pxCurrentTCB, xSchedulerRunning>>,
           uxCriticalNesting' = uxCriticalNesting + Nested(g) - Nested(Self),
           uxSchedulerSuspended' = IF g.pc \in Suspended THEN 1 ELSE 0,
           section'.at = IF g.pc = "resuming" THEN "pending" ELSE "none",
           Ready(pxCurrentTCB)' \/ (Blocked(g) /\ (g.pc = "try" => PENDING_SOFT_SV'))
    PROVE  KInv' /\ frame' \in [Task -> Frame] /\ FramesFit' /\ Control' /\ CurrentIsReady'
  <1>1. /\ pxCurrentTCB \in Task /\ pxCurrentTCB # IdleTask /\ xSchedulerRunning
        BY OwnFacts DEF TaskStep
  <1>2. KInv' BY NextKInv DEF Next, QInv
  <1>3. /\ frame' \in [Task -> Frame] /\ frame'[pxCurrentTCB] = g /\ Self' = g
        /\ \A t \in Task : t # pxCurrentTCB => frame'[t] = frame[t]
        BY <1>1 DEF QInv, QTypeOK, Becomes, Self
  <1>4. FramesFit' BY <1>3 DEF QInv, FramesFit
  <1>5. Control'
    <2>1. /\ \A t \in Task : t # pxCurrentTCB' => Stops(frame'[t].pc)
          /\ frame'[IdleTask].pc = "app"
          BY <1>1, <1>3, KernelAssumption DEF QInv, Control
    <2>2. uxCriticalNesting' = Cardinality({t \in Task : frame'[t].pc \in Critical})
          BY <1>1, NestingMoves
    <2> QED BY <1>1, <1>3, <2>1, <2>2 DEF Control
  <1>6. CurrentIsReady' BY <1>3 DEF CurrentIsReady, Ready
  <1> QED BY <1>2, <1>3, <1>4, <1>5, <1>6

(* A step of the current task that leaves the mutexes alone.                *)
LEMMA SameMutexes ==
    ASSUME QInv, pxCurrentTCB \in Task, NEW g, Becomes(g),
           UNCHANGED <<mutexVars, uxMutexesHeld>>,
           \A q \in Mutex : uxMessagesWaiting'[q] = uxMessagesWaiting[q],
           HolderFits(g, pxCurrentTCB),
           \A q \in Recursive :
               xMutexHolder[q] = pxCurrentTCB => (Counting(Self, q) <=> Counting(g, q))
    PROVE  HoldersFit' /\ TakenIsHeld' /\ HeldIsCounted' /\ RecursionIsCounted'
  <1>1. /\ frame'[pxCurrentTCB] = g
        /\ \A t \in Task : t # pxCurrentTCB => frame'[t] = frame[t]
        BY DEF QInv, QTypeOK, Becomes
  <1>2. HoldersFit'
    <2>1. \A t \in Task : HolderFits(frame'[t], t) BY <1>1 DEF QInv, HoldersFit
    <2> QED BY <2>1 DEF HoldersFit, HolderFits
  <1>3. TakenIsHeld' /\ HeldIsCounted' BY DEF QInv, TakenIsHeld, HeldIsCounted
  <1>4. RecursionIsCounted'
    <2> SUFFICES ASSUME NEW q \in Recursive
                 PROVE  uxRecursiveCallCount[q] > 0 <=>
                           xMutexHolder[q] # NULL /\ ~Counting(frame'[xMutexHolder[q]], q)
          BY DEF RecursionIsCounted, Counting
    <2>1. uxRecursiveCallCount[q] > 0 <=>
              xMutexHolder[q] # NULL /\ ~Counting(frame[xMutexHolder[q]], q)
          BY DEF QInv, RecursionIsCounted
    <2>2. CASE xMutexHolder[q] = pxCurrentTCB BY <1>1, <2>1, <2>2 DEF Self
    <2>3. CASE xMutexHolder[q] # pxCurrentTCB
      <3>1. xMutexHolder[q] \in Task \cup {NULL} BY FrameFacts DEF QInv, QTypeOK
      <3> QED BY <1>1, <2>1, <2>3, <3>1
    <2> QED BY <2>2, <2>3
  <1> QED BY <1>2, <1>3, <1>4

(* A step in the course of waiting: the call stays what it is, or returns.  *)
LEMMA WaitingStep ==
    ASSUME QInv, TaskStep, NEW g \in Frame, Becomes(g), FrameFits(g),
           Self.pc \notin {"app", "notify", "count"},
           Self.q \in Mutex => Self.fn # "send",
           \/ g = AppFrame
           \/ /\ g.q = Self.q /\ g.fn = Self.fn /\ g.pc \notin {"notify", "count"}
              /\ g.pc = "inherit" => xMutexHolder[g.q] # NULL,
           UNCHANGED <<pxCurrentTCB, xSchedulerRunning, mutexVars, uxMessagesWaiting,
                       uxMutexesHeld>>,
           cRxLock' \in [QueueHandle -> Int], cTxLock' \in [QueueHandle -> Int],
           uxCriticalNesting' = uxCriticalNesting + Nested(g) - Nested(Self),
           uxSchedulerSuspended' = IF g.pc \in Suspended THEN 1 ELSE 0,
           section'.at = IF g.pc = "resuming" THEN "pending" ELSE "none",
           Ready(pxCurrentTCB)' \/ (Blocked(g) /\ (g.pc = "try" => PENDING_SOFT_SV'))
    PROVE  QInv'
  <1>1. KInv' /\ frame' \in [Task -> Frame] /\ FramesFit' /\ Control' /\ CurrentIsReady'
        BY OwnStep
  <1>2. /\ pxCurrentTCB \in Task /\ FrameFits(Self) /\ HolderFits(Self, pxCurrentTCB)
        BY OwnFacts DEF TaskStep, QInv, HoldersFit, Self
  <1>3. Self.q \in Mutex => xMutexHolder[Self.q] # pxCurrentTCB
        BY <1>2 DEF FrameFits, HolderFits
  <1>4. HolderFits(g, pxCurrentTCB)
        BY <1>2, <1>3, FrameFacts DEF HolderFits, FrameFits
  <1>5. \A q \in Recursive :
            xMutexHolder[q] = pxCurrentTCB => (Counting(Self, q) <=> Counting(g, q))
        BY <1>3, FrameFacts DEF Counting
  <1>6. HoldersFit' /\ TakenIsHeld' /\ HeldIsCounted' /\ RecursionIsCounted'
        BY <1>2, <1>4, <1>5, SameMutexes
  <1>7. QTypeOK' BY <1>1 DEF QInv, QTypeOK
  <1> QED BY <1>1, <1>6, <1>7 DEF QInv
-----------------------------------------------------------------------------
(* Such a step that calls nothing of the scheduler.                         *)
LEMMA PlainStep ==
    ASSUME QInv, TaskRuns, NEW g \in Frame, Becomes(g), FrameFits(g),
           Self.pc \notin {"app", "notify", "count", "yield"},
           Self.q \in Mutex => Self.fn # "send",
           \/ g = AppFrame
           \/ /\ g.q = Self.q /\ g.fn = Self.fn /\ g.pc \notin {"notify", "count"}
              /\ g.pc = "inherit" => xMutexHolder[g.q] # NULL,
           g.pc \in Suspended <=> Self.pc \in Suspended, g.pc # "resuming",
           Self.pc \in Unlocking /\ Self.outcome = "block" => Blocked(g),
           UNCHANGED <<kernelVars, uxMessagesWaiting, mutexVars>>,
           cRxLock' \in [QueueHandle -> Int], cTxLock' \in [QueueHandle -> Int],
           uxCriticalNesting' = uxCriticalNesting + Nested(g) - Nested(Self),
           uxCriticalNesting' <= MaxCritical
    PROVE  TaskStep /\ QInv'
  <1>1. /\ pxCurrentTCB \in Task /\ Self \in Frame /\ FrameFits(Self)
        /\ section.at = "none" /\ pxCurrentTCB # IdleTask /\ ~MustYield
        /\ uxCriticalNesting \in 0 .. MaxCritical /\ uxCriticalNesting >= Nested(Self)
        /\ uxSchedulerSuspended = IF Self.pc \in Suspended THEN 1 ELSE 0
        /\ ~(Self.pc \in Unlocking /\ Self.outcome = "block") => Ready(pxCurrentTCB)
        BY OwnFacts, SectionFacts
  <1>2. TaskStep
    <2>1. MaxCritical \in Nat BY KernelAssumption
    <2>2. /\ uxCriticalNesting' \in uxCriticalNesting - 1 .. uxCriticalNesting + 1
          /\ uxCriticalNesting' \in 0 .. MaxCritical
          BY <1>1, <2>1
    <2> QED BY <1>1, <2>2 DEF TaskStep
  <1>3. /\ Ready(pxCurrentTCB)' \/ (Blocked(g) /\ g.pc # "try")
        /\ UNCHANGED <<uxSchedulerSuspended, pxCurrentTCB, xSchedulerRunning, section, uxMutexesHeld>>
    <2>1. Ready(pxCurrentTCB)' <=> Ready(pxCurrentTCB) BY DEF Ready
    <2>2. Self.pc \in Unlocking => g.pc # "try" BY DEF Suspended, Looking, Unlocking
    <2> QED BY <1>1, <2>1, <2>2
  <1>4. QInv'
        BY ONLY QInv, g \in Frame, Becomes(g), FrameFits(g),
           Self.pc \notin {"app", "notify", "count", "yield"},
           Self.q \in Mutex => Self.fn # "send",
           \/ g = AppFrame
           \/ /\ g.q = Self.q /\ g.fn = Self.fn /\ g.pc \notin {"notify", "count"}
              /\ g.pc = "inherit" => xMutexHolder[g.q] # NULL,
           g.pc \in Suspended <=> Self.pc \in Suspended, g.pc # "resuming",
           UNCHANGED <<uxMessagesWaiting, mutexVars>>,
           cRxLock' \in [QueueHandle -> Int], cTxLock' \in [QueueHandle -> Int],
           uxCriticalNesting' = uxCriticalNesting + Nested(g) - Nested(Self),
           <1>1, <1>2, <1>3, WaitingStep
  <1> QED BY <1>2, <1>4

(* Where a frame of a waiting call fits if its old one did.                 *)
LEMMA MovedFits ==
    ASSUME NEW f \in Frame, FrameFits(f), NEW g, g.q = f.q, g.fn = f.fn,
           f.fn \notin {"none", "overwrite", "reset"}, f.q \in QueueHandle,
           f.q \in Mutex => f.fn # "send",
           g.pc \notin {"app", "notify", "count"},
           g.pc \in {"recheck", "disinherit"} => ~Sends(f.fn),
           g.pc \in {"inherit", "disinherit"} => f.q \in Mutex,
           g.xInheritanceOccurred => f.xInheritanceOccurred \/ f.q \in Mutex,
           g.pc # "try" => g.xEntryTimeSet,
           g.pc \in Looking \cup {"suspend"} => g.xTicksToWait > 0,
           g.outcome \in IF g.pc \in Unlocking \cup {"resuming"} THEN {"timeout", "retry", "block"}
                         ELSE IF g.pc \in {"recheck", "disinherit"} THEN {"timeout"} ELSE {"none"}
    PROVE  FrameFits(g)
  BY DEF FrameFits, Suspended, Looking, Unlocking

(* What is known of a call that waits.                                      *)
LEMMA WaitingFacts ==
    ASSUME QInv, TaskRuns, Self.pc \notin {"app", "try", "notify", "count"}
    PROVE  /\ Self.fn \notin {"none", "overwrite", "reset"} /\ Self.q \in QueueHandle
           /\ Self.q \in Mutex => Self.fn # "send"
           /\ Self.xEntryTimeSet
           /\ xTickCount \in TickType /\ Self.xTicksToWait \in TickType
           /\ TickType \subseteq Nat
           /\ cRxLock \in [QueueHandle -> Int] /\ cTxLock \in [QueueHandle -> Int]
           /\ uxCriticalNesting \in 0 .. MaxCritical /\ MaxCritical \in Nat
  <1>1. Self \in Frame /\ FrameFits(Self) /\ TypeOK BY OwnFacts
  <1>2. Self.xEntryTimeSet /\ Self.fn \notin {"none", "overwrite", "reset"} /\ Self.q \in QueueHandle
        /\ (Self.q \in Mutex => Self.fn # "send")
        BY <1>1, OwnFacts DEF FrameFits, Frame, Stops, Preemptible, Critical, Suspended, Looking, Unlocking
  <1>3. xTickCount \in TickType /\ Self.xTicksToWait \in TickType BY <1>1 DEF TypeOK, Frame
  <1>4. TickType \subseteq Nat /\ MaxCritical \in Nat BY KernelAssumption DEF TickType
  <1>5. cRxLock \in [QueueHandle -> Int] /\ cTxLock \in [QueueHandle -> Int] BY DEF QInv, QTypeOK
  <1> QED BY <1>1, <1>2, <1>3, <1>4, <1>5 DEF TypeOK
-----------------------------------------------------------------------------
(* Nothing is available: the call gives up or prepares to wait.             *)
LEMMA NotAvailable_Inv == ASSUME QInv, NotAvailable PROVE TaskStep /\ QInv'
  <1> DEFINE g == IF Self.xTicksToWait = 0 THEN AppFrame
                  ELSE IF Self.xEntryTimeSet THEN [Self EXCEPT !.pc = "suspend"]
                  ELSE [Self EXCEPT !.pc = "suspend", !.xEntryTimeSet = TRUE,
                                    !.xTimeOnEntering = xTickCount,
                                    !.due = Self.xTicksToWait]
  <1>1. /\ TaskRuns /\ Self.pc = "try" /\ ~Available(Self.fn, Self.q) /\ Becomes(g)
        /\ UNCHANGED <<kernelVars, uxMessagesWaiting, lockVars, mutexVars, uxCriticalNesting>>
        BY DEF NotAvailable, At, Unmasked
  <1>2. /\ pxCurrentTCB \in Task /\ Self \in Frame /\ FrameFits(Self)
        /\ uxCriticalNesting \in 0 .. MaxCritical
        /\ xTickCount \in TickType /\ Self.xTicksToWait \in TickType
        /\ TickType \subseteq Nat /\ MaxCritical \in Nat
        BY <1>1, OwnFacts, KernelAssumption DEF Critical, TypeOK, Frame, TickType
  <1>3. /\ g \in Frame
        /\ \/ g = AppFrame
           \/ /\ g.q = Self.q /\ g.fn = Self.fn /\ g.pc = "suspend" /\ g.outcome = Self.outcome
              /\ g.xEntryTimeSet /\ g.xTicksToWait > 0
              /\ g.xInheritanceOccurred = Self.xInheritanceOccurred
    <2>1. CASE Self.xTicksToWait = 0 BY <2>1, FrameFacts
    <2>2. CASE Self.xTicksToWait # 0
      <3>1. Self.xTicksToWait > 0 /\ Self.xTicksToWait \in Int
            BY <1>2, <2>2, KernelAssumption DEF TickType
      <3>2. CASE Self.xEntryTimeSet
        <4>1. g = [Self EXCEPT !.pc = "suspend"] BY <2>2, <3>2
        <4> QED BY <1>2, <3>1, <3>2, <4>1 DEF Frame, Stops, Preemptible
      <3>3. CASE ~Self.xEntryTimeSet
        <4>1. g = [Self EXCEPT !.pc = "suspend", !.xEntryTimeSet = TRUE,
                               !.xTimeOnEntering = xTickCount, !.due = Self.xTicksToWait]
              BY <2>2, <3>3
        <4>2. g \in Frame BY <1>2, <3>1, <4>1 DEF Frame, Stops, Preemptible
        <4>3. /\ g.q = Self.q /\ g.fn = Self.fn /\ g.pc = "suspend" /\ g.outcome = Self.outcome
              /\ g.xEntryTimeSet /\ g.xTicksToWait = Self.xTicksToWait
              /\ g.xInheritanceOccurred = Self.xInheritanceOccurred
              BY <1>2, <4>1 DEF Frame
        <4> QED BY <3>1, <4>2, <4>3
      <3> QED BY <3>2, <3>3
    <2> QED BY <2>1, <2>2
  <1>4. Self.q \in Mutex => Self.fn # "send"
    <2> SUFFICES ASSUME Self.q \in Mutex, Self.fn = "send" PROVE FALSE OBVIOUS
    <2>1. xMutexHolder[Self.q] = pxCurrentTCB
          BY <1>1, <1>2 DEF QInv, HoldersFit, HolderFits, Self
    <2>2. uxMessagesWaiting[Self.q] = 0 /\ uxLength[Self.q] = 1
          BY <1>2, <2>1, KernelAssumption, QueueAssumption DEF QInv, TakenIsHeld
    <2> QED BY <1>1, <2>2 DEF Available, Sends
  <1> HIDE DEF g
  <1>5. FrameFits(g)
    <2>1. Self.fn \notin {"none", "overwrite", "reset"} /\ Self.q \in QueueHandle
          BY <1>1, <1>2 DEF FrameFits, Available, Sends
    <2>2. Self.outcome = "none" BY <1>1, <1>2 DEF FrameFits, Unlocking
    <2> QED BY <1>2, <1>3, <1>4, <2>1, <2>2, FrameFacts, MovedFits DEF Looking, Unlocking
  <1>6. /\ cRxLock' \in [QueueHandle -> Int] /\ cTxLock' \in [QueueHandle -> Int]
        BY <1>1 DEF QInv, QTypeOK
  <1> QED BY <1>1, <1>2, <1>3, <1>4, <1>5, <1>6, FrameFacts, PlainStep
          DEF Critical, Suspended, Looking, Unlocking

(* prvLockQueue.                                                            *)
LEMMA prvLockQueue_Inv == ASSUME QInv, prvLockQueue PROVE TaskStep /\ QInv'
  <1> DEFINE g == [Self EXCEPT !.pc = "check"]
  <1>1. /\ TaskRuns /\ Self.pc = "lock" /\ Becomes(g)
        /\ UNCHANGED <<kernelVars, uxMessagesWaiting, mutexVars, uxCriticalNesting>>
        BY DEF prvLockQueue, At, Unmasked, Goto
  <1>2. /\ Self \in Frame /\ FrameFits(Self)
        BY <1>1, OwnFacts DEF Critical
  <1>3. /\ g \in Frame /\ g.pc = "check" /\ g.q = Self.q /\ g.fn = Self.fn
        /\ g.outcome = Self.outcome /\ g.xEntryTimeSet = Self.xEntryTimeSet
        /\ g.xInheritanceOccurred = Self.xInheritanceOccurred
        /\ g.xTicksToWait = Self.xTicksToWait
        BY <1>2 DEF Frame, Suspended, Looking
  <1> HIDE DEF g
  <1>4. FrameFits(g)
        BY <1>1, <1>2, <1>3, WaitingFacts, MovedFits DEF Looking, Unlocking, FrameFits
  <1>5. /\ cRxLock' \in [QueueHandle -> Int] /\ cTxLock' \in [QueueHandle -> Int]
        BY <1>1, WaitingFacts DEF prvLockQueue, queueUNLOCKED, queueLOCKED_UNMODIFIED
  <1> QED BY <1>1, <1>2, <1>3, <1>4, <1>5, WaitingFacts, PlainStep
          DEF Critical, Suspended, Looking, Unlocking

(* xTaskCheckForTimeOut: time is left or not.                               *)
LEMMA xTaskCheckForTimeOut_Inv ==
    ASSUME QInv, xTaskCheckForTimeOut PROVE TaskStep /\ QInv'
  <1>1. /\ TaskRuns /\ Self.pc = "check" /\ xTaskCheckForTimeOut
        /\ UNCHANGED <<kernelVars, uxMessagesWaiting, lockVars, mutexVars, uxCriticalNesting>>
        BY DEF xTaskCheckForTimeOut, At, Unmasked
  <1>2. /\ Self \in Frame /\ FrameFits(Self)
        BY <1>1, OwnFacts DEF Critical
  <1>3. PICK g : /\ Becomes(g)
                 /\ \/ g = TimedOut \/ g = [TimedOut EXCEPT !.xTicksToWait = 0]
                    \/ TimeIsLeft /\ g = StillWaits
        BY DEF xTaskCheckForTimeOut
  <1>4. xElapsedTime \in TickType /\ 0 \in TickType
        /\ (TimeIsLeft => Self.xTicksToWait - xElapsedTime \in TickType /\ Self.xTicksToWait - xElapsedTime > 0)
    <2>1. xElapsedTime \in 0 .. TickMod - 1
      <3>1. xTickCount - Self.xTimeOnEntering \in Int
            BY <1>1, <1>2, WaitingFacts DEF Frame
      <3> QED BY <3>1, KernelAssumption DEF xElapsedTime
    <2> QED BY <1>1, <2>1, WaitingFacts, KernelAssumption DEF TickType, TimeIsLeft
  <1>5. /\ g \in Frame /\ g.q = Self.q /\ g.fn = Self.fn /\ g.xEntryTimeSet = Self.xEntryTimeSet
        /\ g.xInheritanceOccurred = Self.xInheritanceOccurred
        /\ \/ g.pc = "unlockTx" /\ g.outcome = "timeout"
           \/ g.pc = "test" /\ g.outcome = Self.outcome /\ g.xTicksToWait > 0
        BY <1>1, <1>2, <1>3, <1>4, WaitingFacts, ZenonT(60)
        DEF Frame, Suspended, Looking, Unlocking, TimedOut, StillWaits
  <1>6. FrameFits(g)
        BY <1>1, <1>2, <1>5, WaitingFacts, MovedFits DEF Looking, Unlocking, FrameFits
  <1> QED BY <1>1, <1>2, <1>3, <1>5, <1>6, WaitingFacts, PlainStep
          DEF Critical, Suspended, Looking, Unlocking

(* prvIsQueueFull or prvIsQueueEmpty: is there still a reason to block?     *)
LEMMA Test_Inv == ASSUME QInv, Test PROVE TaskStep /\ QInv'
  <1>1. /\ TaskRuns /\ Self.pc = "test"
        /\ UNCHANGED <<kernelVars, uxMessagesWaiting, lockVars, mutexVars, uxCriticalNesting>>
        BY DEF Test, At, Unmasked
  <1>2. /\ Self \in Frame /\ FrameFits(Self)
        BY <1>1, OwnFacts DEF Critical
  <1>3. PICK g : /\ Becomes(g)
                 /\ \/ g = [Self EXCEPT !.pc = "unlockTx", !.outcome = "retry"]
                    \/ /\ Self.q \in Mutex /\ g = [Self EXCEPT !.pc = "inherit"]
                       /\ Sends(Self.fn) \/ uxMessagesWaiting[Self.q] = 0
                    \/ g = [Self EXCEPT !.pc = "place"]
        BY DEF Test, prvIsQueueEmpty
  <1>4. /\ g \in Frame /\ g.q = Self.q /\ g.fn = Self.fn /\ g.xEntryTimeSet = Self.xEntryTimeSet
        /\ g.xInheritanceOccurred = Self.xInheritanceOccurred
        /\ \/ g.pc = "unlockTx" /\ g.outcome = "retry"
           \/ /\ g.pc \in {"inherit", "place"} /\ g.outcome = Self.outcome
              /\ g.xTicksToWait = Self.xTicksToWait
              /\ g.pc = "inherit" => Self.q \in Mutex /\ (Sends(Self.fn) \/ uxMessagesWaiting[Self.q] = 0)
        BY <1>2, <1>3 DEF Frame, Suspended, Looking, Unlocking
  <1>5. FrameFits(g)
        BY <1>1, <1>2, <1>4, WaitingFacts, MovedFits DEF Looking, Unlocking, FrameFits
  <1>6. g.pc = "inherit" => xMutexHolder[g.q] # NULL
    <2> SUFFICES ASSUME g.pc = "inherit" PROVE xMutexHolder[g.q] # NULL OBVIOUS
    <2>1. Self.q \in Mutex /\ uxMessagesWaiting[Self.q] = 0
          BY <1>1, <1>2, <1>4, WaitingFacts DEF FrameFits, Sends
    <2> QED BY <1>4, <2>1 DEF QInv, TakenIsHeld
  <1> QED BY <1>1, <1>2, <1>3, <1>4, <1>5, <1>6, WaitingFacts, PlainStep
          DEF Critical, Suspended, Looking, Unlocking

(* prvUnlockQueue enters its critical sections.                             *)
LEMMA Unlock_Inv == ASSUME QInv, UnlockTx \/ UnlockRx PROVE TaskStep /\ QInv'
  <1>1. /\ TaskRuns /\ Self.pc \in {"unlockTx", "unlockRx"}
        /\ UNCHANGED <<kernelVars, uxMessagesWaiting, lockVars, mutexVars>>
        /\ uxCriticalNesting' = uxCriticalNesting + 1 /\ uxCriticalNesting < MaxCritical
        BY DEF UnlockTx, UnlockRx, At, EnterCritical
  <1>2. /\ Self \in Frame /\ FrameFits(Self)
        BY <1>1, OwnFacts DEF Critical
  <1>3. PICK g, c : /\ Becomes(g) /\ c \in Int
                    /\ \/ g = [Self EXCEPT !.pc = "wakeReceivers", !.cLock = c]
                       \/ g = [Self EXCEPT !.pc = "wakeSenders", !.cLock = c]
    <2>1. cRxLock[Self.q] \in Int /\ cTxLock[Self.q] \in Int BY <1>1, WaitingFacts
    <2> QED BY <2>1 DEF UnlockTx, UnlockRx
  <1>4. /\ g \in Frame /\ g.q = Self.q /\ g.fn = Self.fn /\ g.xEntryTimeSet = Self.xEntryTimeSet
        /\ g.xInheritanceOccurred = Self.xInheritanceOccurred
        /\ g.pc \in {"wakeReceivers", "wakeSenders"} /\ g.outcome = Self.outcome
        BY <1>2, <1>3 DEF Frame, Suspended, Looking, Unlocking
  <1>5. FrameFits(g)
        BY <1>1, <1>2, <1>4, WaitingFacts, MovedFits DEF Looking, Unlocking, FrameFits
  <1> QED BY <1>1, <1>2, <1>3, <1>4, <1>5, WaitingFacts, PlainStep
          DEF Critical, Suspended, Looking, Unlocking, Blocked

(* After a timeout.                                                         *)
LEMMA Recheck_Inv == ASSUME QInv, Recheck PROVE TaskStep /\ QInv'
  <1>1. /\ TaskRuns /\ Self.pc = "recheck"
        /\ UNCHANGED <<kernelVars, uxMessagesWaiting, lockVars, mutexVars, uxCriticalNesting>>
        BY DEF Recheck, At, Unmasked
  <1>2. /\ Self \in Frame /\ FrameFits(Self)
        BY <1>1, OwnFacts DEF Critical
  <1>3. PICK g : /\ Becomes(g)
                 /\ \/ g = [Self EXCEPT !.pc = "try", !.outcome = "none"]
                    \/ Self.xInheritanceOccurred /\ g = [Self EXCEPT !.pc = "disinherit"]
                    \/ g = AppFrame
        BY DEF Recheck
  <1>4. /\ g \in Frame
        /\ \/ g = AppFrame
           \/ /\ g.q = Self.q /\ g.fn = Self.fn /\ g.xEntryTimeSet = Self.xEntryTimeSet
              /\ g.xInheritanceOccurred = Self.xInheritanceOccurred
              /\ \/ g.pc = "try" /\ g.outcome = "none"
                 \/ /\ g.pc = "disinherit" /\ g.outcome = Self.outcome
                    /\ Self.xInheritanceOccurred
    <2>1. CASE g = AppFrame BY <2>1, FrameFacts
    <2>2. CASE g = [Self EXCEPT !.pc = "try", !.outcome = "none"]
          BY <1>2, <2>2 DEF Frame, Stops, Preemptible
    <2>3. CASE Self.xInheritanceOccurred /\ g = [Self EXCEPT !.pc = "disinherit"]
          BY <1>2, <2>3 DEF Frame, Stops, Preemptible
    <2> QED BY <1>3, <2>1, <2>2, <2>3
  <1>5. FrameFits(g)
        BY <1>1, <1>2, <1>4, WaitingFacts, MovedFits, FrameFacts DEF Looking, Unlocking, FrameFits
  <1> QED BY <1>1, <1>2, <1>3, <1>4, <1>5, WaitingFacts, FrameFacts, PlainStep
          DEF Critical, Suspended, Looking, Unlocking

(* vTaskSuspendAll.                                                         *)
LEMMA Suspend_Inv == ASSUME QInv, Suspend PROVE TaskStep /\ QInv'
  <1> DEFINE g == [Self EXCEPT !.pc = "lock"]
  <1>1. /\ TaskRuns /\ Self.pc = "suspend" /\ Becomes(g) /\ vTaskSuspendAll
        /\ UNCHANGED <<uxMessagesWaiting, lockVars, mutexVars, uxCriticalNesting>>
        BY DEF Suspend, At, Unmasked, Goto
  <1>2. /\ Self \in Frame /\ FrameFits(Self) /\ pxCurrentTCB # IdleTask
        /\ uxSchedulerSuspended = 0 /\ section.at = "none" /\ Ready(pxCurrentTCB) /\ ~MustYield
        BY <1>1, OwnFacts, SectionFacts DEF Critical, Suspended, Looking, Unlocking
  <1>3. /\ g \in Frame /\ g.pc = "lock" /\ g.q = Self.q /\ g.fn = Self.fn
        /\ g.outcome = Self.outcome /\ g.xEntryTimeSet = Self.xEntryTimeSet
        /\ g.xInheritanceOccurred = Self.xInheritanceOccurred
        /\ g.xTicksToWait = Self.xTicksToWait
        BY <1>2 DEF Frame, Suspended, Looking
  <1> HIDE DEF g
  <1>4. FrameFits(g)
        BY <1>1, <1>2, <1>3, WaitingFacts, MovedFits DEF Looking, Unlocking, FrameFits
  <1>5. TaskStep BY <1>1, <1>2, WaitingFacts DEF TaskStep
  <1>6. /\ UNCHANGED <<pxCurrentTCB, xSchedulerRunning, section, uxMutexesHeld>>
        /\ Ready(pxCurrentTCB)' /\ uxSchedulerSuspended' = 1
        BY <1>1, <1>2 DEF vTaskSuspendAll, Ready
  <1> QED BY <1>1, <1>2, <1>3, <1>4, <1>5, <1>6, WaitingFacts, WaitingStep
          DEF Critical, Suspended, Looking, Unlocking

(* xTaskResumeAll begins.                                                   *)
LEMMA Resume_Inv == ASSUME QInv, Resume PROVE TaskStep /\ QInv'
  <1> DEFINE g == [Self EXCEPT !.pc = "resuming"]
  <1>1. /\ TaskRuns /\ Self.pc = "resume" /\ Becomes(g) /\ xTaskResumeAll
        /\ UNCHANGED <<uxMessagesWaiting, lockVars, mutexVars, uxCriticalNesting>>
        BY DEF Resume, At, Unmasked, Goto
  <1>2. /\ Self \in Frame /\ FrameFits(Self) /\ pxCurrentTCB # IdleTask
        /\ uxSchedulerSuspended = 1 /\ section = NoSection /\ ~MustYield
        /\ Self.outcome = "block" \/ Ready(pxCurrentTCB)
        BY <1>1, OwnFacts DEF Critical, Suspended, Looking, Unlocking
  <1>3. /\ g \in Frame /\ g.pc = "resuming" /\ g.q = Self.q /\ g.fn = Self.fn
        /\ g.outcome = Self.outcome /\ g.xEntryTimeSet = Self.xEntryTimeSet
        /\ g.xInheritanceOccurred = Self.xInheritanceOccurred
        BY <1>2 DEF Frame
  <1> HIDE DEF g
  <1>4. FrameFits(g)
        BY <1>1, <1>2, <1>3, WaitingFacts, MovedFits DEF Looking, Unlocking, FrameFits
  <1>5. TaskStep BY <1>1, <1>2, WaitingFacts DEF TaskStep
  <1>6. /\ UNCHANGED <<pxCurrentTCB, xSchedulerRunning, uxMutexesHeld>>
        /\ Ready(pxCurrentTCB)' <=> Ready(pxCurrentTCB)
        /\ uxSchedulerSuspended' = 0 /\ section'.at = "pending"
        BY <1>1, <1>2 DEF xTaskResumeAll, Ready, NoSection
  <1> QED BY <1>1, <1>2, <1>3, <1>4, <1>5, <1>6, WaitingFacts, WaitingStep
          DEF Critical, Suspended, Looking, Unlocking, Blocked

(* portYIELD_WITHIN_API.                                                    *)
LEMMA portYIELD_WITHIN_API_Inv ==
    ASSUME QInv, portYIELD_WITHIN_API PROVE TaskStep /\ QInv'
  <1> DEFINE g == [Self EXCEPT !.pc = "try"]
  <1>1. /\ TaskRuns /\ Self.pc = "yield" /\ Becomes(g) /\ portYIELD
        /\ UNCHANGED <<uxMessagesWaiting, lockVars, mutexVars, uxCriticalNesting>>
        BY DEF portYIELD_WITHIN_API, At, Unmasked, Goto
  <1>2. /\ Self \in Frame /\ FrameFits(Self) /\ pxCurrentTCB # IdleTask
        /\ uxSchedulerSuspended = 0 /\ section.at = "none"
        /\ CriticalMasks => uxCriticalNesting = 0
        BY <1>1, OwnFacts, SectionFacts DEF Critical, Suspended, Looking, Unlocking
  <1>3. /\ g \in Frame /\ g.pc = "try" /\ g.q = Self.q /\ g.fn = Self.fn
        /\ g.outcome = Self.outcome /\ g.xEntryTimeSet = Self.xEntryTimeSet
        /\ g.xInheritanceOccurred = Self.xInheritanceOccurred
        BY <1>2 DEF Frame, Stops, Preemptible
  <1> HIDE DEF g
  <1>4. FrameFits(g)
        BY <1>1, <1>2, <1>3, WaitingFacts, MovedFits DEF Looking, Unlocking, FrameFits
  <1>5. TaskStep BY <1>1, <1>2, WaitingFacts DEF TaskStep
  <1>6. /\ UNCHANGED <<pxCurrentTCB, xSchedulerRunning, uxMutexesHeld, section, uxSchedulerSuspended>>
        /\ PENDING_SOFT_SV'
        BY <1>1 DEF portYIELD
  <1> QED BY <1>1, <1>2, <1>3, <1>4, <1>5, <1>6, WaitingFacts, WaitingStep
          DEF Critical, Suspended, Looking, Unlocking, Blocked

(* prvUnlockQueue wakes a task for a message a handler sent or received, or *)
(* ends one of its loops.                                                   *)
LEMMA WakeLoop ==
    ASSUME QInv, TaskRuns, Self.pc \in {"wakeReceivers", "wakeSenders"},
           NEW e \in EventList, xTaskRemoveFromEventList(e, FALSE),
           Becomes([Self EXCEPT !.cLock = @ - 1]),
           UNCHANGED <<uxMessagesWaiting, lockVars, mutexVars, uxCriticalNesting>>
    PROVE  TaskStep /\ QInv'
  <1> DEFINE g == [Self EXCEPT !.cLock = @ - 1]
  <1>1. Becomes(g) OBVIOUS
  <1>2. /\ Self \in Frame /\ FrameFits(Self) /\ pxCurrentTCB # IdleTask
        /\ uxSchedulerSuspended = 1 /\ section = NoSection /\ xSchedulerRunning /\ ~MustYield
        /\ Self.outcome = "block" \/ Ready(pxCurrentTCB)
        /\ uxCriticalNesting \in 0 .. MaxCritical /\ KInv /\ pxCurrentTCB \in Task
        BY OwnFacts DEF Critical, Suspended, Looking, Unlocking, TypeOK
  <1>3. /\ g \in Frame /\ g.pc = Self.pc /\ g.q = Self.q /\ g.fn = Self.fn
        /\ g.outcome = Self.outcome /\ g.xEntryTimeSet = Self.xEntryTimeSet
        /\ g.xInheritanceOccurred = Self.xInheritanceOccurred
        BY <1>2 DEF Frame
  <1> HIDE DEF g
  <1>4. FrameFits(g)
        BY <1>2, <1>3, WaitingFacts, MovedFits DEF Looking, Unlocking, FrameFits
  <1>5. TaskStep
    <2>1. \E f \in EventList, yields \in BOOLEAN : xTaskRemoveFromEventList(f, yields) OBVIOUS
    <2>2. /\ uxCriticalNesting' \in uxCriticalNesting - 1 .. uxCriticalNesting + 1
          /\ uxCriticalNesting' \in 0 .. MaxCritical
          BY <1>2
    <2> QED BY ONLY TaskRuns, <1>2, <2>1, <2>2 DEF TaskStep
  <1>6. /\ UNCHANGED <<pxCurrentTCB, xSchedulerRunning, uxMutexesHeld, section,
                       uxSchedulerSuspended>>
        BY DEF xTaskRemoveFromEventList
  <1>7. Ready(pxCurrentTCB) => Ready(pxCurrentTCB)'
    <2>1. NobodySleeps BY <1>2, xTaskRemoveFromEventList_Inv
    <2>2. \A u \in Task : Ready(u) => Ready(u)' BY <2>1 DEF NobodySleeps
    <2> QED BY <1>2, <1>6, <2>2 DEF Ready
  <1> QED BY <1>1, <1>2, <1>3, <1>4, <1>5, <1>6, <1>7, WaitingFacts, SectionFacts, WaitingStep
          DEF Critical, Suspended, Looking, Unlocking, Blocked

(* One of the loops of prvUnlockQueue ends.                                 *)
LEMMA WakeEnd ==
    ASSUME QInv, TaskRuns, Self.pc \in {"wakeReceivers", "wakeSenders"},
           NEW pc \in {"unlockRx", "resume"}, NEW c \in Int, Becomes([Self EXCEPT !.pc = pc, !.cLock = c]),
           UNCHANGED <<kernelVars, uxMessagesWaiting, mutexVars>>, ExitCritical,
           cRxLock' \in [QueueHandle -> Int], cTxLock' \in [QueueHandle -> Int]
    PROVE  TaskStep /\ QInv'
  <1> DEFINE g == [Self EXCEPT !.pc = pc, !.cLock = c]
  <1>1. Becomes(g) OBVIOUS
  <1>2. /\ Self \in Frame /\ FrameFits(Self) /\ uxCriticalNesting' = uxCriticalNesting - 1
        /\ uxCriticalNesting' <= MaxCritical
        BY OwnFacts DEF Critical, ExitCritical
  <1>3. /\ g \in Frame /\ g.q = Self.q /\ g.fn = Self.fn /\ g.xEntryTimeSet = Self.xEntryTimeSet
        /\ g.xInheritanceOccurred = Self.xInheritanceOccurred
        /\ g.pc = pc /\ g.outcome = Self.outcome
    <2>1. pc \in Suspended BY DEF Unlocking, Suspended
    <2> QED BY <1>2, <2>1 DEF Frame
  <1> HIDE DEF g
  <1>4. FrameFits(g)
        BY <1>1, <1>2, <1>3, WaitingFacts, MovedFits DEF Looking, Unlocking, FrameFits
  <1> QED BY <1>1, <1>2, <1>3, <1>4, WaitingFacts, PlainStep
          DEF Critical, Suspended, Looking, Unlocking, Blocked

(* Both loops of prvUnlockQueue.                                            *)
LEMMA Wake_Inv ==
    ASSUME QInv, WakeReceivers \/ WakeSenders PROVE TaskStep /\ QInv'
  <1>1. /\ TaskRuns /\ Self.pc \in {"wakeReceivers", "wakeSenders"}
        /\ UNCHANGED <<uxMessagesWaiting, mutexVars>>
        BY DEF WakeReceivers, WakeSenders, At
  <1>2. /\ Self.q \in QueueHandle
        /\ cRxLock \in [QueueHandle -> Int] /\ cTxLock \in [QueueHandle -> Int]
        BY <1>1, WaitingFacts
  <1>3. xTasksWaitingToReceive(Self.q) \in EventList /\ xTasksWaitingToSend(Self.q) \in EventList
        BY <1>2, QueueAssumption DEF xTasksWaitingToReceive, xTasksWaitingToSend
  <1>4. CASE WakeReceivers
    <2> DEFINE e == xTasksWaitingToReceive(Self.q)
    <2>1. CASE Self.cLock > queueLOCKED_UNMODIFIED /\ xEventLists[e] # << >>
      <3>1. /\ xTaskRemoveFromEventList(e, FALSE) /\ Becomes([Self EXCEPT !.cLock = @ - 1])
            /\ UNCHANGED <<lockVars, uxCriticalNesting>>
            BY <1>4, <2>1 DEF WakeReceivers, Unmasked
      <3> QED BY <1>1, <1>3, <3>1, WakeLoop
    <2>2. CASE ~(Self.cLock > queueLOCKED_UNMODIFIED /\ xEventLists[e] # << >>)
      <3>1. /\ cTxLock' = [cTxLock EXCEPT ![Self.q] = queueUNLOCKED] /\ UNCHANGED cRxLock
            /\ Becomes([Self EXCEPT !.pc = "unlockRx", !.cLock = 0])
            /\ ExitCritical /\ UNCHANGED kernelVars
            BY <1>4, <2>2 DEF WakeReceivers
      <3>2. cRxLock' \in [QueueHandle -> Int] /\ cTxLock' \in [QueueHandle -> Int]
            BY <1>2, <3>1 DEF queueUNLOCKED
      <3>3. \E c \in Int : Becomes([Self EXCEPT !.pc = "unlockRx", !.cLock = c])
        <4>1. 0 \in Int OBVIOUS
        <4> QED BY <3>1, <4>1, Zenon
      <3> QED BY <1>1, <3>1, <3>2, <3>3, WakeEnd
    <2> QED BY <2>1, <2>2
  <1>5. CASE WakeSenders
    <2> DEFINE e == xTasksWaitingToSend(Self.q)
    <2>1. CASE Self.cLock > queueLOCKED_UNMODIFIED /\ xEventLists[e] # << >>
      <3>1. /\ xTaskRemoveFromEventList(e, FALSE) /\ Becomes([Self EXCEPT !.cLock = @ - 1])
            /\ UNCHANGED <<lockVars, uxCriticalNesting>>
            BY <1>5, <2>1 DEF WakeSenders, Unmasked
      <3> QED BY <1>1, <1>3, <3>1, WakeLoop
    <2>2. CASE ~(Self.cLock > queueLOCKED_UNMODIFIED /\ xEventLists[e] # << >>)
      <3>1. /\ cRxLock' = [cRxLock EXCEPT ![Self.q] = queueUNLOCKED] /\ UNCHANGED cTxLock
            /\ Becomes([Self EXCEPT !.pc = "resume", !.cLock = 0])
            /\ ExitCritical /\ UNCHANGED kernelVars
            BY <1>5, <2>2 DEF WakeSenders
      <3>2. cRxLock' \in [QueueHandle -> Int] /\ cTxLock' \in [QueueHandle -> Int]
            BY <1>2, <3>1 DEF queueUNLOCKED
      <3>3. \E c \in Int : Becomes([Self EXCEPT !.pc = "resume", !.cLock = c])
        <4>1. 0 \in Int OBVIOUS
        <4> QED BY <3>1, <4>1, Zenon
      <3> QED BY <1>1, <3>1, <3>2, <3>3, WakeEnd
    <2> QED BY <2>1, <2>2
  <1> QED BY <1>4, <1>5

(* The holder of a mutex counts it.                                         *)
LEMMA HolderCounts ==
    ASSUME QInv, NEW q \in Mutex, xMutexHolder[q] # NULL
    PROVE  xMutexHolder[q] \in Task /\ uxMutexesHeld[xMutexHolder[q]] > 0
  <1> DEFINE h == xMutexHolder[q]
             S == {m \in Mutex : xMutexHolder[m] = h}
  <1>1. h \in Task BY DEF QInv, QTypeOK
  <1>2. S \subseteq QueueHandle /\ q \in S BY FrameFacts
  <1>3. IsFiniteSet(S) BY <1>2, ProgramAssumption, FS_Subset
  <1>4. Cardinality(S) \in Nat /\ Cardinality(S) # 0
        BY <1>2, <1>3, FS_CardinalityType, FS_EmptySet
  <1> QED BY <1>1, <1>4 DEF QInv, HeldIsCounted

(* Inheritance leaves ready who was ready.                                  *)
LEMMA SetPriorityReady ==
    ASSUME KInv, NEW t \in Task, NEW p \in Priority,
           SetPriority(t, p) \/ UNCHANGED <<uxPriority, readyVars>>,
           UNCHANGED <<pxCurrentTCB, xTickCount, xSchedulerRunning, delayVars>>
    PROVE  \A u \in Task : Ready(u)' <=> Ready(u)
  <1>1. CASE SetPriority(t, p) BY <1>1, SetPriorityKeepsLists
  <1>2. CASE UNCHANGED <<uxPriority, readyVars>> BY <1>2 DEF Ready
  <1> QED BY <1>1, <1>2

(* The holder inherits.                                                     *)
LEMMA Inherit_Inv == ASSUME QInv, Inherit PROVE TaskStep /\ QInv'
  <1> DEFINE h == xMutexHolder[Self.q]
             b == xInheritanceOccurred(h)
             g == [Self EXCEPT !.pc = "place", !.xInheritanceOccurred = b]
  <1>1. /\ TaskRuns /\ Self.pc = "inherit" /\ Becomes(g) /\ xTaskPriorityInherit(h)
        /\ UNCHANGED <<uxMessagesWaiting, lockVars, mutexVars, uxCriticalNesting>>
        BY DEF Inherit, At, Unmasked
  <1>2. /\ Self \in Frame /\ FrameFits(Self) /\ pxCurrentTCB # IdleTask
        /\ uxSchedulerSuspended = 1 /\ section.at = "none" /\ Ready(pxCurrentTCB) /\ ~MustYield
        /\ KInv /\ pxCurrentTCB \in Task
        BY <1>1, OwnFacts, SectionFacts DEF Critical, Suspended, Looking, Unlocking
  <1>3. /\ Self.q \in Mutex /\ h # NULL /\ h # pxCurrentTCB
    <2>1. Self.q \in Mutex /\ Self.fn \in {"take", "takeRecursive"} BY <1>1, <1>2 DEF FrameFits
    <2>2. HolderFits(Self, pxCurrentTCB) BY <1>2 DEF QInv, HoldersFit, Self
    <2> QED BY <1>1, <2>1, <2>2 DEF HolderFits
  <1>4. h \in Task /\ uxMutexesHeld[h] > 0 BY <1>3, HolderCounts
  <1>5. b \in BOOLEAN BY DEF xInheritanceOccurred
  <1> HIDE DEF b, h
  <1>6. /\ g \in Frame /\ g.pc = "place" /\ g.q = Self.q /\ g.fn = Self.fn
        /\ g.outcome = Self.outcome /\ g.xEntryTimeSet = Self.xEntryTimeSet
        /\ g.xTicksToWait = Self.xTicksToWait
        BY <1>2, <1>5 DEF Frame, Suspended, Looking
  <1> HIDE DEF g
  <1>7. FrameFits(g)
        BY <1>1, <1>2, <1>6, WaitingFacts, MovedFits DEF Looking, Unlocking, FrameFits
  <1>8. TaskStep BY <1>1, <1>2, <1>3, <1>4, WaitingFacts DEF TaskStep
  <1>9. /\ UNCHANGED <<pxCurrentTCB, xTickCount, xSchedulerRunning, uxMutexesHeld, section,
                       uxSchedulerSuspended, delayVars>>
        /\ SetPriority(h, uxPriority[pxCurrentTCB]) \/ UNCHANGED <<uxPriority, readyVars>>
        BY <1>1 DEF xTaskPriorityInherit
  <1>10. Ready(pxCurrentTCB)'
    <2>1. uxPriority[pxCurrentTCB] \in Priority BY <1>2, ListFacts
    <2>2. \A u \in Task : Ready(u)' <=> Ready(u) BY <1>2, <1>4, <1>9, <2>1, SetPriorityReady
    <2> QED BY <1>2, <1>9, <2>2 DEF Ready
  <1> QED BY <1>1, <1>2, <1>6, <1>7, <1>8, <1>9, <1>10, WaitingFacts, WaitingStep
          DEF Critical, Suspended, Looking, Unlocking

(* vTaskPlaceOnEventList.                                                   *)
LEMMA Place_Inv == ASSUME QInv, Place PROVE TaskStep /\ QInv'
  <1> DEFINE g == [Self EXCEPT !.pc = "unlockTx", !.outcome = "block"]
             e == WaitList(Self.fn, Self.q)
             n == Self.xTicksToWait
  <1>1. /\ TaskRuns /\ Self.pc = "place" /\ Becomes(g) /\ vTaskPlaceOnEventList(e, n)
        /\ UNCHANGED <<uxMessagesWaiting, lockVars, mutexVars, uxCriticalNesting>>
        BY DEF Place, At, Unmasked
  <1>2. /\ Self \in Frame /\ FrameFits(Self) /\ pxCurrentTCB # IdleTask
        /\ uxSchedulerSuspended = 1 /\ section.at = "none" /\ Ready(pxCurrentTCB) /\ ~MustYield
        BY <1>1, OwnFacts, SectionFacts DEF Critical, Suspended, Looking, Unlocking
  <1>3. /\ g \in Frame /\ g.pc = "unlockTx" /\ g.q = Self.q /\ g.fn = Self.fn
        /\ g.outcome = "block" /\ g.xEntryTimeSet = Self.xEntryTimeSet
        /\ g.xInheritanceOccurred = Self.xInheritanceOccurred
        BY <1>2 DEF Frame, Suspended, Unlocking
  <1>4. e \in EventList /\ n \in 1 .. portMAX_DELAY
    <2>1. e \in EventList
          BY <1>1, WaitingFacts, QueueAssumption
          DEF WaitList, xTasksWaitingToReceive, xTasksWaitingToSend
    <2>2. n > 0 BY <1>1, <1>2 DEF FrameFits, Looking
    <2> QED BY <1>1, <2>1, <2>2, WaitingFacts, KernelAssumption DEF TickType, portMAX_DELAY
  <1> HIDE DEF g, e, n
  <1>5. FrameFits(g)
        BY <1>1, <1>2, <1>3, WaitingFacts, MovedFits DEF Looking, Unlocking, FrameFits
  <1>6. TaskStep
    <2>1. \E f \in EventList, m \in 1 .. portMAX_DELAY : vTaskPlaceOnEventList(f, m)
          BY <1>1, <1>4
    <2> QED BY <1>1, <1>2, <2>1, WaitingFacts DEF TaskStep
  <1>7. /\ UNCHANGED <<pxCurrentTCB, xSchedulerRunning, uxMutexesHeld, section,
                       uxSchedulerSuspended>>
        BY <1>1 DEF vTaskPlaceOnEventList
  <1> QED BY <1>1, <1>2, <1>3, <1>5, <1>6, <1>7, WaitingFacts, WaitingStep
          DEF Critical, Suspended, Looking, Unlocking, Blocked

(* A priority that was lent is taken back, unless the mutex is free by now. *)
LEMMA Disinherit_Inv == ASSUME QInv, Disinherit PROVE TaskStep /\ QInv'
  <1> DEFINE h == xMutexHolder[Self.q]
             p == prvGetDisinheritPriorityAfterTimeout(Self.q)
  <1>1. /\ TaskRuns /\ Self.pc = "disinherit" /\ Becomes(AppFrame)
        /\ vTaskPriorityDisinheritAfterTimeout(h, p)
        /\ UNCHANGED <<uxMessagesWaiting, lockVars, mutexVars, uxCriticalNesting>>
        BY DEF Disinherit, At, Unmasked
  <1>2. /\ Self \in Frame /\ FrameFits(Self) /\ pxCurrentTCB # IdleTask
        /\ uxSchedulerSuspended = 0 /\ section.at = "none" /\ Ready(pxCurrentTCB) /\ ~MustYield
        /\ KInv /\ pxCurrentTCB \in Task
        BY <1>1, OwnFacts, SectionFacts DEF Critical, Suspended, Looking, Unlocking
  <1>3. p \in Priority
    <2> DEFINE w == xEventLists[xTasksWaitingToReceive(Self.q)]
    <2>1. xTasksWaitingToReceive(Self.q) \in EventList
          BY <1>1, WaitingFacts, QueueAssumption DEF xTasksWaitingToReceive
    <2>2. IsTaskList(w) BY <1>2, <2>1, ListFacts
    <2>3. CASE w = << >>
          BY <2>3, KernelAssumption DEF prvGetDisinheritPriorityAfterTimeout, Priority
    <2>4. CASE w # << >>
      <3>1. w[1] \in Task BY <2>2, <2>4 DEF IsTaskList
      <3>2. uxPriority[w[1]] \in Priority BY <1>2, <3>1, ListFacts
      <3>3. p = configMAX_PRIORITIES - (configMAX_PRIORITIES - uxPriority[w[1]])
            BY <2>4, <3>1 DEF prvGetDisinheritPriorityAfterTimeout, EventItemValue
      <3> QED BY <3>2, <3>3, KernelAssumption DEF Priority
    <2> QED BY <2>3, <2>4
  <1>4. FrameFits(AppFrame) /\ AppFrame \in Frame /\ AppFrame.pc = "app" BY FrameFacts
  <1>5. /\ UNCHANGED <<pxCurrentTCB, xTickCount, xSchedulerRunning, uxMutexesHeld, section,
                       uxSchedulerSuspended, delayVars>>
        BY <1>1 DEF vTaskPriorityDisinheritAfterTimeout
  <1>6. CASE Self.q \in Mutex /\ h # NULL
    <2>1. HolderFits(Self, pxCurrentTCB) BY <1>2 DEF QInv, HoldersFit, Self
    <2>2. h # pxCurrentTCB
          BY <1>1, <1>2, <1>6, <2>1 DEF HolderFits, FrameFits, Sends
    <2>3. h \in Task /\ uxMutexesHeld[h] > 0 BY <1>6, HolderCounts
    <2>4. TaskStep
      <3> HIDE DEF h, p
      <3>1. \E t \in Task \ {pxCurrentTCB} :
                uxMutexesHeld[t] > 0 /\ \E r \in Priority : vTaskPriorityDisinheritAfterTimeout(t, r)
            BY <1>1, <1>3, <2>2, <2>3
      <3> QED BY <1>1, <1>2, <3>1, WaitingFacts DEF TaskStep
    <2>5. Ready(pxCurrentTCB)'
      <3> DEFINE r == Higher(uxBasePriority[h], p)
      <3>1. SetPriority(h, r) \/ UNCHANGED <<uxPriority, readyVars>>
            BY <1>1 DEF vTaskPriorityDisinheritAfterTimeout
      <3>2. uxBasePriority[h] \in Priority BY <1>2, <2>3 DEF KInv, TypeOK
      <3>3. r \in Priority BY <1>3, <3>2 DEF Higher
      <3> HIDE DEF r
      <3>4. \A u \in Task : Ready(u)' <=> Ready(u) BY <1>2, <1>5, <2>3, <3>1, <3>3, SetPriorityReady
      <3> QED BY <1>2, <1>5, <3>4 DEF Ready
    <2> QED BY <1>1, <1>2, <1>4, <1>5, <2>4, <2>5, WaitingFacts, WaitingStep
            DEF Critical, Suspended, Looking, Unlocking
  <1>7. CASE Self.q \in Mutex /\ h = NULL
    <2>1. UNCHANGED kernelVars BY <1>1, <1>7 DEF vTaskPriorityDisinheritAfterTimeout
    <2> QED BY <1>1, <1>2, <1>4, <2>1, WaitingFacts, PlainStep
            DEF Critical, Suspended, Looking, Unlocking
  <1>8. Self.q \in Mutex BY <1>1, <1>2 DEF FrameFits
  <1> QED BY <1>6, <1>7, <1>8
-----------------------------------------------------------------------------
(* A mutex is taken (h is the current task) or given (h is NULL).           *)
LEMMA MutexMoves ==
    ASSUME QInv, pxCurrentTCB \in Task, NEW q \in Mutex, NEW h \in {NULL, pxCurrentTCB},
           xMutexHolder[q] \in {NULL, pxCurrentTCB} \ {h},
           xMutexHolder' = [xMutexHolder EXCEPT ![q] = h], UNCHANGED uxRecursiveCallCount,
           uxMutexesHeld' = [uxMutexesHeld EXCEPT ![pxCurrentTCB] =
                                IF h = NULL THEN @ - 1 ELSE @ + 1],
           uxMessagesWaiting' = [uxMessagesWaiting EXCEPT ![q] = IF h = NULL THEN 1 ELSE 0],
           NEW g, Becomes(g), Self.q = q, Self.pc = "try", FrameFits(Self),
           g.q = q, g.fn = Self.fn, g.pc = "notify", Sends(Self.fn) <=> h = NULL
    PROVE  HoldersFit' /\ TakenIsHeld' /\ HeldIsCounted' /\ RecursionIsCounted'
  <1>1. /\ frame'[pxCurrentTCB] = g
        /\ \A t \in Task : t # pxCurrentTCB => frame'[t] = frame[t]
        BY DEF QInv, QTypeOK, Becomes
  <1>2. /\ xMutexHolder'[q] = h /\ NULL \notin Task
        /\ \A m \in Mutex : m # q => xMutexHolder'[m] = xMutexHolder[m]
        BY KernelAssumption DEF QInv, QTypeOK
  <1>3. Self.fn = IF h = NULL THEN "send" ELSE IF q \in Recursive THEN "takeRecursive" ELSE "take"
        BY DEF FrameFits, Sends
  <1>4. HoldersFit'
    <2> SUFFICES ASSUME NEW t \in Task PROVE HolderFits(frame[t], t)' BY DEF HoldersFit
    <2>1. CASE t = pxCurrentTCB
          BY <1>1, <1>2, <1>3, <2>1 DEF HolderFits
    <2>2. CASE t # pxCurrentTCB
      <3>1. frame'[t] = frame[t] /\ HolderFits(frame[t], t) /\ Stops(frame[t].pc)
            BY <1>1, <2>2 DEF QInv, HoldersFit, Control
      <3>2. xMutexHolder[q] # t /\ xMutexHolder'[q] # t BY <1>2, <2>2
      <3> QED BY <1>2, <3>1, <3>2 DEF HolderFits, Stops, Preemptible
    <2> QED BY <2>1, <2>2
  <1>5. TakenIsHeld'
    <2>1. uxMessagesWaiting'[q] = (IF h = NULL THEN 1 ELSE 0)
          /\ \A m \in Mutex : m # q => uxMessagesWaiting'[m] = uxMessagesWaiting[m]
          BY FrameFacts DEF QInv, QTypeOK
    <2> QED BY <1>2, <2>1 DEF QInv, TakenIsHeld
  <1>6. HeldIsCounted'
    <2> SUFFICES ASSUME NEW t \in Task
                 PROVE  uxMutexesHeld'[t] = Cardinality({m \in Mutex : xMutexHolder'[m] = t})
          BY DEF HeldIsCounted
    <2> DEFINE S == {m \in Mutex : xMutexHolder[m] = t}
               T == {m \in Mutex : xMutexHolder'[m] = t}
    <2>1. /\ uxMutexesHeld[t] = Cardinality(S) /\ IsFiniteSet(S) /\ Cardinality(S) \in Nat
          /\ uxMutexesHeld \in [Task -> 0 .. MaxMutexesHeld]
      <3>1. uxMutexesHeld \in [Task -> 0 .. MaxMutexesHeld] BY DEF QInv, KInv, TypeOK
      <3>2. uxMutexesHeld[t] = Cardinality(S) BY DEF QInv, HeldIsCounted
      <3>3. IsFiniteSet(S) /\ Cardinality(S) \in Nat
        <4>1. S \subseteq QueueHandle BY FrameFacts
        <4> HIDE DEF S
        <4>2. IsFiniteSet(S) BY <4>1, ProgramAssumption, FS_Subset
        <4> QED BY <4>2, FS_CardinalityType
      <3> QED BY <3>1, <3>2, <3>3
    <2>2. CASE t # pxCurrentTCB
      <3>1. T = S BY <1>2, <2>2
      <3> QED BY <2>1, <2>2, <3>1
    <2>3. CASE t = pxCurrentTCB /\ h = NULL
      <3>1. T = S \ {q} /\ q \in S BY <1>2, <2>3
      <3>2. Cardinality(T) = Cardinality(S) - 1
        <4> HIDE DEF S, T
        <4> QED BY <2>1, <3>1, FS_RemoveElement
      <3> QED BY <2>1, <2>3, <3>2
    <2>4. CASE t = pxCurrentTCB /\ h = t
      <3>1. T = S \cup {q} /\ q \notin S BY <1>2, <2>4
      <3>2. Cardinality(T) = Cardinality(S) + 1
        <4> HIDE DEF S, T
        <4> QED BY <2>1, <3>1, FS_AddElement
      <3> QED BY <1>2, <2>1, <2>4, <3>2
    <2> QED BY <2>2, <2>3, <2>4
  <1>7. RecursionIsCounted'
    <2> SUFFICES ASSUME NEW r \in Recursive
                 PROVE  uxRecursiveCallCount[r] > 0 <=>
                           xMutexHolder'[r] # NULL /\ ~Counting(frame'[xMutexHolder'[r]], r)
          BY DEF RecursionIsCounted, Counting
    <2>1. /\ r \in Mutex /\ xMutexHolder[r] \in Task \cup {NULL}
          /\ uxRecursiveCallCount[r] > 0 <=>
                 xMutexHolder[r] # NULL /\ ~Counting(frame[xMutexHolder[r]], r)
          BY FrameFacts DEF QInv, RecursionIsCounted, QTypeOK
    <2>2. CASE r = q
      <3>1. ~(uxRecursiveCallCount[r] > 0)
            BY <1>3, <2>1, <2>2 DEF Counting, Self
      <3> QED BY <1>1, <1>2, <1>3, <2>2, <3>1 DEF Counting
    <2>3. CASE r # q
      <3>1. xMutexHolder'[r] = xMutexHolder[r] BY <1>2, <2>1, <2>3
      <3>2. CASE xMutexHolder[r] = pxCurrentTCB
            BY <1>1, <2>1, <2>3, <3>1, <3>2 DEF Counting, Self
      <3>3. CASE xMutexHolder[r] # pxCurrentTCB BY <1>1, <2>1, <3>1, <3>3
      <3> QED BY <3>2, <3>3
    <2> QED BY <2>2, <2>3
  <1> QED BY <1>4, <1>5, <1>6, <1>7

(* The call succeeds: a message is copied in or out.                        *)
LEMMA Commit_Inv == ASSUME QInv, Commit PROVE TaskStep /\ QInv'
  <1> DEFINE q == Self.q
             fn == Self.fn
             b == q \in Mutex /\ Sends(fn) /\ xYieldRequired
             g == [Self EXCEPT !.pc = "notify", !.xYieldRequired = b]
             m == uxMessagesWaiting[q]
             n == IF fn = "peek" \/ (fn = "overwrite" /\ m > 0) THEN m
                  ELSE IF Sends(fn) THEN m + 1 ELSE m - 1
  <1>1. /\ TaskRuns /\ Self.pc = "try" /\ Becomes(g) /\ Available(fn, q)
        /\ UNCHANGED <<lockVars, uxRecursiveCallCount>>
        /\ uxCriticalNesting' = uxCriticalNesting + 1 /\ uxCriticalNesting < MaxCritical
        BY DEF Commit, At, EnterCritical
  <1>2. /\ Self \in Frame /\ FrameFits(Self) /\ pxCurrentTCB # IdleTask
        /\ uxSchedulerSuspended = 0 /\ section.at = "none" /\ Ready(pxCurrentTCB) /\ ~MustYield
        /\ KInv /\ pxCurrentTCB \in Task /\ MaxCritical \in Nat
        /\ uxCriticalNesting \in 0 .. MaxCritical
        BY <1>1, OwnFacts, SectionFacts, KernelAssumption DEF Critical, Suspended, Looking, Unlocking
  <1>3. uxMessagesWaiting' = [uxMessagesWaiting EXCEPT ![q] = n] BY DEF Commit
  <1>4. /\ q \in QueueHandle /\ m \in Nat /\ uxLength[q] \in Nat \ {0} /\ m <= uxLength[q]
        BY <1>1, <1>2, QueueAssumption DEF FrameFits, QInv, QTypeOK
  <1>5. n \in Nat /\ n <= uxLength[q]
        BY <1>1, <1>4 DEF Available, Sends
  <1>6. b \in BOOLEAN OBVIOUS
  <1>7. IF q \in Mutex
        THEN /\ IF Sends(fn) THEN xTaskPriorityDisinherit ELSE pvTaskIncrementMutexHeldCount
             /\ xMutexHolder' = [xMutexHolder EXCEPT ![q] = NewHolder(fn)]
        ELSE UNCHANGED <<kernelVars, xMutexHolder>>
        BY DEF Commit
  <1> HIDE DEF b, n
  <1>8. /\ g \in Frame /\ g.pc = "notify" /\ g.q = q /\ g.fn = fn
        /\ g.outcome = Self.outcome /\ g.xInheritanceOccurred = Self.xInheritanceOccurred
        BY <1>2, <1>6 DEF Frame, Critical
  <1> HIDE DEF g
  <1>9. FrameFits(g)
        BY <1>1, <1>2, <1>8 DEF FrameFits, Suspended, Looking, Unlocking
  <1>10. /\ uxMessagesWaiting' \in [QueueHandle -> Nat] /\ uxMessagesWaiting'[q] = n
         /\ \A r \in QueueHandle : uxMessagesWaiting'[r] <= uxLength[r]
         /\ \A r \in QueueHandle : r # q => uxMessagesWaiting'[r] = uxMessagesWaiting[r]
         BY <1>3, <1>4, <1>5 DEF QInv, QTypeOK
  <1>11. /\ uxCriticalNesting' \in uxCriticalNesting - 1 .. uxCriticalNesting + 1
         /\ uxCriticalNesting' \in 0 .. MaxCritical
         BY <1>1, <1>2
  <1>12. CASE q \notin Mutex
    <2>1. UNCHANGED <<kernelVars, xMutexHolder>> BY <1>7, <1>12
    <2>2. TaskStep BY <1>1, <1>2, <1>11, <2>1 DEF TaskStep
    <2>3. /\ UNCHANGED <<pxCurrentTCB, xSchedulerRunning, uxMutexesHeld, section,
                         uxSchedulerSuspended, mutexVars>>
          /\ Ready(pxCurrentTCB)'
          BY <1>1, <1>2, <2>1 DEF Ready
    <2>4. KInv' /\ frame' \in [Task -> Frame] /\ FramesFit' /\ Control' /\ CurrentIsReady'
          BY <1>1, <1>2, <1>8, <1>9, <1>11, <2>2, <2>3, OwnStep
          DEF Critical, Suspended, Looking, Unlocking
    <2>5. HoldersFit' /\ TakenIsHeld' /\ HeldIsCounted' /\ RecursionIsCounted'
      <3>1. /\ \A r \in Mutex : uxMessagesWaiting'[r] = uxMessagesWaiting[r]
            /\ HolderFits(g, pxCurrentTCB)
            /\ \A r \in Recursive : ~Counting(Self, r) /\ ~Counting(g, r)
            BY <1>8, <1>10, <1>12, FrameFacts DEF HolderFits, Counting
      <3> QED BY <1>1, <1>2, <2>3, <3>1, SameMutexes
    <2>6. QTypeOK' BY <1>1, <1>10, <2>3, <2>4 DEF QInv, QTypeOK
    <2> QED BY <2>2, <2>4, <2>5, <2>6 DEF QInv
  <1>13. CASE q \in Mutex
    <2> DEFINE h == NewHolder(fn)
    <2>1. /\ uxLength[q] = 1 /\ (m = 0 <=> xMutexHolder[q] # NULL)
          /\ xMutexHolder[q] \in Task \cup {NULL} /\ HolderFits(Self, pxCurrentTCB)
          /\ fn \in {"send", "take", "takeRecursive"}
          BY <1>2, <1>13, QueueAssumption
          DEF QInv, TakenIsHeld, QTypeOK, HoldersFit, Self, FrameFits
    <2>2. /\ h \in {NULL, pxCurrentTCB} /\ (Sends(fn) <=> h = NULL)
          /\ xMutexHolder[q] \in {NULL, pxCurrentTCB} \ {h}
          /\ n = IF h = NULL THEN 1 ELSE 0
      <3>1. NULL \notin Task /\ (Sends(fn) <=> fn = "send") BY <2>1, KernelAssumption DEF Sends
      <3>2. CASE fn = "send"
        <4>1. h = NULL /\ xMutexHolder[q] = pxCurrentTCB
              BY <1>1, <1>13, <2>1, <3>1, <3>2 DEF NewHolder, HolderFits
        <4>2. n = 1 BY <1>2, <2>1, <3>1, <3>2, <4>1 DEF n
        <4> QED BY <1>2, <3>1, <3>2, <4>1, <4>2
      <3>3. CASE fn # "send"
        <4>1. h = pxCurrentTCB BY <3>1, <3>3 DEF NewHolder
        <4>2. m = 1 BY <1>1, <1>4, <2>1, <3>1, <3>3 DEF Available
        <4>3. n = 0 BY <2>1, <3>1, <3>3, <4>2 DEF n
        <4> QED BY <1>2, <2>1, <3>1, <3>3, <4>1, <4>2, <4>3
      <3> QED BY <3>2, <3>3
    <2>3. /\ xMutexHolder' = [xMutexHolder EXCEPT ![q] = h]
          /\ IF Sends(fn) THEN xTaskPriorityDisinherit ELSE pvTaskIncrementMutexHeldCount
          BY <1>7, <1>13
    <2> HIDE DEF h
    <2>4. TaskStep BY <1>1, <1>2, <1>11, <2>3 DEF TaskStep
    <2>5. /\ UNCHANGED <<pxCurrentTCB, xTickCount, xSchedulerRunning, section, delayVars,
                         uxSchedulerSuspended>>
          /\ uxMutexesHeld' = [uxMutexesHeld EXCEPT ![pxCurrentTCB] =
                                  IF h = NULL THEN @ - 1 ELSE @ + 1]
          /\ \/ SetPriority(pxCurrentTCB, uxBasePriority[pxCurrentTCB])
             \/ UNCHANGED <<uxPriority, readyVars>>
          BY <2>2, <2>3 DEF xTaskPriorityDisinherit, pvTaskIncrementMutexHeldCount
    <2>6. Ready(pxCurrentTCB)'
      <3>1. uxBasePriority[pxCurrentTCB] \in Priority BY <1>2 DEF KInv, TypeOK
      <3>2. \A u \in Task : Ready(u)' <=> Ready(u) BY <1>2, <2>5, <3>1, SetPriorityReady
      <3> QED BY <1>2, <2>5, <3>2 DEF Ready
    <2>7. KInv' /\ frame' \in [Task -> Frame] /\ FramesFit' /\ Control' /\ CurrentIsReady'
          BY <1>1, <1>2, <1>8, <1>9, <1>11, <2>4, <2>5, <2>6, OwnStep
          DEF Critical, Suspended, Looking, Unlocking
    <2>8. HoldersFit' /\ TakenIsHeld' /\ HeldIsCounted' /\ RecursionIsCounted'
          BY <1>1, <1>2, <1>3, <1>8, <1>13, <2>2, <2>3, <2>5, MutexMoves
    <2>9. xMutexHolder' \in [Mutex -> Task \cup {NULL}]
          BY <1>2, <2>2, <2>3 DEF QInv, QTypeOK
    <2>10. QTypeOK' BY <1>1, <1>10, <2>7, <2>9 DEF QInv, QTypeOK
    <2> QED BY <2>4, <2>7, <2>8, <2>10 DEF QInv
  <1> QED BY <1>12, <1>13

(* The call wakes a task of the other side and returns.                     *)
LEMMA Notify_Inv == ASSUME QInv, Notify PROVE TaskStep /\ QInv'
  <1> DEFINE e == WakeList(Self.fn, Self.q)
  <1>1. /\ TaskRuns /\ Self.pc = "notify" /\ uxCriticalNesting' = uxCriticalNesting - 1
        /\ UNCHANGED <<uxMessagesWaiting, lockVars, mutexVars>>
        /\ IF xEventLists[e] # << >> THEN xTaskRemoveFromEventList(e, TRUE)
           ELSE IF Self.xYieldRequired THEN portYIELD ELSE UNCHANGED kernelVars
        BY DEF Notify, At, ExitCritical
  <1>2. /\ Self \in Frame /\ FrameFits(Self) /\ pxCurrentTCB # IdleTask
        /\ uxSchedulerSuspended = 0 /\ section = NoSection /\ Ready(pxCurrentTCB) /\ ~MustYield
        /\ KInv /\ pxCurrentTCB \in Task /\ MaxCritical \in Nat /\ xSchedulerRunning
        /\ uxCriticalNesting \in 1 .. MaxCritical
        BY <1>1, OwnFacts, KernelAssumption DEF Critical, Suspended, Looking, Unlocking, TypeOK
  <1>3. /\ uxCriticalNesting' \in uxCriticalNesting - 1 .. uxCriticalNesting + 1
        /\ uxCriticalNesting' \in 0 .. MaxCritical
        BY <1>1, <1>2
  <1>4. PICK g : /\ Becomes(g)
                 /\ \/ Self.fn # "takeRecursive" /\ g = AppFrame
                    \/ Self.fn = "takeRecursive" /\ g = [Self EXCEPT !.pc = "count"]
        BY DEF Notify
  <1>5. e \in EventList
        BY <1>1, <1>2, QueueAssumption
        DEF FrameFits, WakeList, xTasksWaitingToReceive, xTasksWaitingToSend
  <1>6. /\ g \in Frame
        /\ \/ Self.fn # "takeRecursive" /\ g = AppFrame
           \/ /\ g.pc = "count" /\ g.q = Self.q /\ g.fn = "takeRecursive" /\ Self.fn = "takeRecursive"
              /\ g.outcome = Self.outcome /\ g.xInheritanceOccurred = Self.xInheritanceOccurred
    <2>1. CASE Self.fn # "takeRecursive" /\ g = AppFrame BY <2>1, FrameFacts
    <2>2. CASE g = [Self EXCEPT !.pc = "count"] /\ Self.fn = "takeRecursive"
          BY <1>2, <2>2 DEF Frame, Stops, Preemptible
    <2> QED BY <1>4, <2>1, <2>2
  <1>7. FrameFits(g)
    <2>1. CASE g = AppFrame BY <2>1, FrameFacts
    <2>2. CASE g # AppFrame
          BY <1>1, <1>2, <1>6, <2>2 DEF FrameFits, Suspended, Looking, Unlocking
    <2> QED BY <2>1, <2>2
  <1>8. /\ g.pc \in {"app", "count"} BY <1>6, FrameFacts
  <1> HIDE DEF e
  <1>9. TaskStep
    <2>1. \/ portYIELD \/ UNCHANGED kernelVars
          \/ \E f \in EventList, yields \in BOOLEAN : xTaskRemoveFromEventList(f, yields)
          BY <1>1, <1>5
    <2> QED BY <1>1, <1>2, <1>3, <2>1 DEF TaskStep
  <1>10. /\ UNCHANGED <<pxCurrentTCB, xSchedulerRunning, section, uxSchedulerSuspended, uxMutexesHeld>>
         /\ Ready(pxCurrentTCB)'
    <2>1. CASE portYIELD \/ UNCHANGED kernelVars BY <1>2, <2>1 DEF portYIELD, Ready
    <2>2. CASE xTaskRemoveFromEventList(e, TRUE)
      <3>1. UNCHANGED <<pxCurrentTCB, xSchedulerRunning, section, uxSchedulerSuspended, uxMutexesHeld>>
            BY <2>2 DEF xTaskRemoveFromEventList
      <3>2. NobodySleeps BY <1>2, <1>3, <1>5, <2>2, xTaskRemoveFromEventList_Inv
      <3>3. \A u \in Task : Ready(u) => Ready(u)' BY <3>2 DEF NobodySleeps
      <3> QED BY <1>2, <3>1, <3>3 DEF Ready
    <2> QED BY <1>1, <2>1, <2>2
  <1>11. KInv' /\ frame' \in [Task -> Frame] /\ FramesFit' /\ Control' /\ CurrentIsReady'
        BY <1>1, <1>2, <1>3, <1>4, <1>6, <1>7, <1>8, <1>9, <1>10, SectionFacts, OwnStep
        DEF Critical, Suspended, Looking, Unlocking
  <1>12. HoldersFit' /\ TakenIsHeld' /\ HeldIsCounted' /\ RecursionIsCounted'
    <2>1. HolderFits(Self, pxCurrentTCB) BY <1>2 DEF QInv, HoldersFit, Self
    <2>2. HolderFits(g, pxCurrentTCB)
          BY <1>1, <1>6, <2>1, FrameFacts DEF HolderFits
    <2>3. \A q \in Recursive :
              xMutexHolder[q] = pxCurrentTCB => (Counting(Self, q) <=> Counting(g, q))
          BY <1>1, <1>2, <1>6, <2>1, FrameFacts DEF HolderFits, FrameFits, Counting
    <2> QED BY <1>1, <1>2, <1>4, <1>10, <2>2, <2>3, SameMutexes
  <1>13. QTypeOK' BY <1>1, <1>11 DEF QInv, QTypeOK
  <1> QED BY <1>9, <1>11, <1>12, <1>13 DEF QInv

(* A step of a task between its calls, or after one, that leaves the        *)
(* scheduler alone.                                                         *)
LEMMA AppStep_Inv ==
    ASSUME QInv, TaskRuns, Self.pc \in {"app", "count"}, pxCurrentTCB # IdleTask,
           UNCHANGED <<kernelVars, uxCriticalNesting>>, NEW g \in Frame, Becomes(g), FrameFits(g),
           g.pc \in {"app", "count", "try"}
    PROVE  /\ TaskStep /\ KInv' /\ frame' \in [Task -> Frame] /\ FramesFit' /\ Control'
           /\ CurrentIsReady'
  <1>1. /\ uxSchedulerSuspended = 0 /\ section.at = "none"
        /\ Ready(pxCurrentTCB) /\ ~MustYield /\ MaxCritical \in Nat
        /\ uxCriticalNesting \in 0 .. MaxCritical
        BY OwnFacts, SectionFacts, KernelAssumption DEF Critical, Suspended, Looking, Unlocking
  <1>2. TaskStep BY <1>1 DEF TaskStep
  <1>3. UNCHANGED <<pxCurrentTCB, xSchedulerRunning, section, uxSchedulerSuspended>>
        /\ Ready(pxCurrentTCB)'
        BY <1>1 DEF Ready
  <1> QED BY <1>1, <1>2, <1>3, OwnStep DEF Critical, Suspended, Looking, Unlocking

(* xQueueTakeMutexRecursive counts the first take.                          *)
LEMMA CountFirstTake_Inv == ASSUME QInv, CountFirstTake PROVE TaskStep /\ QInv'
  <1> DEFINE q == Self.q
  <1>1. /\ TaskRuns /\ Self.pc = "count" /\ Becomes(AppFrame)
        /\ uxRecursiveCallCount' = [uxRecursiveCallCount EXCEPT ![q] = @ + 1]
        /\ UNCHANGED <<kernelVars, uxMessagesWaiting, lockVars, xMutexHolder, uxCriticalNesting>>
        BY DEF CountFirstTake, At, Unmasked
  <1>2. /\ FrameFits(Self) /\ pxCurrentTCB \in Task /\ pxCurrentTCB # IdleTask
        BY <1>1, OwnFacts
  <1>3. q \in Recursive /\ q \in Mutex /\ Self.fn = "takeRecursive" /\ xMutexHolder[q] = pxCurrentTCB
    <2>1. q \in Recursive /\ q \in Mutex /\ Self.fn = "takeRecursive"
          BY <1>1, <1>2, FrameFacts DEF FrameFits
    <2>2. HolderFits(Self, pxCurrentTCB) BY <1>2 DEF QInv, HoldersFit, Self
    <2> QED BY <1>1, <2>1, <2>2 DEF HolderFits
  <1>4. /\ TaskStep /\ KInv' /\ frame' \in [Task -> Frame] /\ FramesFit' /\ Control'
        /\ CurrentIsReady'
        BY <1>1, <1>2, FrameFacts, AppStep_Inv
  <1>5. /\ frame'[pxCurrentTCB] = AppFrame
        /\ \A t \in Task : t # pxCurrentTCB => frame'[t] = frame[t]
        BY <1>1, <1>2 DEF QInv, QTypeOK, Becomes
  <1>6. HoldersFit'
    <2>1. \A t \in Task : HolderFits(frame'[t], t)
          BY <1>5, FrameFacts DEF QInv, HoldersFit, HolderFits
    <2> QED BY <1>1, <2>1 DEF HoldersFit, HolderFits
  <1>7. TakenIsHeld' /\ HeldIsCounted' BY <1>1 DEF QInv, TakenIsHeld, HeldIsCounted
  <1>8. /\ uxRecursiveCallCount' \in [Mutex -> Nat] /\ uxRecursiveCallCount'[q] > 0
        /\ \A r \in Mutex : r # q => uxRecursiveCallCount'[r] = uxRecursiveCallCount[r]
        BY <1>1, <1>3 DEF QInv, QTypeOK
  <1>9. RecursionIsCounted'
    <2> SUFFICES ASSUME NEW r \in Recursive
                 PROVE  uxRecursiveCallCount'[r] > 0 <=>
                           xMutexHolder[r] # NULL /\ ~Counting(frame'[xMutexHolder[r]], r)
          BY <1>1 DEF RecursionIsCounted, Counting
    <2>1. /\ r \in Mutex /\ xMutexHolder[r] \in Task \cup {NULL}
          /\ uxRecursiveCallCount[r] > 0 <=>
                 xMutexHolder[r] # NULL /\ ~Counting(frame[xMutexHolder[r]], r)
          BY FrameFacts DEF QInv, RecursionIsCounted, QTypeOK
    <2>2. ~Counting(AppFrame, r) BY FrameFacts DEF Counting
    <2>3. CASE r = q
          BY <1>2, <1>3, <1>5, <1>8, <2>2, <2>3, KernelAssumption
    <2>4. CASE r # q
      <3>1. ~Counting(Self, r) BY <2>4 DEF Counting
      <3>2. CASE xMutexHolder[r] = pxCurrentTCB
            BY <1>5, <1>8, <2>1, <2>2, <2>4, <3>1, <3>2 DEF Self
      <3>3. CASE xMutexHolder[r] # pxCurrentTCB BY <1>5, <1>8, <2>1, <2>4, <3>3
      <3> QED BY <3>2, <3>3
    <2> QED BY <2>3, <2>4
  <1>10. QTypeOK' BY <1>1, <1>4, <1>8 DEF QInv, QTypeOK
  <1> QED BY <1>4, <1>6, <1>7, <1>9, <1>10 DEF QInv
-----------------------------------------------------------------------------
(* What the programs of the tasks call.                                     *)
LEMMA ProgramFacts ==
    ASSUME NEW t \in Task, NEW fn, NEW q, NEW n, <<fn, q, n>> \in Program[t], fn # "yield"
    PROVE  /\ t # IdleTask /\ q \in QueueHandle /\ n \in TickType
           /\ q \in Recursive => fn \in {"takeRecursive", "giveRecursive"}
           /\ q \in Mutex \ Recursive => fn \in {"take", "send"}
           /\ q \notin Mutex => fn \in {"send", "overwrite", "receive", "peek", "take", "reset"}
  <1>1. t # IdleTask BY ProgramAssumption
  <1>2. /\ Recursive \subseteq Mutex /\ Mutex \subseteq QueueHandle BY FrameFacts
  <1>3. \/ <<fn, q, n>> = <<"yield", NULL, 0>>
        \/ <<fn, q, n>> \in {"takeRecursive", "giveRecursive"} \X Recursive \X TickType
        \/ <<fn, q, n>> \in {"take", "send"} \X (Mutex \ Recursive) \X TickType
        \/ <<fn, q, n>> \in {"send", "overwrite", "receive", "peek", "take", "reset"}
                              \X (QueueHandle \ Mutex) \X TickType
        BY ProgramAssumption
  <1> QED BY <1>1, <1>2, <1>3

(* The frame of a new call.                                                 *)
LEMMA NewFrameFacts ==
    ASSUME NEW fn \in {"send", "overwrite", "receive", "peek", "take", "takeRecursive"},
           NEW q \in QueueHandle, NEW n \in TickType,
           fn = "takeRecursive" => q \in Recursive,
           q \in Mutex => fn \in {"send", "take", "takeRecursive"},
           q \in Recursive => fn # "take"
    PROVE  /\ NewFrame(fn, q, n) \in Frame /\ FrameFits(NewFrame(fn, q, n))
           /\ NewFrame(fn, q, n).pc = "try" /\ NewFrame(fn, q, n).fn = fn
           /\ NewFrame(fn, q, n).q = q /\ ~NewFrame(fn, q, n).xEntryTimeSet
  <1> DEFINE g == NewFrame(fn, q, n)
  <1>1. /\ g.pc = "try" /\ g.fn = fn /\ g.q = q /\ g.outcome = "none"
        /\ ~g.xInheritanceOccurred /\ ~g.xEntryTimeSet
        BY DEF NewFrame, AppFrame
  <1>2. g \in Frame
    <2>1. AppFrame \in Frame BY FrameFacts
    <2> QED BY <2>1 DEF NewFrame, Frame, Stops, Preemptible
  <1> HIDE DEF g
  <1>3. FrameFits(g) BY <1>1 DEF FrameFits, Suspended, Looking, Unlocking
  <1> QED BY <1>1, <1>2, <1>3 DEF g

(* A call begins.                                                           *)
LEMMA Call_Inv ==
    ASSUME QInv, NEW fn, NEW q, NEW n, Call(fn, q, n) PROVE TaskStep /\ QInv'
  <1> DEFINE g == NewFrame(fn, q, n)
  <1>1. /\ TaskRuns /\ Self.pc = "app" /\ Becomes(g) /\ <<fn, q, n>> \in Program[pxCurrentTCB]
        /\ fn \in {"send", "overwrite", "receive", "peek", "take"}
        /\ q \in Mutex => fn = IF xMutexHolder[q] = pxCurrentTCB THEN "send" ELSE "take"
        /\ UNCHANGED <<kernelVars, uxMessagesWaiting, lockVars, mutexVars, uxCriticalNesting>>
        BY DEF Call, At, Unmasked
  <1>2. FrameFits(Self) /\ pxCurrentTCB \in Task BY <1>1, OwnFacts
  <1>3. /\ pxCurrentTCB # IdleTask /\ q \in QueueHandle /\ n \in TickType /\ q \notin Recursive
        BY <1>1, <1>2, ProgramFacts
  <1>4. g \in Frame /\ FrameFits(g) /\ g.pc = "try" /\ g.fn = fn /\ g.q = q
        BY <1>1, <1>3, NewFrameFacts
  <1> HIDE DEF g
  <1>5. /\ TaskStep /\ KInv' /\ frame' \in [Task -> Frame] /\ FramesFit' /\ Control'
        /\ CurrentIsReady'
        BY <1>1, <1>3, <1>4, AppStep_Inv
  <1>6. HoldersFit' /\ TakenIsHeld' /\ HeldIsCounted' /\ RecursionIsCounted'
    <2>1. HolderFits(g, pxCurrentTCB) BY <1>1, <1>4 DEF HolderFits
    <2>2. Self = AppFrame BY <1>1, <1>2 DEF FrameFits
    <2>3. \A r \in Recursive : ~Counting(Self, r) /\ ~Counting(g, r)
          BY <1>3, <1>4, <2>2, FrameFacts DEF Counting
    <2> QED BY <1>1, <1>2, <2>1, <2>3, SameMutexes
  <1>7. QTypeOK' BY <1>1, <1>5 DEF QInv, QTypeOK
  <1> QED BY <1>5, <1>6, <1>7 DEF QInv

(* The holder of a recursive mutex takes it again or gives it back; fr is   *)
(* its frame afterwards.                                                    *)
LEMMA RecursiveMoves ==
    ASSUME QInv, TaskRuns, Self.pc = "app", pxCurrentTCB # IdleTask,
           NEW q \in Recursive, NEW fr \in Frame, Becomes(fr), FrameFits(fr),
           NEW c \in Nat, uxRecursiveCallCount' = [uxRecursiveCallCount EXCEPT ![q] = c],
           fr = AppFrame \/ (fr.pc = "try" /\ fr.q = q /\ fr.fn \in {"send", "takeRecursive"}),
           xMutexHolder[q] = pxCurrentTCB <=> fr.fn # "takeRecursive",
           IF fr.fn = "takeRecursive" THEN c = uxRecursiveCallCount[q] ELSE c > 0 <=> fr = AppFrame,
           UNCHANGED <<kernelVars, uxMessagesWaiting, lockVars, xMutexHolder, uxCriticalNesting>>
    PROVE  TaskStep /\ QInv'
  <1>1. FrameFits(Self) /\ pxCurrentTCB \in Task /\ q \in Mutex BY OwnFacts, FrameFacts
  <1>2. Self = AppFrame BY <1>1 DEF FrameFits
  <1>3. /\ TaskStep /\ KInv' /\ frame' \in [Task -> Frame] /\ FramesFit' /\ Control'
        /\ CurrentIsReady'
        BY FrameFacts, AppStep_Inv
  <1>4. /\ frame'[pxCurrentTCB] = fr
        /\ \A t \in Task : t # pxCurrentTCB => frame'[t] = frame[t]
        BY <1>1 DEF QInv, QTypeOK, Becomes
  <1>5. HoldersFit'
    <2>1. HolderFits(fr, pxCurrentTCB) BY FrameFacts DEF HolderFits
    <2>2. \A t \in Task : HolderFits(frame'[t], t) BY <1>4, <2>1 DEF QInv, HoldersFit
    <2> QED BY <2>2 DEF HoldersFit, HolderFits
  <1>6. TakenIsHeld' /\ HeldIsCounted' BY DEF QInv, TakenIsHeld, HeldIsCounted
  <1>7. /\ uxRecursiveCallCount' \in [Mutex -> Nat] /\ uxRecursiveCallCount'[q] = c
        /\ \A r \in Mutex : r # q => uxRecursiveCallCount'[r] = uxRecursiveCallCount[r]
        BY <1>1 DEF QInv, QTypeOK
  <1>8. RecursionIsCounted'
    <2> SUFFICES ASSUME NEW r \in Recursive
                 PROVE  uxRecursiveCallCount'[r] > 0 <=>
                           xMutexHolder[r] # NULL /\ ~Counting(frame'[xMutexHolder[r]], r)
          BY DEF RecursionIsCounted, Counting
    <2>1. /\ r \in Mutex /\ xMutexHolder[r] \in Task \cup {NULL}
          /\ uxRecursiveCallCount[r] > 0 <=>
                 xMutexHolder[r] # NULL /\ ~Counting(frame[xMutexHolder[r]], r)
          BY FrameFacts DEF QInv, RecursionIsCounted, QTypeOK
    <2>2. ~Counting(Self, r) BY <1>2, FrameFacts DEF Counting
    <2>3. CASE r = q /\ fr.fn = "takeRecursive"
          BY <1>4, <1>7, <2>1, <2>3
    <2>4. CASE r = q /\ fr.fn # "takeRecursive"
      <3>1. /\ xMutexHolder[r] = pxCurrentTCB /\ pxCurrentTCB # NULL
            /\ Counting(fr, r) <=> fr # AppFrame
            BY <1>1, <2>4, FrameFacts, KernelAssumption DEF Counting
      <3> QED BY <1>4, <1>7, <2>4, <3>1
    <2>5. CASE r # q
      <3>1. ~Counting(fr, r) BY <2>5, FrameFacts DEF Counting
      <3>2. CASE xMutexHolder[r] = pxCurrentTCB
            BY <1>4, <1>7, <2>1, <2>2, <2>5, <3>1, <3>2 DEF Self
      <3>3. CASE xMutexHolder[r] # pxCurrentTCB BY <1>4, <1>7, <2>1, <2>5, <3>3
      <3> QED BY <3>2, <3>3
    <2> QED BY <2>3, <2>4, <2>5
  <1>9. QTypeOK' BY <1>3, <1>7 DEF QInv, QTypeOK
  <1> QED BY <1>3, <1>5, <1>6, <1>8, <1>9 DEF QInv

(* xQueueTakeMutexRecursive and xQueueGiveMutexRecursive.                   *)
LEMMA Recursive_Inv ==
    ASSUME QInv, NEW q \in Recursive, NEW n \in TickType,
           xQueueTakeMutexRecursive(q, n) \/ xQueueGiveMutexRecursive(q)
    PROVE  TaskStep /\ QInv'
  <1>1. /\ TaskRuns /\ Self.pc = "app" /\ q \in Mutex /\ q \in QueueHandle
        /\ UNCHANGED <<kernelVars, uxMessagesWaiting, lockVars, xMutexHolder, uxCriticalNesting>>
        BY FrameFacts DEF xQueueTakeMutexRecursive, xQueueGiveMutexRecursive, At, Unmasked
  <1>2. FrameFits(Self) /\ pxCurrentTCB \in Task /\ NULL # pxCurrentTCB
        BY <1>1, OwnFacts, KernelAssumption
  <1>3. Self = AppFrame BY <1>1, <1>2 DEF FrameFits
  <1>4. pxCurrentTCB # IdleTask
    <2>1. \E fn : fn # "yield" /\ \E m : <<fn, q, m>> \in Program[pxCurrentTCB]
          BY DEF xQueueTakeMutexRecursive, xQueueGiveMutexRecursive
    <2> QED BY <1>2, <2>1, ProgramFacts
  <1>5. /\ uxRecursiveCallCount \in [Mutex -> Nat]
        /\ xMutexHolder[q] = pxCurrentTCB => uxRecursiveCallCount[q] > 0
    <2>1. ~Counting(Self, q) BY <1>3, FrameFacts DEF Counting
    <2> QED BY <1>2, <2>1 DEF QInv, QTypeOK, RecursionIsCounted, Self
  <1>6. UNCHANGED frame => Becomes(AppFrame)
        BY <1>2, <1>3 DEF Becomes, Self, QInv, QTypeOK
  <1>7. ASSUME NEW fn \in {"send", "takeRecursive"}, NEW m \in TickType
        PROVE  LET g == NewFrame(fn, q, m)
               IN g \in Frame /\ FrameFits(g) /\ g.pc = "try" /\ g.fn = fn /\ g.q = q
        BY <1>1, NewFrameFacts
  <1>8. CASE xQueueTakeMutexRecursive(q, n)
    <2>1. CASE xMutexHolder[q] = pxCurrentTCB
      <3>1. /\ uxRecursiveCallCount' = [uxRecursiveCallCount EXCEPT ![q] = uxRecursiveCallCount[q] + 1]
            /\ Becomes(AppFrame)
            BY <1>6, <1>8, <2>1 DEF xQueueTakeMutexRecursive
      <3>2. /\ uxRecursiveCallCount[q] + 1 \in Nat /\ uxRecursiveCallCount[q] + 1 > 0
            BY <1>1, <1>5
      <3> DEFINE c == uxRecursiveCallCount[q] + 1
      <3>3. c \in Nat /\ c > 0 /\ uxRecursiveCallCount' = [uxRecursiveCallCount EXCEPT ![q] = c]
            BY <3>1, <3>2
      <3> HIDE DEF c
      <3> QED BY <1>1, <1>4, <2>1, <3>1, <3>3, FrameFacts, RecursiveMoves
    <2>2. CASE xMutexHolder[q] # pxCurrentTCB
      <3>1. /\ Becomes(NewFrame("takeRecursive", q, n)) /\ UNCHANGED uxRecursiveCallCount
            BY <1>8, <2>2 DEF xQueueTakeMutexRecursive
      <3>2. /\ uxRecursiveCallCount' = [uxRecursiveCallCount EXCEPT ![q] = uxRecursiveCallCount[q]]
            /\ uxRecursiveCallCount[q] \in Nat
            BY <1>1, <1>5, <3>1
      <3> QED BY <1>1, <1>4, <1>7, <2>2, <3>1, <3>2, RecursiveMoves
    <2> QED BY <2>1, <2>2
  <1>9. CASE xQueueGiveMutexRecursive(q)
    <2>1. /\ uxRecursiveCallCount' = [uxRecursiveCallCount EXCEPT ![q] = uxRecursiveCallCount[q] - 1]
          /\ xMutexHolder[q] = pxCurrentTCB
          /\ IF uxRecursiveCallCount[q] = 1 THEN Becomes(NewFrame("send", q, 0)) ELSE UNCHANGED frame
          BY <1>9 DEF xQueueGiveMutexRecursive
    <2>2. /\ uxRecursiveCallCount[q] - 1 \in Nat /\ 0 \in TickType
          /\ uxRecursiveCallCount[q] - 1 > 0 <=> uxRecursiveCallCount[q] # 1
          BY <1>1, <1>5, <2>1, KernelAssumption DEF TickType
    <2>3. CASE uxRecursiveCallCount[q] = 1
      <3> DEFINE g == NewFrame("send", q, 0)
      <3>1. Becomes(g) /\ g \in Frame /\ FrameFits(g) /\ g.pc = "try" /\ g.fn = "send" /\ g.q = q
            BY <1>7, <2>1, <2>2, <2>3
      <3>2. g # AppFrame BY <3>1, FrameFacts
      <3> HIDE DEF g
      <3> QED BY <1>1, <1>4, <2>1, <2>2, <2>3, <3>1, <3>2, RecursiveMoves
    <2>4. CASE uxRecursiveCallCount[q] # 1
      <3> DEFINE c == uxRecursiveCallCount[q] - 1
      <3>1. c \in Nat /\ c > 0 /\ uxRecursiveCallCount' = [uxRecursiveCallCount EXCEPT ![q] = c]
            BY <2>1, <2>2, <2>4
      <3>2. Becomes(AppFrame) BY <1>6, <2>1, <2>4
      <3> HIDE DEF c
      <3> QED BY <1>1, <1>4, <2>1, <3>1, <3>2, FrameFacts, RecursiveMoves
    <2> QED BY <2>3, <2>4
  <1> QED BY <1>8, <1>9

(* taskYIELD.                                                               *)
LEMMA AppYield_Inv == ASSUME QInv, AppYield PROVE TaskStep /\ QInv'
  <1>1. /\ TaskRuns /\ Self.pc = "app" /\ portYIELD /\ <<"yield", NULL, 0>> \in Program[pxCurrentTCB]
        /\ UNCHANGED <<uxMessagesWaiting, lockVars, mutexVars, frame, uxCriticalNesting>>
        BY DEF AppYield, At, Unmasked, queueVars
  <1>2. /\ uxSchedulerSuspended = 0 /\ section.at = "none"
        /\ Ready(pxCurrentTCB) /\ ~MustYield /\ MaxCritical \in Nat
        /\ uxCriticalNesting \in 0 .. MaxCritical
        /\ pxCurrentTCB \in Task /\ Self \in Frame /\ FrameFits(Self)
        BY <1>1, OwnFacts, SectionFacts, KernelAssumption DEF Critical, Suspended, Looking, Unlocking
  <1>3. pxCurrentTCB # IdleTask BY <1>1, ProgramAssumption
  <1>4. TaskStep BY <1>1, <1>2, <1>3 DEF TaskStep
  <1>5. Becomes(Self) BY <1>1, <1>2 DEF Becomes, Self, QInv, QTypeOK
  <1>6. /\ UNCHANGED <<pxCurrentTCB, xSchedulerRunning, section, uxSchedulerSuspended, uxMutexesHeld>>
        /\ Ready(pxCurrentTCB)'
        BY <1>1, <1>2 DEF portYIELD, Ready
  <1>7. KInv' /\ frame' \in [Task -> Frame] /\ FramesFit' /\ Control' /\ CurrentIsReady'
        BY <1>1, <1>2, <1>4, <1>5, <1>6, OwnStep DEF Critical, Suspended, Looking, Unlocking
  <1>8. HolderFits(Self, pxCurrentTCB) BY <1>2 DEF QInv, HoldersFit, Self
  <1>9. HoldersFit' /\ TakenIsHeld' /\ HeldIsCounted' /\ RecursionIsCounted'
        BY <1>1, <1>2, <1>5, <1>6, <1>8, SameMutexes
  <1>10. QTypeOK' BY <1>1, <1>7 DEF QInv, QTypeOK
  <1> QED BY <1>4, <1>7, <1>9, <1>10 DEF QInv

(* xQueueGenericReset empties the queue.                                    *)
LEMMA xQueueGenericReset_Inv ==
    ASSUME QInv, NEW q \in QueueHandle, xQueueGenericReset(q)
    PROVE  TaskStep /\ QInv'
  <1> DEFINE g == [NewFrame("reset", q, 0) EXCEPT !.pc = "notify"]
  <1>1. /\ TaskRuns /\ Self.pc = "app" /\ <<"reset", q, 0>> \in Program[pxCurrentTCB]
        /\ uxMessagesWaiting' = [uxMessagesWaiting EXCEPT ![q] = 0]
        /\ cRxLock' = [cRxLock EXCEPT ![q] = queueUNLOCKED]
        /\ cTxLock' = [cTxLock EXCEPT ![q] = queueUNLOCKED]
        /\ UNCHANGED <<kernelVars, mutexVars>> /\ Becomes(g)
        /\ uxCriticalNesting' = uxCriticalNesting + 1 /\ uxCriticalNesting < MaxCritical
        BY DEF xQueueGenericReset, EmptyQueue, EnterCritical, At
  <1>2. /\ uxSchedulerSuspended = 0 /\ section.at = "none"
        /\ Ready(pxCurrentTCB) /\ ~MustYield /\ MaxCritical \in Nat
        /\ uxCriticalNesting \in 0 .. MaxCritical
        /\ pxCurrentTCB \in Task /\ FrameFits(Self)
        BY <1>1, OwnFacts, SectionFacts, KernelAssumption DEF Critical, Suspended, Looking, Unlocking
  <1>3. pxCurrentTCB # IdleTask /\ q \notin Mutex BY <1>1, <1>2, ProgramFacts
  <1>4. /\ g.pc = "notify" /\ g.fn = "reset" /\ g.q = q /\ g.outcome = "none"
        /\ ~g.xInheritanceOccurred
        BY DEF NewFrame, AppFrame
  <1>5. g \in Frame
    <2>1. AppFrame \in Frame /\ 0 \in TickType BY FrameFacts, KernelAssumption DEF TickType
    <2> QED BY <2>1 DEF NewFrame, AppFrame, Frame, Critical
  <1> HIDE DEF g
  <1>6. FrameFits(g)
        BY <1>3, <1>4, FrameFacts DEF FrameFits, Suspended, Looking, Unlocking
  <1>7. TaskStep BY <1>1, <1>2, <1>3 DEF TaskStep
  <1>8. /\ UNCHANGED <<pxCurrentTCB, xSchedulerRunning, section, uxSchedulerSuspended, uxMutexesHeld>>
        /\ Ready(pxCurrentTCB)'
        BY <1>1, <1>2 DEF Ready
  <1>9. KInv' /\ frame' \in [Task -> Frame] /\ FramesFit' /\ Control' /\ CurrentIsReady'
        BY <1>1, <1>2, <1>4, <1>5, <1>6, <1>7, <1>8, OwnStep
        DEF Critical, Suspended, Looking, Unlocking
  <1>10. HoldersFit' /\ TakenIsHeld' /\ HeldIsCounted' /\ RecursionIsCounted'
    <2>1. Self = AppFrame BY <1>1, <1>2 DEF FrameFits
    <2>2. /\ \A r \in Mutex : uxMessagesWaiting'[r] = uxMessagesWaiting[r]
          /\ HolderFits(g, pxCurrentTCB)
          /\ \A r \in Recursive : ~Counting(Self, r) /\ ~Counting(g, r)
          BY <1>1, <1>3, <1>4, <2>1, FrameFacts DEF HolderFits, Counting, QInv, QTypeOK
    <2> QED BY <1>1, <1>2, <1>8, <2>2, SameMutexes
  <1>11. /\ uxMessagesWaiting' \in [QueueHandle -> Nat]
         /\ \A r \in QueueHandle : uxMessagesWaiting'[r] <= uxLength[r]
         /\ cRxLock' \in [QueueHandle -> Int] /\ cTxLock' \in [QueueHandle -> Int]
    <2>1. uxLength[q] \in Nat BY QueueAssumption
    <2> QED BY <1>1, <2>1 DEF QInv, QTypeOK, queueUNLOCKED
  <1>12. QTypeOK' BY <1>1, <1>9, <1>11 DEF QInv, QTypeOK
  <1> QED BY <1>7, <1>9, <1>10, <1>12 DEF QInv
-----------------------------------------------------------------------------
(* A tick that is counted changes only the clocks of a call.                *)
LEMMA WaitedFacts ==
    ASSUME NEW f \in Frame, FrameFits(f)
    PROVE  /\ Waited(f) \in Frame /\ FrameFits(Waited(f))
           /\ Waited(f).pc = f.pc /\ Waited(f).fn = f.fn /\ Waited(f).q = f.q
           /\ Waited(f).outcome = f.outcome /\ Waited(f).cLock = f.cLock
  <1>1. CASE ~f.xEntryTimeSet BY <1>1 DEF Waited
  <1>2. CASE f.xEntryTimeSet
    <2> DEFINE d == IF f.xOverflowed /\ xTickCount' = 0 THEN LongAgo
                    ELSE IF f.due > 0 THEN f.due - 1 ELSE f.due
               o == f.xOverflowed \/ xTickCount' = 0
               g == [f EXCEPT !.due = d, !.xOverflowed = o]
    <2>1. Waited(f) = g BY <1>2 DEF Waited
    <2>2. d \in Int /\ o \in BOOLEAN BY DEF Frame, LongAgo
    <2> HIDE DEF d, o
    <2>3. g \in Frame BY <2>2 DEF Frame
    <2>4. /\ g.pc = f.pc /\ g.fn = f.fn /\ g.q = f.q /\ g.outcome = f.outcome
          /\ g.xTicksToWait = f.xTicksToWait /\ g.xEntryTimeSet = f.xEntryTimeSet
          /\ g.xInheritanceOccurred = f.xInheritanceOccurred /\ g.cLock = f.cLock
          BY DEF Frame
    <2>5. f.pc # "app" BY <1>2 DEF FrameFits, AppFrame
    <2> HIDE DEF g
    <2>6. FrameFits(g) BY <1>2, <2>4, <2>5 DEF FrameFits
    <2> QED BY <2>1, <2>3, <2>4, <2>6
  <1> QED BY <1>1, <1>2

(* Steps of the system, in which every task stays where it is.              *)
StayPut == frame' = frame \/ frame' = [t \in Task |-> Waited(frame[t])]

(* Every frame is at the same place of the same call.                       *)
LEMMA StayPutFacts ==
    ASSUME QInv, StayPut
    PROVE  /\ frame' \in [Task -> Frame] /\ FramesFit'
           /\ \A t \in Task : /\ frame'[t].pc = frame[t].pc /\ frame'[t].fn = frame[t].fn
                              /\ frame'[t].q = frame[t].q /\ frame'[t].outcome = frame[t].outcome
                              /\ frame'[t].cLock = frame[t].cLock
  <1>1. frame \in [Task -> Frame] /\ \A t \in Task : FrameFits(frame[t])
        BY DEF QInv, QTypeOK, FramesFit
  <1>2. CASE frame' = frame BY <1>1, <1>2 DEF FramesFit
  <1>3. CASE frame' = [t \in Task |-> Waited(frame[t])]
        BY <1>1, <1>3, WaitedFacts DEF FramesFit
  <1> QED BY <1>2, <1>3 DEF StayPut

(* What such a step leaves alone.                                           *)
LEMMA SystemStep ==
    ASSUME QInv, StayPut, KInv', UNCHANGED <<mutexVars, uxMutexesHeld>>,
           uxMessagesWaiting' \in [QueueHandle -> Nat],
           \A q \in QueueHandle : uxMessagesWaiting'[q] <= uxLength[q],
           \A q \in Mutex : uxMessagesWaiting'[q] = uxMessagesWaiting[q],
           cRxLock' \in [QueueHandle -> Int], cTxLock' \in [QueueHandle -> Int],
           Control', CurrentIsReady'
    PROVE  QInv'
  <1>1. /\ frame' \in [Task -> Frame] /\ FramesFit'
        /\ \A t \in Task : /\ frame'[t].pc = frame[t].pc /\ frame'[t].fn = frame[t].fn
                           /\ frame'[t].q = frame[t].q
        BY StayPutFacts
  <1>2. HoldersFit' BY <1>1 DEF QInv, HoldersFit, HolderFits
  <1>3. TakenIsHeld' /\ HeldIsCounted' BY DEF QInv, TakenIsHeld, HeldIsCounted
  <1>4. RecursionIsCounted'
    <2> SUFFICES ASSUME NEW q \in Recursive
                 PROVE  uxRecursiveCallCount[q] > 0 <=>
                           xMutexHolder[q] # NULL /\ ~Counting(frame'[xMutexHolder[q]], q)
          BY DEF RecursionIsCounted, Counting
    <2>1. /\ xMutexHolder[q] \in Task \cup {NULL}
          /\ uxRecursiveCallCount[q] > 0 <=>
                 xMutexHolder[q] # NULL /\ ~Counting(frame[xMutexHolder[q]], q)
          BY FrameFacts DEF QInv, RecursionIsCounted, QTypeOK
    <2> QED BY <1>1, <2>1 DEF Counting
  <1>5. QTypeOK' BY <1>1 DEF QInv, QTypeOK
  <1> QED BY <1>1, <1>2, <1>3, <1>4, <1>5 DEF QInv

(* The tasks in a critical section are the same ones.                       *)
LEMMA SameNesting ==
    ASSUME QInv, UNCHANGED uxCriticalNesting, \A t \in Task : frame'[t].pc = frame[t].pc
    PROVE  uxCriticalNesting' = Cardinality({t \in Task : frame'[t].pc \in Critical})
  <1>1. {t \in Task : frame'[t].pc \in Critical} = {t \in Task : frame[t].pc \in Critical}
        OBVIOUS
  <1> QED BY <1>1 DEF QInv, Control

(* A step of the system that does not switch tasks.                         *)
LEMMA NoSwitch ==
    ASSUME QInv, StayPut, xSchedulerRunning,
           UNCHANGED <<pxCurrentTCB, xSchedulerRunning, uxSchedulerSuspended, uxCriticalNesting>>,
           pxCurrentTCB \in Task,
           section'.at \in {"pending", "ticks", "resumeTick"} <=>
               section.at \in {"pending", "ticks", "resumeTick"},
           section'.at = "tick" => Stops(Self.pc),
           Ready(pxCurrentTCB) => Ready(pxCurrentTCB)', PENDING_SOFT_SV => PENDING_SOFT_SV'
    PROVE  Control' /\ CurrentIsReady'
  <1>1. \A t \in Task : frame'[t].pc = frame[t].pc /\ frame'[t].outcome = frame[t].outcome
        BY StayPutFacts
  <1>2. Self'.pc = Self.pc /\ Self'.outcome = Self.outcome BY <1>1 DEF Self
  <1>3. Control'
    <2>1. /\ \A t \in Task : t # pxCurrentTCB' => Stops(frame'[t].pc)
          /\ frame'[IdleTask].pc = "app"
          BY <1>1, KernelAssumption DEF QInv, Control
    <2>2. uxCriticalNesting' = Cardinality({t \in Task : frame'[t].pc \in Critical})
          BY <1>1, SameNesting
    <2> QED BY <1>2, <2>1, <2>2 DEF QInv, Control
  <1>4. CurrentIsReady' BY <1>2 DEF QInv, CurrentIsReady, Blocked, Ready
  <1> QED BY <1>3, <1>4

(* A switch from a task at a place where it can be switched from.           *)
LEMMA ContextSwitch ==
    ASSUME QInv, StayPut, pxCurrentTCB' \in Task, xSchedulerRunning',
           \A t \in Task : Stops(frame[t].pc),
           UNCHANGED uxCriticalNesting, uxSchedulerSuspended' = 0, section'.at = "none",
           Ready(pxCurrentTCB)'
    PROVE  Control' /\ CurrentIsReady'
  <1>1. \A t \in Task : frame'[t].pc = frame[t].pc BY StayPutFacts
  <1>2. Stops(Self'.pc) BY <1>1 DEF Self
  <1>3. frame'[IdleTask].pc = "app" BY <1>1, KernelAssumption DEF QInv, Control
  <1>5. uxCriticalNesting' = Cardinality({t \in Task : frame'[t].pc \in Critical})
        BY <1>1, SameNesting
  <1>4. Control'
        BY <1>1, <1>2, <1>3, <1>5 DEF Control, Stops, Preemptible, Critical, Suspended, Looking, Unlocking
  <1> QED BY <1>4 DEF CurrentIsReady

(* Where the current task can be when an interrupt is taken.                *)
LEMMA InterruptFacts ==
    ASSUME QInv, InterruptsOn
    PROVE  /\ pxCurrentTCB \in Task /\ xSchedulerRunning /\ section = NoSection
           /\ section.at = "none" /\ uxCriticalNesting \in 0 .. MaxCritical /\ MaxCritical \in Nat
           /\ uxSchedulerSuspended \in {0, 1}
           /\ uxSchedulerSuspended > 0 => Self.pc \in Suspended
           /\ uxSchedulerSuspended = 0 => Stops(Self.pc)
  <1>1. pxCurrentTCB \in Task /\ xSchedulerRunning /\ section = NoSection
        BY DEF QInv, KInv, SectionsAreInStep, InterruptsOn
  <1>2. Self \in Frame BY <1>1 DEF QInv, QTypeOK, Self
  <1>3. /\ uxSchedulerSuspended = IF Self.pc \in Suspended THEN 1 ELSE 0
        /\ Self.pc # "resuming" /\ uxCriticalNesting \in 0 .. MaxCritical
        BY <1>1, SectionFacts DEF QInv, Control, KInv, TypeOK
  <1>4. uxSchedulerSuspended = 0 => Stops(Self.pc)
    <2>1. CASE CriticalMasks
      <3>1. Self.pc \notin Critical
            BY <1>1, <2>1, NestingFacts DEF InterruptsOn, Masked
      <3> QED BY <1>2, <1>3, <3>1 DEF Stops, Frame
    <2>2. CASE ~CriticalMasks
          BY <1>2, <1>3, <2>2 DEF Stops, Frame, Critical, Suspended, Unlocking
    <2> QED BY <2>1, <2>2
  <1> QED BY <1>1, <1>2, <1>3, <1>4, SectionFacts, KernelAssumption

(* A call of an interrupt handler.                                          *)
LEMMA FromISR_Inv ==
    ASSUME QInv, InterruptsOn, NEW e \in EventList, NEW n \in Nat,
           NEW q \in QueueHandle \ Mutex, n <= uxLength[q],
           uxMessagesWaiting' = [uxMessagesWaiting EXCEPT ![q] = n],
           cRxLock' \in [QueueHandle -> Int], cTxLock' \in [QueueHandle -> Int],
           UNCHANGED kernelVars \/ \E yields \in BOOLEAN : xTaskRemoveFromEventList(e, yields),
           UNCHANGED <<mutexVars, frame, uxCriticalNesting>>
    PROVE  [Next]_vars /\ QInv'
  <1>1. /\ pxCurrentTCB \in Task /\ xSchedulerRunning /\ section = NoSection
        /\ section.at = "none" /\ uxCriticalNesting \in 0 .. MaxCritical /\ MaxCritical \in Nat
        BY InterruptFacts
  <1>2. [Next]_vars BY DEF Next, InterruptWakes, vars
  <1>3. KInv' BY <1>2, NextKInv DEF QInv
  <1>4. /\ UNCHANGED <<pxCurrentTCB, xSchedulerRunning, uxSchedulerSuspended, section, uxMutexesHeld>>
        /\ PENDING_SOFT_SV => PENDING_SOFT_SV'
    <2>1. CASE UNCHANGED kernelVars BY <2>1
    <2>2. ASSUME NEW yields, xTaskRemoveFromEventList(e, yields)
          PROVE  /\ UNCHANGED <<pxCurrentTCB, xSchedulerRunning, uxSchedulerSuspended, section,
                                uxMutexesHeld>>
                 /\ PENDING_SOFT_SV => PENDING_SOFT_SV'
          BY <2>2, Zenon DEF xTaskRemoveFromEventList
    <2> QED BY <2>1, <2>2
  <1>5. Ready(pxCurrentTCB) => Ready(pxCurrentTCB)'
    <2>1. CASE UNCHANGED kernelVars BY <2>1 DEF Ready
    <2>2. CASE \E yields \in BOOLEAN : xTaskRemoveFromEventList(e, yields)
      <3>1. NobodySleeps BY <1>1, <2>2, xTaskRemoveFromEventList_Inv DEF QInv
      <3> QED BY <1>1, <1>4, <3>1 DEF NobodySleeps, Ready
    <2> QED BY <2>1, <2>2
  <1>6. StayPut BY DEF StayPut
  <1>7. Control' /\ CurrentIsReady' BY <1>1, <1>4, <1>5, <1>6, NoSwitch
  <1>8. /\ uxMessagesWaiting' \in [QueueHandle -> Nat]
        /\ \A r \in QueueHandle : uxMessagesWaiting'[r] <= uxLength[r]
        /\ \A r \in Mutex : uxMessagesWaiting'[r] = uxMessagesWaiting[r]
        BY FrameFacts DEF QInv, QTypeOK
  <1>9. QInv' BY <1>3, <1>4, <1>6, <1>7, <1>8, SystemStep
  <1> QED BY <1>2, <1>9

(* xQueueGenericSendFromISR and xQueueReceiveFromISR.                       *)
LEMMA HandlerStep_Inv == ASSUME QInv, HandlerStep PROVE [Next]_vars /\ QInv'
  <1>1. PICK q \in QueueHandle : xQueueGenericSendFromISR(q) \/ xQueueReceiveFromISR(q)
        BY DEF HandlerStep
  <1>2. /\ uxMessagesWaiting \in [QueueHandle -> Nat] /\ uxMessagesWaiting[q] \in Nat
        /\ cRxLock \in [QueueHandle -> Int] /\ cTxLock \in [QueueHandle -> Int]
        /\ uxLength[q] \in Nat
        BY QueueAssumption DEF QInv, QTypeOK
  <1>3. /\ xTasksWaitingToReceive(q) \in EventList /\ xTasksWaitingToSend(q) \in EventList
        BY QueueAssumption DEF xTasksWaitingToReceive, xTasksWaitingToSend
  <1>4. CASE xQueueGenericSendFromISR(q)
    <2> DEFINE n == uxMessagesWaiting[q] + 1
    <2>1. /\ InterruptsOn /\ <<"send", q>> \in Handler
          /\ uxMessagesWaiting' = [uxMessagesWaiting EXCEPT ![q] = n]
          /\ FromISR(q, cTxLock, cRxLock, xTasksWaitingToReceive(q))
          BY <1>4 DEF xQueueGenericSendFromISR
    <2>2. n \in Nat /\ n <= uxLength[q] /\ q \notin Mutex
          BY <1>2, <1>4, <2>1, ProgramAssumption DEF xQueueGenericSendFromISR
    <2> HIDE DEF n
    <2>3. /\ cRxLock' \in [QueueHandle -> Int] /\ cTxLock' \in [QueueHandle -> Int]
          /\ UNCHANGED <<mutexVars, frame, uxCriticalNesting>>
          /\ \/ UNCHANGED kernelVars
             \/ \E yields \in BOOLEAN : xTaskRemoveFromEventList(xTasksWaitingToReceive(q), yields)
          BY <1>2, <2>1 DEF FromISR, Unmasked
    <2> QED BY <1>3, <2>1, <2>2, <2>3, FromISR_Inv
  <1>5. CASE xQueueReceiveFromISR(q)
    <2> DEFINE n == uxMessagesWaiting[q] - 1
    <2>1. /\ InterruptsOn /\ <<"receive", q>> \in Handler
          /\ uxMessagesWaiting' = [uxMessagesWaiting EXCEPT ![q] = n]
          /\ FromISR(q, cRxLock, cTxLock, xTasksWaitingToSend(q))
          BY <1>5 DEF xQueueReceiveFromISR
    <2>2. n \in Nat /\ n <= uxLength[q] /\ q \notin Mutex
      <3>1. uxMessagesWaiting[q] > 0 BY <1>5 DEF xQueueReceiveFromISR
      <3>2. uxMessagesWaiting[q] <= uxLength[q] BY DEF QInv, QTypeOK
      <3>3. q \notin Mutex BY <2>1, ProgramAssumption
      <3> QED BY <1>2, <3>1, <3>2, <3>3
    <2> HIDE DEF n
    <2>3. /\ cRxLock' \in [QueueHandle -> Int] /\ cTxLock' \in [QueueHandle -> Int]
          /\ UNCHANGED <<mutexVars, frame, uxCriticalNesting>>
          /\ \/ UNCHANGED kernelVars
             \/ \E yields \in BOOLEAN : xTaskRemoveFromEventList(xTasksWaitingToSend(q), yields)
          BY <1>2, <2>1 DEF FromISR, Unmasked
    <2> QED BY <1>3, <2>1, <2>2, <2>3, FromISR_Inv
  <1> QED BY <1>1, <1>4, <1>5

(* A step of the kernel alone, with the queues left alone.                  *)
LEMMA KernelStep ==
    ASSUME QInv, StayPut, [Next]_vars, Control', CurrentIsReady',
           UNCHANGED <<uxMessagesWaiting, lockVars, mutexVars, uxMutexesHeld>>
    PROVE  QInv'
  <1>1. KInv' BY NextKInv DEF QInv
  <1>2. /\ uxMessagesWaiting' \in [QueueHandle -> Nat]
        /\ \A r \in QueueHandle : uxMessagesWaiting'[r] <= uxLength[r]
        /\ \A r \in Mutex : uxMessagesWaiting'[r] = uxMessagesWaiting[r]
        /\ cRxLock' \in [QueueHandle -> Int] /\ cTxLock' \in [QueueHandle -> Int]
        BY DEF QInv, QTypeOK
  <1> QED BY <1>1, <1>2, SystemStep

(* The tick interrupt, and a tick that xTaskResumeAll works off.            *)
LEMMA Tick_Inv == ASSUME QInv, Tick PROVE [Next]_vars /\ QInv'
  <1>1. /\ xPortSysTickHandle \/ ResumeTick
        /\ UNCHANGED <<uxMessagesWaiting, lockVars, mutexVars, uxCriticalNesting>>
        BY DEF Tick, Unmasked
  <1>2. StayPut BY DEF Tick, StayPut
  <1>3. [Next]_vars BY <1>1 DEF Next, SectionStep
  <1>4. /\ UNCHANGED <<pxCurrentTCB, xSchedulerRunning, uxSchedulerSuspended, readyVars, prioVars,
                       switchVars>>
        BY <1>1 DEF xPortSysTickHandle, ResumeTick
  <1>5. Ready(pxCurrentTCB) => Ready(pxCurrentTCB)' BY <1>4 DEF Ready
  <1>6. /\ pxCurrentTCB \in Task /\ xSchedulerRunning
        /\ section'.at \in {"pending", "ticks", "resumeTick"} <=>
               section.at \in {"pending", "ticks", "resumeTick"}
        /\ section'.at = "tick" => Stops(Self.pc)
    <2>1. CASE xPortSysTickHandle
      <3>1. InterruptsOn BY <2>1 DEF xPortSysTickHandle
      <3>2. \/ uxSchedulerSuspended = 0 /\ section' = [NoSection EXCEPT !.at = "tick"]
            \/ section' = section
            BY <2>1, <3>1, InterruptFacts DEF xPortSysTickHandle
      <3>3. [NoSection EXCEPT !.at = "tick"].at = "tick" BY DEF NoSection
      <3> QED BY <3>1, <3>2, <3>3, InterruptFacts
    <2>2. CASE ResumeTick
      <3>1. section.at = "ticks" /\ section' = [section EXCEPT !.at = "resumeTick", !.xSwitchRequired = FALSE]
            BY <2>2 DEF ResumeTick
      <3>2. section \in Section BY DEF QInv, KInv, TypeOK, Section
      <3>3. section'.at = "resumeTick" BY <3>1, <3>2 DEF Section
      <3> QED BY <3>1, <3>3 DEF QInv, KInv, SectionsAreInStep
    <2> QED BY <1>1, <2>1, <2>2
  <1>7. Control' /\ CurrentIsReady' BY <1>1, <1>2, <1>4, <1>5, <1>6, NoSwitch
  <1> QED BY <1>1, <1>2, <1>3, <1>4, <1>7, KernelStep

(* The software interrupt switches tasks, or notes that it was asked to.    *)
LEMMA Switch_Inv == ASSUME QInv, Switch PROVE [Next]_vars /\ QInv'
  <1>1. /\ SV_ISR /\ InterruptsOn
        /\ UNCHANGED <<uxMessagesWaiting, lockVars, mutexVars, frame, uxCriticalNesting>>
        BY DEF Switch, SV_ISR, queueVars, Unmasked
  <1>2. StayPut BY <1>1 DEF StayPut
  <1>3. [Next]_vars BY <1>1 DEF Next
  <1>4. KInv' /\ UNCHANGED <<xSchedulerRunning, uxSchedulerSuspended, section, uxMutexesHeld>>
        BY <1>1, <1>3, NextKInv DEF QInv, SV_ISR
  <1>5. CASE uxSchedulerSuspended > 0
    <2>1. /\ pxCurrentTCB' = pxCurrentTCB /\ NobodySleeps BY <1>1, <1>5, SV_ISR_Inv DEF QInv
    <2>2. Ready(pxCurrentTCB) => Ready(pxCurrentTCB)'
          BY <1>1, <2>1, InterruptFacts DEF NobodySleeps, Ready
    <2>3. /\ Self' = Self /\ Self.pc \in Suspended /\ Self.pc # "try"
          BY <1>1, <1>5, <2>1, InterruptFacts DEF Self, Suspended, Looking, Unlocking
    <2>4. Control' BY <1>1, <1>4, <2>1, <2>3 DEF QInv, Control
    <2>5. CurrentIsReady' BY <1>4, <2>1, <2>2, <2>3 DEF QInv, CurrentIsReady, Ready
    <2> QED BY <1>1, <1>2, <1>3, <1>4, <2>4, <2>5, KernelStep
  <1>6. CASE ~(uxSchedulerSuspended > 0)
    <2>1. /\ uxSchedulerSuspended = 0 /\ Stops(Self.pc) /\ section'.at = "none"
          /\ xSchedulerRunning'
          BY <1>1, <1>4, <1>6, InterruptFacts
    <2>2. Ready(pxCurrentTCB)' BY <1>1, <1>6, SV_ISR_Inv DEF QInv
    <2>3. pxCurrentTCB' \in Task BY <1>4, <2>1 DEF KInv, SectionsAreInStep
    <2>4. \A t \in Task : Stops(frame[t].pc) BY <2>1 DEF QInv, Control, Self
    <2>5. Control' /\ CurrentIsReady'
          BY <1>1, <1>2, <1>4, <2>1, <2>2, <2>3, <2>4, ContextSwitch
    <2> QED BY <1>1, <1>2, <1>3, <1>4, <2>5, KernelStep
  <1> QED BY <1>5, <1>6

(* The steps of the tick handler and of xTaskResumeAll.                     *)
LEMMA Unblock_Inv == ASSUME QInv, Unblock PROVE [Next]_vars /\ QInv'
  <1>1. /\ TickUnblock \/ TickReturn \/ ResumeTickReturn \/ ResumePending \/ ResumePendingDone
        /\ UNCHANGED <<uxMessagesWaiting, lockVars, mutexVars, frame, uxCriticalNesting>>
        BY DEF Unblock, queueVars, Unmasked
  <1>2. StayPut BY <1>1 DEF StayPut
  <1>3. [Next]_vars BY <1>1 DEF Next, SectionStep
  <1>4. /\ KInv' /\ section.at # "none" /\ section \in Section
        /\ UNCHANGED <<xSchedulerRunning, uxSchedulerSuspended, uxMutexesHeld, PENDING_SOFT_SV>>
    <2>1. KInv' /\ section \in Section BY <1>3, NextKInv DEF QInv, KInv, TypeOK, Section
    <2>2. CASE TickUnblock BY <2>1, <2>2 DEF TickUnblock
    <2>3. CASE TickReturn BY <2>1, <2>3 DEF TickReturn, LeaveTickLoop
    <2>4. CASE ResumeTickReturn BY <2>1, <2>4 DEF ResumeTickReturn, LeaveTickLoop
    <2>5. CASE ResumePending BY <2>1, <2>5 DEF ResumePending
    <2>6. CASE ResumePendingDone BY <2>1, <2>6 DEF ResumePendingDone
    <2> QED BY <1>1, <2>2, <2>3, <2>4, <2>5, <2>6
  <1>5. /\ xSchedulerRunning /\ pxCurrentTCB \in Task /\ uxSchedulerSuspended = 0
        BY <1>4 DEF QInv, KInv, SectionsAreInStep
  <1>6. section.at = "tick" => Stops(Self.pc) BY <1>5 DEF QInv, Control
  <1>7. ASSUME pxCurrentTCB' = pxCurrentTCB, Ready(pxCurrentTCB) => Ready(pxCurrentTCB)',
               section'.at \in {"pending", "ticks", "resumeTick"} <=>
                   section.at \in {"pending", "ticks", "resumeTick"},
               section'.at = "tick" => section.at = "tick"
        PROVE  QInv'
    <2>1. Control' /\ CurrentIsReady' BY <1>1, <1>2, <1>4, <1>5, <1>6, <1>7, NoSwitch
    <2> QED BY <1>1, <1>2, <1>3, <1>4, <2>1, KernelStep
  <1>8. ASSUME pxCurrentTCB' = pxCurrentTCB, NobodySleeps
        PROVE  Ready(pxCurrentTCB) => Ready(pxCurrentTCB)'
        BY <1>5, <1>8 DEF NobodySleeps, Ready
  <1>9. CASE TickUnblock
    <2>1. NobodySleeps BY <1>1, <1>9, TickUnblock_Inv DEF QInv
    <2>2. pxCurrentTCB' = pxCurrentTCB /\ section'.at = section.at
          BY <1>4, <1>9 DEF TickUnblock, Section
    <2> QED BY <1>3, <1>7, <1>8, <2>1, <2>2
  <1>10. CASE ResumeTickReturn
    <2>1. UNCHANGED <<pxCurrentTCB, readyVars, prioVars>>
          BY <1>10 DEF ResumeTickReturn, LeaveTickLoop
    <2>2. section.at = "resumeTick" /\ section'.at = "ticks"
          BY <1>4, <1>10 DEF ResumeTickReturn, Section
    <2> QED BY <1>3, <1>7, <2>1, <2>2 DEF Ready
  <1>11. CASE ResumePending
    <2>1. NobodySleeps BY <1>1, <1>11, ResumePending_Inv DEF QInv
    <2>2. pxCurrentTCB' = pxCurrentTCB /\ section'.at = section.at
          BY <1>4, <1>11 DEF ResumePending, Section
    <2> QED BY <1>3, <1>7, <1>8, <2>1, <2>2
  <1>12. CASE ResumePendingDone
    <2>1. UNCHANGED <<pxCurrentTCB, readyVars, prioVars>> BY <1>12 DEF ResumePendingDone
    <2>2. section.at = "pending" /\ section'.at = "ticks"
          BY <1>12 DEF ResumePendingDone, NoSection
    <2> QED BY <1>3, <1>7, <2>1, <2>2 DEF Ready
  <1>13. CASE TickReturn
    <2>1. section.at = "tick" /\ section'.at = "none" BY <1>13, SectionFacts DEF TickReturn
    <2>2. NobodySleeps BY <1>1, <1>13, TickReturn_Inv DEF QInv
    <2>3. CASE pxCurrentTCB' = pxCurrentTCB BY <1>3, <1>7, <1>8, <2>1, <2>2, <2>3
    <2>4. CASE pxCurrentTCB' # pxCurrentTCB
      <3>1. Ready(pxCurrentTCB)' BY <1>1, <1>13, <2>4, TickReturn_Inv DEF QInv
      <3>2. pxCurrentTCB' \in Task BY <1>4, <1>5 DEF KInv, SectionsAreInStep
      <3>3. \A t \in Task : Stops(frame[t].pc) BY <1>6, <2>1 DEF QInv, Control, Self
      <3>5. Control' /\ CurrentIsReady'
            BY <1>1, <1>2, <1>4, <1>5, <2>1, <3>1, <3>2, <3>3, ContextSwitch
      <3> QED BY <1>1, <1>2, <1>3, <1>4, <3>5, KernelStep
    <2> QED BY <2>3, <2>4
  <1> QED BY <1>1, <1>3, <1>9, <1>10, <1>11, <1>12, <1>13

(* xTaskResumeAll returns to the call.                                      *)
LEMMA Resumed_Inv == ASSUME QInv, Resumed PROVE [Next]_vars /\ QInv'
  <1>1. /\ ResumeEnd /\ section.at = "ticks" /\ section' = NoSection
        /\ UNCHANGED <<uxMessagesWaiting, lockVars, mutexVars, uxCriticalNesting>>
        /\ UNCHANGED <<pxCurrentTCB, readyVars, prioVars, xSchedulerRunning, uxSchedulerSuspended>>
        BY DEF Resumed, ResumeEnd, Unmasked
  <1>2. [Next]_vars BY <1>1 DEF Next, SectionStep
  <1>3. KInv' BY <1>2, NextKInv DEF QInv
  <1>4. /\ xSchedulerRunning /\ pxCurrentTCB \in Task /\ uxSchedulerSuspended = 0
        BY <1>1 DEF QInv, KInv, SectionsAreInStep
  <1>5. /\ Self.pc = "resuming" /\ section'.at = "none"
        BY <1>1, <1>4, SectionFacts DEF QInv, Control, Critical
  <1>6. Self \in Frame /\ FrameFits(Self) /\ HolderFits(Self, pxCurrentTCB)
        BY <1>4 DEF QInv, QTypeOK, FramesFit, HoldersFit, Self
  <1>7. /\ Self.fn \notin {"none", "overwrite", "reset"} /\ Self.q \in QueueHandle
        /\ Self.q \in Mutex => Self.fn # "send"
        /\ Self.xEntryTimeSet /\ pxCurrentTCB # IdleTask
        BY <1>4, <1>5, <1>6, KernelAssumption DEF FrameFits, QInv, Control, Self
  <1>8. PICK g : /\ Becomes(g)
                 /\ \/ g = AppFrame /\ Self.outcome = "timeout"
                    \/ /\ g = [Self EXCEPT !.pc = "recheck"]
                       /\ Self.outcome = "timeout" /\ ~Sends(Self.fn)
                    \/ g = [Self EXCEPT !.outcome = "none", !.pc = "yield"]
                    \/ /\ g = [Self EXCEPT !.outcome = "none", !.pc = "try"]
                       /\ Self.outcome = "block" => xAlreadyYielded
        BY DEF Resumed
  <1>9. /\ g \in Frame /\ FrameFits(g) /\ g.pc \in Preemptible \ {"count"}
        /\ g = AppFrame \/ (g.q = Self.q /\ g.fn = Self.fn)
        /\ Self.outcome = "block" => g.pc = "yield" \/ (g.pc = "try" /\ xAlreadyYielded)
    <2>1. CASE g = AppFrame /\ Self.outcome = "timeout"
          BY <2>1, FrameFacts DEF Stops, Preemptible
    <2>2. CASE ~(g = AppFrame /\ Self.outcome = "timeout")
      <3>1. /\ g \in Frame /\ g.pc \in {"recheck", "yield", "try"}
            /\ g.q = Self.q /\ g.fn = Self.fn /\ g.xEntryTimeSet
            /\ g.xInheritanceOccurred = Self.xInheritanceOccurred
            /\ g.outcome = IF g.pc = "recheck" THEN "timeout" ELSE "none"
            /\ g.pc = "recheck" => Self.outcome = "timeout" /\ ~Sends(Self.fn)
            /\ g.pc = "try" /\ Self.outcome = "block" => xAlreadyYielded
            BY <1>6, <1>7, <1>8, <2>2, ZenonT(60) DEF Frame, Stops, Preemptible
      <3>2. FrameFits(g) BY <1>6, <1>7, <3>1, MovedFits DEF Looking, Unlocking
      <3> QED BY <3>1, <3>2 DEF Stops, Preemptible
    <2> QED BY <1>8, <2>1, <2>2
  <1>10. /\ frame' \in [Task -> Frame] /\ Self' = g
         /\ \A t \in Task : frame'[t] = IF t = pxCurrentTCB THEN g ELSE frame[t]
         BY <1>1, <1>4, <1>8, <1>9 DEF QInv, QTypeOK, Becomes, Self
  <1>11. FramesFit' BY <1>9, <1>10 DEF QInv, FramesFit
  <1>12. Control'
    <2>1. /\ \A t \in Task : t # pxCurrentTCB' => Stops(frame'[t].pc)
          /\ frame'[IdleTask].pc = "app"
          BY <1>1, <1>7, <1>10, KernelAssumption DEF QInv, Control
    <2>2. g.pc \notin Critical /\ g.pc \notin Suspended /\ g.pc # "resuming"
          BY <1>9 DEF Stops, Preemptible, Critical, Suspended, Looking, Unlocking
    <2>3. uxCriticalNesting' = Cardinality({t \in Task : frame'[t].pc \in Critical})
      <3>1. uxCriticalNesting \in Nat BY DEF QInv, KInv, TypeOK
      <3>2. Nested(g) = 0 /\ Nested(Self) = 0 BY <1>5, <2>2 DEF Critical
      <3> QED BY <1>1, <1>4, <1>8, <3>1, <3>2, NestingMoves
    <2>4. Stops(g.pc) BY <1>9 DEF Stops
    <2> QED BY <1>1, <1>4, <1>5, <1>10, <2>1, <2>2, <2>3, <2>4 DEF Control
  <1>13. CurrentIsReady'
    <2> SUFFICES ASSUME ~Ready(pxCurrentTCB)'
                 PROVE  Blocked(g) /\ (g.pc = "try" => PENDING_SOFT_SV')
          BY <1>10 DEF CurrentIsReady
    <2>1. ~Ready(pxCurrentTCB) BY <1>1 DEF Ready
    <2>2. Self.outcome = "block" BY <1>4, <1>5, <2>1 DEF QInv, CurrentIsReady, Blocked
    <2> QED BY <1>1, <1>9, <2>2, Zenon DEF Blocked, ResumeEnd
  <1>14. HoldersFit' /\ TakenIsHeld' /\ HeldIsCounted' /\ RecursionIsCounted'
    <2>1. Self.q \in Mutex => xMutexHolder[Self.q] # pxCurrentTCB
          BY <1>5, <1>6, <1>7 DEF FrameFits, HolderFits
    <2>2. HolderFits(g, pxCurrentTCB)
          BY <1>6, <1>7, <1>9, <2>1, FrameFacts DEF HolderFits, FrameFits, Stops, Preemptible
    <2>3. \A q \in Recursive :
              xMutexHolder[q] = pxCurrentTCB => (Counting(Self, q) <=> Counting(g, q))
          BY <1>9, <2>1, FrameFacts DEF Counting
    <2> QED BY <1>1, <1>4, <1>8, <2>2, <2>3, SameMutexes
  <1>15. QTypeOK' BY <1>1, <1>10 DEF QInv, QTypeOK
  <1> QED BY <1>2, <1>3, <1>11, <1>12, <1>13, <1>14, <1>15 DEF QInv

(* main creates the tasks and starts the scheduler.                         *)
LEMMA Boot_Inv == ASSUME QInv, Boot PROVE [Next]_vars /\ QInv'
  <1>1. /\ ~xSchedulerRunning
        /\ UNCHANGED <<uxMessagesWaiting, lockVars, mutexVars, frame, uxCriticalNesting>>
        BY DEF Boot, queueVars, Unmasked
  <1>2. StayPut BY <1>1 DEF StayPut
  <1>3. /\ \A t \in Task : TaskPriority[t] \in 0 .. configMAX_PRIORITIES
        /\ TaskPriority[IdleTask] = 0 /\ IdleTask \in Task
        BY QueueAssumption, KernelAssumption
  <1>4. \/ Startup /\ \E t \in Task : \E p : xTaskCreate(t, p)
        \/ Startup /\ vTaskStartScheduler
    <2>1. CASE vTaskStartScheduler BY <1>1, <2>1 DEF Startup
    <2>2. CASE \E t \in Task \ {IdleTask} : xTaskCreate(t, TaskPriority[t])
          BY <1>1, <1>3, <2>2 DEF Startup
    <2>3. CASE xTaskCreate(IdleTask, 0) BY <1>1, <1>3, <2>3 DEF Startup
    <2> QED BY <2>1, <2>2, <2>3 DEF Boot
  <1>5. [Next]_vars BY <1>1, <1>4 DEF Next
  <1>6. KInv' BY <1>5, NextKInv DEF QInv
  <1>7. /\ uxSchedulerSuspended = 0 /\ section.at = "none"
        /\ \A t \in Task : frame[t].pc = "app"
        /\ \A q \in Mutex : xMutexHolder[q] = NULL
        BY <1>1 DEF QInv, KInv, SectionsAreInStep, Control
  <1>8. UNCHANGED uxMutexesHeld
    <2>1. CASE vTaskStartScheduler BY <2>1 DEF vTaskStartScheduler
    <2>2. ASSUME NEW t \in Task, NEW p, xTaskCreate(t, p) PROVE UNCHANGED uxMutexesHeld
      <3>1. uxMutexesHeld' = [uxMutexesHeld EXCEPT ![t] = 0]
            BY <2>2 DEF xTaskCreate, prvInitialiseNewTask
      <3>2. {q \in Mutex : xMutexHolder[q] = t} = {} BY <1>7, KernelAssumption
      <3>3. uxMutexesHeld[t] = 0 BY <3>2, FS_EmptySet DEF QInv, HeldIsCounted
      <3>4. uxMutexesHeld \in [Task -> 0 .. MaxMutexesHeld] BY DEF QInv, KInv, TypeOK
      <3> QED BY <3>1, <3>3, <3>4
    <2> QED BY <1>4, <2>1, <2>2
  <1>9. CASE vTaskStartScheduler
    <2>1. /\ xSchedulerRunning' /\ UNCHANGED <<uxSchedulerSuspended, section>>
          BY <1>9 DEF vTaskStartScheduler
    <2>2. Ready(pxCurrentTCB)' BY <1>1, <1>9, vTaskStartScheduler_Inv DEF QInv
    <2>3. pxCurrentTCB' \in Task BY <1>6, <2>1 DEF KInv, SectionsAreInStep
    <2>4. \A t \in Task : Stops(frame[t].pc) BY <1>7 DEF Stops, Preemptible
    <2>5. Control' /\ CurrentIsReady'
          BY <1>1, <1>2, <1>7, <2>1, <2>2, <2>3, <2>4, ContextSwitch
    <2> QED BY <1>1, <1>2, <1>5, <1>8, <2>5, KernelStep
  <1>10. CASE \E t \in Task : \E p : xTaskCreate(t, p)
    <2>1. ~xSchedulerRunning' BY <1>1, <1>10 DEF xTaskCreate
    <2>2. Control'
      <3>1. uxCriticalNesting' = Cardinality({t \in Task : frame'[t].pc \in Critical})
            BY <1>1, SameNesting
      <3>2. uxCriticalNesting = 0 BY <1>1 DEF QInv, Control
      <3> QED BY <1>1, <1>3, <1>7, <2>1, <3>1, <3>2 DEF Control, Stops, Preemptible
    <2>3. CurrentIsReady' BY <2>1 DEF CurrentIsReady
    <2> QED BY <1>1, <1>2, <1>5, <1>8, <2>2, <2>3, KernelStep
  <1> QED BY <1>4, <1>5, <1>9, <1>10

(* The initial states.                                                      *)
LEMMA InitQInv == QInit => QInv
  <1> SUFFICES ASSUME QInit PROVE QInv OBVIOUS
  <1>1. KInv BY InitKInv DEF QInit
  <1>2. /\ frame = [t \in Task |-> AppFrame] /\ AppFrame \in Frame /\ FrameFits(AppFrame)
        /\ AppFrame.pc = "app" /\ AppFrame.q \notin Mutex /\ AppFrame.q \notin Recursive
        BY FrameFacts DEF QInit
  <1>3. /\ \A q \in QueueHandle : uxLength[q] \in Nat /\ uxLength[q] >= 1
        /\ Mutex \subseteq QueueHandle /\ Recursive \subseteq Mutex
        BY QueueAssumption
  <1>4. QTypeOK
    <2>1. uxMessagesWaiting \in [QueueHandle -> Nat]
          /\ \A q \in QueueHandle : uxMessagesWaiting[q] <= uxLength[q]
          BY <1>3 DEF QInit
    <2>2. cRxLock \in [QueueHandle -> Int] /\ cTxLock \in [QueueHandle -> Int]
          BY DEF QInit, queueUNLOCKED
    <2>3. /\ xMutexHolder \in [Mutex -> Task \cup {NULL}] /\ uxRecursiveCallCount \in [Mutex -> Nat]
          BY DEF QInit
    <2> QED BY <1>2, <2>1, <2>2, <2>3 DEF QTypeOK
  <1>5. FramesFit BY <1>2 DEF FramesFit
  <1>6. Control /\ CurrentIsReady
    <2>1. {t \in Task : frame[t].pc \in Critical} = {} BY <1>2 DEF Critical
    <2>2. uxCriticalNesting = Cardinality({t \in Task : frame[t].pc \in Critical})
          BY <2>1, FS_EmptySet DEF QInit, Init
    <2> QED BY <1>2, <2>2, KernelAssumption
            DEF Control, CurrentIsReady, QInit, Init, Stops, Preemptible
  <1>7. HoldersFit /\ TakenIsHeld BY <1>2, <1>3 DEF HoldersFit, HolderFits, TakenIsHeld, QInit
  <1>8. HeldIsCounted
    <2> SUFFICES ASSUME NEW t \in Task
                 PROVE  uxMutexesHeld[t] = Cardinality({q \in Mutex : xMutexHolder[q] = t})
          BY DEF HeldIsCounted
    <2>1. {q \in Mutex : xMutexHolder[q] = t} = {} BY KernelAssumption DEF QInit
    <2> QED BY <2>1, FS_EmptySet DEF QInit, Init
  <1>9. RecursionIsCounted BY <1>3 DEF RecursionIsCounted, QInit
  <1> QED BY <1>1, <1>4, <1>5, <1>6, <1>7, <1>8, <1>9 DEF QInv

(* Every step of the queues is a step that Kernel allows, and keeps QInv.   *)
LEMMA QNextStep == ASSUME QInv, [QNext]_qvars PROVE [Next]_vars /\ QInv'
  <1>1. CASE UNCHANGED qvars
    <2>1. UNCHANGED <<kernelVars, uxCriticalNesting, uxMessagesWaiting, lockVars, mutexVars, frame>>
          BY <1>1 DEF qvars, vars, queueVars
    <2>2. [Next]_vars BY <2>1 DEF vars
    <2>3. StayPut BY <2>1 DEF StayPut
    <2>4. Control' BY <2>1 DEF QInv, Control, Self
    <2>5. CurrentIsReady' BY <2>1 DEF QInv, CurrentIsReady, Self, Ready
    <2> QED BY <2>1, <2>2, <2>3, <2>4, <2>5, KernelStep
  <1>2. CASE AppStep
    <2>1. CASE \E t \in Task : \E c \in Program[t] : Call(c[1], c[2], c[3])
          BY <2>1, Call_Inv DEF Next
    <2>2. CASE \E q \in Recursive : \/ \E n \in TickType : xQueueTakeMutexRecursive(q, n)
                                    \/ xQueueGiveMutexRecursive(q)
      <3>1. 0 \in TickType BY KernelAssumption DEF TickType
      <3> QED BY <2>2, <3>1, Recursive_Inv DEF Next
    <2>3. CASE AppYield BY <2>3, AppYield_Inv DEF Next
    <2>4. CASE \E q \in QueueHandle : xQueueGenericReset(q)
          BY <2>4, xQueueGenericReset_Inv DEF Next
    <2> QED BY <1>2, <2>1, <2>2, <2>3, <2>4 DEF AppStep
  <1>3. CASE TryStep
        BY <1>3, Commit_Inv, Notify_Inv, CountFirstTake_Inv, NotAvailable_Inv DEF TryStep, Next
  <1>4. CASE prvUnlockQueue
        BY <1>4, Unlock_Inv, Wake_Inv DEF prvUnlockQueue, Next
  <1>5. CASE WaitStep /\ ~prvUnlockQueue
        BY <1>5, Suspend_Inv, prvLockQueue_Inv, xTaskCheckForTimeOut_Inv, Test_Inv, Inherit_Inv,
           Place_Inv, Resume_Inv, portYIELD_WITHIN_API_Inv, Recheck_Inv, Disinherit_Inv
        DEF WaitStep, Next
  <1>6. CASE HandlerStep BY <1>6, HandlerStep_Inv
  <1>7. CASE Boot BY <1>7, Boot_Inv
  <1>8. CASE Tick BY <1>8, Tick_Inv
  <1>9. CASE Switch BY <1>9, Switch_Inv
  <1>10. CASE Unblock BY <1>10, Unblock_Inv
  <1>11. CASE Resumed BY <1>11, Resumed_Inv
  <1> QED BY <1>1, <1>2, <1>3, <1>4, <1>5, <1>6, <1>7, <1>8, <1>9, <1>10, <1>11
          DEF QNext, CallStep

(* QInv holds in every state that the queues can reach.                     *)
LEMMA QInvHolds == QSpec => []QInv
  <1>1. QInit => QInv BY InitQInv
  <1>2. QInv /\ [QNext]_qvars => QInv' BY QNextStep
  <1> QED BY <1>1, <1>2, PTL DEF QSpec
-----------------------------------------------------------------------------
(* What the calls of queue.c and the handlers do to the scheduler is what   *)
(* Kernel allows: they never call it in a state its functions do not expect.*)
(* So what KernelProofs shows of Kernel holds with the queues on top.       *)
THEOREM QueuesImplementKernel == QSpec => ImplementsKernel
  <1>1. QInit => Init BY DEF QInit
  <1>2. QInv /\ [QNext]_qvars => [Next]_vars BY QNextStep
  <1>3. QSpec => []QInv BY QInvHolds
  <1> QED BY <1>1, <1>2, <1>3, PTL DEF QSpec, ImplementsKernel, Spec

(* A mutex is taken exactly while it has a holder, uxMutexesHeld counts what*)
(* each task holds, and a recursive mutex is counted while it is held, but  *)
(* before the first count and before the last give: after every sequence of *)
(* takes, gives, timeouts and switches.                                     *)
THEOREM MutexesStayCounted == QSpec => []MutexesAreCounted
  <1>1. QInv => MutexesAreCounted
    <2> SUFFICES ASSUME QInv PROVE MutexesAreCounted OBVIOUS
    <2>1. ASSUME NEW q \in Recursive
          PROVE  (uxRecursiveCallCount[q] > 0) =
                     (xMutexHolder[q] # NULL /\ ~Counting(frame[xMutexHolder[q]], q))
          BY DEF QInv, RecursionIsCounted
    <2> QED BY <2>1, Zenon DEF QInv, TakenIsHeld, HeldIsCounted, MutexesAreCounted, Counting
  <1>2. QSpec => []QInv BY QInvHolds
  <1> QED BY <1>1, <1>2, PTL
-----------------------------------------------------------------------------
(* How a call goes on: from which place to which, and what it keeps.        *)
Moves(f, g) ==
    \/ f.pc = "try" /\ g.pc \in {"notify", "suspend"}
    \/ f.pc = "notify" /\ g.pc = "count"
    \/ f.pc = "suspend" /\ g.pc = "lock"
    \/ f.pc = "lock" /\ g.pc = "check"
    \/ f.pc = "check" /\ g.pc \in {"test", "unlockTx"}
    \/ f.pc = "test" /\ g.pc \in {"inherit", "place", "unlockTx"}
    \/ f.pc = "inherit" /\ g.pc = "place"
    \/ f.pc = "place" /\ g.pc = "unlockTx"
    \/ f.pc \in {"unlockTx", "wakeReceivers"} /\ g.pc = "wakeReceivers"
    \/ f.pc = "wakeReceivers" /\ g.pc = "unlockRx"
    \/ f.pc \in {"unlockRx", "wakeSenders"} /\ g.pc = "wakeSenders"
    \/ f.pc = "wakeSenders" /\ g.pc = "resume"
    \/ f.pc = "resume" /\ g.pc = "resuming"
    \/ f.pc = "resuming" /\ g.pc \in {"recheck", "yield", "try"}
    \/ f.pc = "yield" /\ g.pc = "try"
    \/ f.pc = "recheck" /\ g.pc \in {"disinherit", "try"}

SameClock(f, g) ==
    /\ g.xTicksToWait = f.xTicksToWait /\ g.xEntryTimeSet = f.xEntryTimeSet
    /\ g.xTimeOnEntering = f.xTimeOnEntering /\ g.xOverflowed = f.xOverflowed /\ g.due = f.due

Outcome(f, g) ==
    IF f.pc = "check" /\ g.pc = "unlockTx" THEN "timeout"
    ELSE IF f.pc = "test" /\ g.pc = "unlockTx" THEN "retry"
    ELSE IF f.pc = "place" THEN "block"
    ELSE IF g.pc \in {"yield", "try"} THEN "none" ELSE f.outcome

GoesOn(f, g) ==
    /\ g.q = f.q /\ g.fn = f.fn /\ Moves(f, g) /\ g.outcome = Outcome(f, g)
    /\ f.pc = "check" \/ (f.pc = "try" /\ g.pc = "suspend") \/ SameClock(f, g)

Returns(f, g) ==
    g = AppFrame /\ f.pc \in {"try", "notify", "count", "resuming", "recheck", "disinherit"}

(* The current task's call goes on or returns.                              *)
OwnMove ==
    /\ pxCurrentTCB \in Task /\ pxCurrentTCB' = pxCurrentTCB
    /\ xSchedulerRunning /\ xSchedulerRunning' /\ xTickCount' = xTickCount
    /\ \A t \in Task : t # pxCurrentTCB => frame'[t] = frame[t]
    /\ frame[pxCurrentTCB] = Self /\ frame'[pxCurrentTCB] = Self'

(* Its frame becomes g.                                                     *)
LEMMA BecomesMove ==
    ASSUME QInv, xSchedulerRunning, NEW g, Becomes(g),
           UNCHANGED <<pxCurrentTCB, xSchedulerRunning, xTickCount>>
    PROVE  OwnMove /\ Self' = g /\ Self \in Frame /\ FrameFits(Self)
  <1>1. pxCurrentTCB \in Task BY DEF QInv, KInv, SectionsAreInStep
  <1>2. /\ frame'[pxCurrentTCB] = g
        /\ \A t \in Task : t # pxCurrentTCB => frame'[t] = frame[t]
        BY <1>1 DEF QInv, QTypeOK, Becomes
  <1>3. Self' = g BY <1>2 DEF Self
  <1>4. Self \in Frame /\ FrameFits(Self) BY <1>1 DEF QInv, QTypeOK, FramesFit, Self
  <1> QED BY <1>1, <1>2, <1>3, <1>4 DEF OwnMove, Self

(* The steps of a call up to the decision to wait.                          *)
LEMMA TryMoves ==
    ASSUME QInv, TryStep
    PROVE  OwnMove /\ (GoesOn(Self, Self') \/ Returns(Self, Self'))
  <1>1. /\ TaskRuns /\ xSchedulerRunning
        BY DEF TryStep, Commit, Notify, CountFirstTake, NotAvailable, At, TaskRuns
  <1>2. Self \in Frame BY <1>1, OwnFacts
  <1>3. CASE Commit
    <2>1. PICK y \in BOOLEAN : Becomes([Self EXCEPT !.pc = "notify", !.xYieldRequired = y])
      <3>1. (Self.q \in Mutex /\ Sends(Self.fn) /\ xYieldRequired) \in BOOLEAN OBVIOUS
      <3> QED BY <1>3, <3>1 DEF Commit
    <2>2. /\ UNCHANGED <<pxCurrentTCB, xSchedulerRunning, xTickCount>> /\ Self.pc = "try"
          BY <1>3 DEF Commit, At, xTaskPriorityDisinherit, pvTaskIncrementMutexHeldCount
    <2>3. OwnMove /\ Self' = [Self EXCEPT !.pc = "notify", !.xYieldRequired = y]
          BY <1>1, <2>1, <2>2, BecomesMove
    <2>4. FrameFits(Self) BY <1>1, OwnFacts
    <2>5. GoesOn(Self, Self')
          BY <1>2, <2>2, <2>3 DEF GoesOn, Moves, SameClock, Outcome, Frame
    <2> QED BY <2>3, <2>5
  <1>4. CASE Notify
    <2>1. /\ UNCHANGED <<pxCurrentTCB, xSchedulerRunning, xTickCount>> /\ Self.pc = "notify"
          BY <1>4 DEF Notify, At, xTaskRemoveFromEventList, portYIELD
    <2>2. PICK g : Becomes(g) /\ (g = [Self EXCEPT !.pc = "count"] \/ g = AppFrame)
          BY <1>4 DEF Notify
    <2>3. OwnMove /\ Self' = g BY <1>1, <2>1, <2>2, BecomesMove
    <2> QED BY <1>2, <2>1, <2>2, <2>3 DEF GoesOn, Returns, Moves, SameClock, Outcome, Frame
  <1>5. CASE CountFirstTake
    <2>1. UNCHANGED <<pxCurrentTCB, xSchedulerRunning, xTickCount>> /\ Self.pc = "count" /\ Becomes(AppFrame)
          BY <1>5 DEF CountFirstTake, At
    <2> QED BY <1>1, <2>1, BecomesMove DEF Returns
  <1>6. CASE NotAvailable
    <2>1. UNCHANGED <<pxCurrentTCB, xSchedulerRunning, xTickCount>> /\ Self.pc = "try"
          BY <1>6 DEF NotAvailable, At
    <2>2. PICK g : /\ Becomes(g)
                   /\ \/ g = AppFrame \/ g = [Self EXCEPT !.pc = "suspend"]
                      \/ g = [Self EXCEPT !.pc = "suspend", !.xEntryTimeSet = TRUE,
                                          !.xTimeOnEntering = xTickCount,
                                          !.due = Self.xTicksToWait]
          BY <1>6 DEF NotAvailable
    <2>3. OwnMove /\ Self' = g BY <1>1, <2>1, <2>2, BecomesMove
    <2>4. CASE g = AppFrame BY <2>1, <2>3, <2>4 DEF Returns
    <2>5. CASE g # AppFrame
          BY <1>2, <2>1, <2>2, <2>3, <2>5 DEF GoesOn, Moves, Outcome, Frame
    <2> QED BY <2>3, <2>4, <2>5
  <1> QED BY <1>3, <1>4, <1>5, <1>6 DEF TryStep

(* The steps of the wait.                                                   *)
LEMMA WaitMoves ==
    ASSUME QInv, WaitStep
    PROVE  OwnMove /\ (GoesOn(Self, Self') \/ Returns(Self, Self'))
  <1>1. /\ TaskRuns /\ xSchedulerRunning
        BY DEF WaitStep, prvUnlockQueue, Suspend, prvLockQueue, xTaskCheckForTimeOut, Test, Inherit,
               Place, UnlockTx, WakeReceivers, UnlockRx, WakeSenders, Resume, portYIELD_WITHIN_API,
               Recheck, Disinherit, At, TaskRuns
  <1>2. Self \in Frame BY <1>1, OwnFacts
  <1>3. ASSUME NEW p, Goto(p), UNCHANGED <<pxCurrentTCB, xSchedulerRunning, xTickCount>>
        PROVE  /\ OwnMove /\ SameClock(Self, Self') /\ Self'.pc = p
               /\ Self'.q = Self.q /\ Self'.fn = Self.fn /\ Self'.outcome = Self.outcome
    <2>1. OwnMove /\ Self' = [Self EXCEPT !.pc = p] BY <1>1, <1>3, BecomesMove DEF Goto
    <2> QED BY <1>2, <2>1 DEF SameClock, Frame
  <1>4. CASE Suspend
    <2>1. /\ UNCHANGED <<pxCurrentTCB, xSchedulerRunning, xTickCount>> /\ Self.pc = "suspend"
          /\ Goto("lock")
          BY <1>4 DEF Suspend, At, vTaskSuspendAll
    <2> QED BY <1>3, <2>1 DEF GoesOn, Moves, Outcome
  <1>5. CASE prvLockQueue
    <2>1. /\ UNCHANGED <<pxCurrentTCB, xSchedulerRunning, xTickCount>> /\ Self.pc = "lock"
          /\ Goto("check")
          BY <1>5 DEF prvLockQueue, At
    <2> QED BY <1>3, <2>1 DEF GoesOn, Moves, Outcome
  <1>6. CASE Resume
    <2>1. /\ UNCHANGED <<pxCurrentTCB, xSchedulerRunning, xTickCount>> /\ Self.pc = "resume"
          /\ Goto("resuming")
          BY <1>6 DEF Resume, At, xTaskResumeAll
    <2> QED BY <1>3, <2>1 DEF GoesOn, Moves, Outcome
  <1>7. CASE portYIELD_WITHIN_API
    <2>1. /\ UNCHANGED <<pxCurrentTCB, xSchedulerRunning, xTickCount>> /\ Self.pc = "yield"
          /\ Goto("try")
          BY <1>7 DEF portYIELD_WITHIN_API, At, portYIELD
    <2>2. Self.outcome = "none" BY <1>1, <2>1, OwnFacts DEF FrameFits, Unlocking
    <2> QED BY <1>3, <2>1, <2>2 DEF GoesOn, Moves, Outcome
  <1>8. CASE xTaskCheckForTimeOut
    <2>1. UNCHANGED <<pxCurrentTCB, xSchedulerRunning, xTickCount>> /\ Self.pc = "check"
          BY <1>8 DEF xTaskCheckForTimeOut, At
    <2>2. PICK g : /\ Becomes(g)
                   /\ \/ g = TimedOut \/ g = [TimedOut EXCEPT !.xTicksToWait = 0] \/ g = StillWaits
          BY <1>8 DEF xTaskCheckForTimeOut
    <2>3. OwnMove /\ Self' = g BY <1>1, <2>1, <2>2, BecomesMove
    <2>4. CASE g = StillWaits
          BY <1>2, <2>1, <2>3, <2>4 DEF StillWaits, GoesOn, Moves, Outcome, Frame
    <2>5. CASE g = TimedOut \/ g = [TimedOut EXCEPT !.xTicksToWait = 0]
          BY <1>2, <2>1, <2>3, <2>5 DEF TimedOut, GoesOn, Moves, Outcome, Frame
    <2> QED BY <2>2, <2>3, <2>4, <2>5
  <1>9. CASE Test
    <2>1. UNCHANGED <<pxCurrentTCB, xSchedulerRunning, xTickCount>> /\ Self.pc = "test"
          BY <1>9 DEF Test, At
    <2>2. PICK g : /\ Becomes(g)
                   /\ \/ g = [Self EXCEPT !.pc = "unlockTx", !.outcome = "retry"]
                      \/ g = [Self EXCEPT !.pc = "inherit"] \/ g = [Self EXCEPT !.pc = "place"]
          BY <1>9 DEF Test
    <2>3. OwnMove /\ Self' = g BY <1>1, <2>1, <2>2, BecomesMove
    <2> QED BY <1>2, <2>1, <2>2, <2>3 DEF GoesOn, Moves, SameClock, Outcome, Frame
  <1>10. CASE Inherit
    <2>1. UNCHANGED <<pxCurrentTCB, xSchedulerRunning, xTickCount>> /\ Self.pc = "inherit"
          BY <1>10 DEF Inherit, At, xTaskPriorityInherit
    <2>2. PICK i : Becomes([Self EXCEPT !.pc = "place", !.xInheritanceOccurred = i])
          BY <1>10 DEF Inherit
    <2>3. OwnMove /\ Self' = [Self EXCEPT !.pc = "place", !.xInheritanceOccurred = i]
          BY <1>1, <2>1, <2>2, BecomesMove
    <2> QED BY <1>2, <2>1, <2>3 DEF GoesOn, Moves, SameClock, Outcome, Frame
  <1>11. CASE Place
    <2>1. /\ UNCHANGED <<pxCurrentTCB, xSchedulerRunning, xTickCount>> /\ Self.pc = "place"
          /\ Becomes([Self EXCEPT !.pc = "unlockTx", !.outcome = "block"])
          BY <1>11 DEF Place, At, vTaskPlaceOnEventList
    <2>2. OwnMove /\ Self' = [Self EXCEPT !.pc = "unlockTx", !.outcome = "block"]
          BY <1>1, <2>1, BecomesMove
    <2> QED BY <1>2, <2>1, <2>2 DEF GoesOn, Moves, SameClock, Outcome, Frame
  <1>12. CASE prvUnlockQueue
    <2>1. UNCHANGED <<pxCurrentTCB, xSchedulerRunning, xTickCount>>
          BY <1>12 DEF prvUnlockQueue, UnlockTx, UnlockRx, WakeReceivers, WakeSenders,
                       xTaskRemoveFromEventList
    <2>2. PICK c : \/ /\ Self.pc \in {"unlockTx"} /\ Becomes([Self EXCEPT !.pc = "wakeReceivers", !.cLock = c])
                   \/ /\ Self.pc \in {"wakeReceivers"} /\ Becomes([Self EXCEPT !.pc = "unlockRx", !.cLock = c])
                   \/ /\ Self.pc \in {"unlockRx"} /\ Becomes([Self EXCEPT !.pc = "wakeSenders", !.cLock = c])
                   \/ /\ Self.pc \in {"wakeSenders"} /\ Becomes([Self EXCEPT !.pc = "resume", !.cLock = c])
                   \/ /\ Self.pc \in {"wakeReceivers", "wakeSenders"} /\ Becomes([Self EXCEPT !.cLock = c])
          BY <1>12, Zenon DEF prvUnlockQueue, UnlockTx, UnlockRx, WakeReceivers, WakeSenders, At
    <2>3. ASSUME NEW p, Becomes([Self EXCEPT !.pc = p, !.cLock = c])
          PROVE  /\ OwnMove /\ SameClock(Self, Self') /\ Self'.pc = p
                 /\ Self'.q = Self.q /\ Self'.fn = Self.fn /\ Self'.outcome = Self.outcome
      <3>1. OwnMove /\ Self' = [Self EXCEPT !.pc = p, !.cLock = c] BY <1>1, <2>1, <2>3, BecomesMove
      <3> QED BY <1>2, <3>1 DEF SameClock, Frame
    <2>4. ASSUME Becomes([Self EXCEPT !.cLock = c])
          PROVE  /\ OwnMove /\ SameClock(Self, Self') /\ Self'.pc = Self.pc
                 /\ Self'.q = Self.q /\ Self'.fn = Self.fn /\ Self'.outcome = Self.outcome
      <3>1. OwnMove /\ Self' = [Self EXCEPT !.cLock = c] BY <1>1, <2>1, <2>4, BecomesMove
      <3> QED BY <1>2, <3>1 DEF SameClock, Frame
    <2> QED BY <2>2, <2>3, <2>4 DEF GoesOn, Moves, Outcome
  <1>13. CASE Recheck
    <2>1. UNCHANGED <<pxCurrentTCB, xSchedulerRunning, xTickCount>> /\ Self.pc = "recheck"
          BY <1>13 DEF Recheck, At
    <2>2. PICK g : /\ Becomes(g)
                   /\ \/ g = [Self EXCEPT !.pc = "try", !.outcome = "none"]
                      \/ g = [Self EXCEPT !.pc = "disinherit"] \/ g = AppFrame
          BY <1>13 DEF Recheck
    <2>3. OwnMove /\ Self' = g BY <1>1, <2>1, <2>2, BecomesMove
    <2>4. CASE g = AppFrame BY <2>1, <2>3, <2>4 DEF Returns
    <2>5. CASE g # AppFrame
          BY <1>2, <2>1, <2>2, <2>3, <2>5 DEF GoesOn, Moves, SameClock, Outcome, Frame
    <2> QED BY <2>3, <2>4, <2>5
  <1>14. CASE Disinherit
    <2>1. /\ UNCHANGED <<pxCurrentTCB, xSchedulerRunning, xTickCount>> /\ Self.pc = "disinherit"
          /\ Becomes(AppFrame)
          BY <1>14 DEF Disinherit, At, vTaskPriorityDisinheritAfterTimeout
    <2> QED BY <1>1, <2>1, BecomesMove DEF Returns
  <1> QED BY <1>4, <1>5, <1>6, <1>7, <1>8, <1>9, <1>10, <1>11, <1>12, <1>13, <1>14 DEF WaitStep

(* The return of xTaskResumeAll.                                            *)
LEMMA ResumedMoves ==
    ASSUME QInv, Resumed
    PROVE  OwnMove /\ (GoesOn(Self, Self') \/ Returns(Self, Self'))
  <1>1. /\ section.at = "ticks" /\ UNCHANGED <<pxCurrentTCB, xSchedulerRunning, xTickCount>>
        BY DEF Resumed, ResumeEnd
  <1>2. xSchedulerRunning /\ pxCurrentTCB \in Task BY <1>1 DEF QInv, KInv, SectionsAreInStep
  <1>3. Self.pc = "resuming" /\ Self \in Frame
        BY <1>1, <1>2 DEF QInv, Control, QTypeOK, Self
  <1>4. PICK g : /\ Becomes(g)
                 /\ \/ g = AppFrame
                    \/ /\ g = [Self EXCEPT !.pc = "recheck"]
                    \/ g = [Self EXCEPT !.outcome = "none", !.pc = "yield"]
                    \/ g = [Self EXCEPT !.outcome = "none", !.pc = "try"]
        BY DEF Resumed
  <1>5. OwnMove /\ Self' = g BY <1>1, <1>2, <1>4, BecomesMove
  <1>6. CASE g = AppFrame BY <1>3, <1>5, <1>6 DEF Returns
  <1>7. CASE g # AppFrame
        BY <1>3, <1>4, <1>5, <1>7 DEF GoesOn, Moves, SameClock, Outcome, Frame
  <1> QED BY <1>5, <1>6, <1>7

(* A task outside the calls begins one, or calls what returns at once.      *)
LEMMA AppMoves ==
    ASSUME QInv, AppStep
    PROVE  /\ OwnMove /\ Self = AppFrame /\ (UNCHANGED kernelVars \/ portYIELD)
           /\ \/ Self' = AppFrame
              \/ /\ Self'.pc \in {"try", "notify"} /\ Self'.q \in QueueHandle
                 /\ ~Self'.xEntryTimeSet /\ ~Self'.xOverflowed /\ Self'.outcome = "none"
                 /\ Self'.pc = "notify" => Self'.fn = "reset"
           /\ \/ UNCHANGED <<uxMessagesWaiting, lockVars>> /\ Self'.pc # "notify"
              \/ Self'.pc = "notify" /\ xQueueGenericReset(Self'.q)
  <1>1. /\ TaskRuns /\ xSchedulerRunning /\ Self.pc = "app"
        /\ UNCHANGED kernelVars \/ portYIELD
        BY DEF AppStep, Call, xQueueTakeMutexRecursive, xQueueGiveMutexRecursive, AppYield,
               xQueueGenericReset, EmptyQueue, At, TaskRuns
  <1>2. FrameFits(Self) /\ pxCurrentTCB \in Task BY <1>1, OwnFacts
  <1>3. Self = AppFrame BY <1>1, <1>2 DEF FrameFits
  <1>4. UNCHANGED <<pxCurrentTCB, xSchedulerRunning, xTickCount>> BY <1>1 DEF portYIELD
  <1>5. UNCHANGED frame => Becomes(AppFrame)
        BY <1>2, <1>3 DEF Becomes, Self, QInv, QTypeOK
  <1>6. ASSUME NEW fn, NEW q, NEW n, <<fn, q, n>> \in Program[pxCurrentTCB],
               fn \in {"send", "overwrite", "receive", "peek", "take", "takeRecursive"}
        PROVE  /\ NewFrame(fn, q, n).pc = "try" /\ NewFrame(fn, q, n).q \in QueueHandle
               /\ ~NewFrame(fn, q, n).xEntryTimeSet /\ ~NewFrame(fn, q, n).xOverflowed
               /\ NewFrame(fn, q, n).outcome = "none"
    <2>1. q \in QueueHandle BY <1>2, <1>6, ProgramFacts
    <2> QED BY <2>1 DEF NewFrame, AppFrame
  <1>7. AppFrame.pc # "notify" BY FrameFacts
  <1>8. CASE \E t \in Task : \E c \in Program[t] : Call(c[1], c[2], c[3])
    <2>1. PICK fn, q, n : Call(fn, q, n) BY <1>8
    <2>2. /\ Becomes(NewFrame(fn, q, n)) /\ <<fn, q, n>> \in Program[pxCurrentTCB]
          /\ fn \in {"send", "overwrite", "receive", "peek", "take"}
          /\ UNCHANGED <<uxMessagesWaiting, lockVars>>
          BY <2>1 DEF Call
    <2>3. OwnMove /\ Self' = NewFrame(fn, q, n) BY <1>1, <1>4, <2>2, BecomesMove
    <2> QED BY <1>1, <1>3, <1>6, <2>2, <2>3, ZenonT(60)
  <1>9. CASE \E q \in Recursive, n \in TickType : xQueueTakeMutexRecursive(q, n)
    <2>1. PICK q, n : xQueueTakeMutexRecursive(q, n) BY <1>9
    <2>2. /\ Becomes(NewFrame("takeRecursive", q, n)) \/ UNCHANGED frame
          /\ <<"takeRecursive", q, n>> \in Program[pxCurrentTCB]
          /\ UNCHANGED <<uxMessagesWaiting, lockVars>>
          BY <2>1 DEF xQueueTakeMutexRecursive
    <2>3. OwnMove /\ Self' \in {NewFrame("takeRecursive", q, n), AppFrame}
          BY <1>1, <1>4, <1>5, <2>2, BecomesMove
    <2> QED BY <1>1, <1>3, <1>6, <1>7, <2>2, <2>3
  <1>10. CASE \E q \in Recursive : xQueueGiveMutexRecursive(q)
    <2>1. PICK q \in Recursive : xQueueGiveMutexRecursive(q) BY <1>10
    <2>2. /\ Becomes(NewFrame("send", q, 0)) \/ UNCHANGED frame
          /\ UNCHANGED <<uxMessagesWaiting, lockVars>>
          BY <2>1 DEF xQueueGiveMutexRecursive
    <2>3. OwnMove /\ Self' \in {NewFrame("send", q, 0), AppFrame}
          BY <1>1, <1>4, <1>5, <2>2, BecomesMove
    <2>4. /\ NewFrame("send", q, 0).pc = "try" /\ NewFrame("send", q, 0).q \in QueueHandle
          /\ ~NewFrame("send", q, 0).xEntryTimeSet /\ ~NewFrame("send", q, 0).xOverflowed
          /\ NewFrame("send", q, 0).outcome = "none"
      <3>1. q \in QueueHandle BY FrameFacts
      <3> QED BY <3>1 DEF NewFrame, AppFrame
    <2> QED BY <1>1, <1>3, <1>7, <2>2, <2>3, <2>4
  <1>11. CASE AppYield
    <2>1. UNCHANGED frame /\ UNCHANGED <<uxMessagesWaiting, lockVars>> BY <1>11 DEF AppYield, queueVars
    <2>2. OwnMove /\ Self' = AppFrame BY <1>1, <1>4, <1>5, <2>1, BecomesMove
    <2> QED BY <1>1, <1>3, <1>7, <2>1, <2>2
  <1>12. CASE \E q \in QueueHandle : xQueueGenericReset(q)
    <2>1. PICK q \in QueueHandle : xQueueGenericReset(q) BY <1>12
    <2> DEFINE g == [NewFrame("reset", q, 0) EXCEPT !.pc = "notify"]
    <2>2. OwnMove /\ Self' = g BY <1>1, <1>4, <2>1, BecomesMove DEF xQueueGenericReset
    <2>3. g.pc = "notify" /\ g.q = q /\ ~g.xEntryTimeSet /\ ~g.xOverflowed /\ g.outcome = "none" /\ g.fn = "reset"
          BY DEF NewFrame, AppFrame
    <2> QED BY <1>1, <1>3, <2>1, <2>2, <2>3
  <1> QED BY <1>8, <1>9, <1>10, <1>11, <1>12 DEF AppStep

(* What the system does between two steps of tasks: a switch finds every    *)
(* task where it can be switched from, and nobody goes to sleep.            *)
SystemNext == Boot \/ HandlerStep \/ Tick \/ Switch \/ Unblock

(* Who sleeps: only Place sends a task to sleep.                            *)
SleepersStay ==
    /\ \A u \in Task : Delayed(u)' => Delayed(u) /\ xStateItemValue'[u] = xStateItemValue[u]
    /\ \A f \in EventList : WaitingTasks(f)' \subseteq WaitingTasks(f)

(* The sleepers stay when the lists do, or when one of them is woken.       *)
LEMMA SameListsStay == ASSUME UNCHANGED <<delayVars, eventVars>> PROVE SleepersStay
  BY DEF SleepersStay, Delayed, WaitingTasks

(* What a step of the system does to the tasks.                             *)
LEMMA SystemMoves ==
    ASSUME QInv, SystemNext
    PROVE  /\ StayPut /\ SleepersStay
           /\ pxCurrentTCB' = pxCurrentTCB \/ (~HandlerStep /\ \A t \in Task : Stops(frame[t].pc))
           /\ xSchedulerRunning => pxCurrentTCB \in Task /\ xSchedulerRunning'
           /\ ~HandlerStep => UNCHANGED <<uxMessagesWaiting, lockVars>>
  <1>1. xSchedulerRunning => pxCurrentTCB \in Task BY DEF QInv, KInv, SectionsAreInStep
  <1>2. CASE Boot
    <2>1. /\ UNCHANGED <<uxMessagesWaiting, lockVars, frame, uxCriticalNesting>> /\ ~xSchedulerRunning
          BY <1>2 DEF Boot, queueVars, Unmasked
    <2>2. \A t \in Task : Stops(frame[t].pc) BY <2>1 DEF QInv, Control, Stops, Preemptible
    <2>3. UNCHANGED <<pxDelayedTaskList, pxOverflowDelayedTaskList, xStateItemValue, eventVars>>
          BY <1>2 DEF Boot, xTaskCreate, vTaskStartScheduler
    <2>4. SleepersStay BY <2>3 DEF SleepersStay, Delayed, WaitingTasks
    <2>5. ~HandlerStep
          BY <2>1 DEF HandlerStep, xQueueGenericSendFromISR, xQueueReceiveFromISR, InterruptsOn
    <2> QED BY <2>1, <2>2, <2>4, <2>5 DEF StayPut
  <1>3. CASE HandlerStep
    <2>1. PICK q \in QueueHandle : xQueueGenericSendFromISR(q) \/ xQueueReceiveFromISR(q)
          BY <1>3 DEF HandlerStep
    <2>2. /\ InterruptsOn /\ UNCHANGED <<frame, uxCriticalNesting>>
          /\ \/ UNCHANGED kernelVars
             \/ \E yields \in BOOLEAN : xTaskRemoveFromEventList(xTasksWaitingToReceive(q), yields)
             \/ \E yields \in BOOLEAN : xTaskRemoveFromEventList(xTasksWaitingToSend(q), yields)
          BY <2>1 DEF xQueueGenericSendFromISR, xQueueReceiveFromISR, FromISR, Unmasked
    <2>3. /\ xTasksWaitingToReceive(q) \in EventList /\ xTasksWaitingToSend(q) \in EventList
          /\ xSchedulerRunning /\ section = NoSection /\ uxCriticalNesting' \in 0 .. MaxCritical
          BY <2>2, InterruptFacts, QueueAssumption DEF xTasksWaitingToReceive, xTasksWaitingToSend
    <2>4. CASE UNCHANGED kernelVars
      <3>1. SleepersStay BY <2>4, SameListsStay
      <3> QED BY <1>1, <1>3, <2>2, <2>3, <2>4, <3>1 DEF StayPut
    <2>5. ASSUME NEW e \in EventList, NEW yields \in BOOLEAN, xTaskRemoveFromEventList(e, yields)
          PROVE  /\ SleepersStay
                 /\ pxCurrentTCB' = pxCurrentTCB /\ xSchedulerRunning' = xSchedulerRunning
      <3>1. NobodySleeps BY <2>3, <2>5, xTaskRemoveFromEventList_Inv DEF QInv
      <3> QED BY <2>5, <3>1 DEF NobodySleeps, SleepersStay, xTaskRemoveFromEventList
    <2> QED BY <1>1, <1>3, <2>2, <2>3, <2>4, <2>5 DEF StayPut
  <1>4. CASE Tick
    <2>1. /\ UNCHANGED <<uxMessagesWaiting, lockVars, uxCriticalNesting>> /\ StayPut
          /\ xPortSysTickHandle \/ ResumeTick
          BY <1>4 DEF Tick, Unmasked, StayPut
    <2>2. pxCurrentTCB' = pxCurrentTCB /\ xSchedulerRunning' = xSchedulerRunning
          BY <2>1 DEF xPortSysTickHandle, ResumeTick
    <2>3. NobodySleeps BY <2>1, xPortSysTickHandle_Inv, ResumeTick_Inv DEF QInv
    <2> QED BY <1>1, <2>1, <2>2, <2>3 DEF NobodySleeps, SleepersStay
  <1>5. CASE Switch
    <2>1. /\ UNCHANGED <<uxMessagesWaiting, lockVars, frame, uxCriticalNesting, xSchedulerRunning>>
          /\ SV_ISR /\ InterruptsOn
          BY <1>5 DEF Switch, queueVars, Unmasked, SV_ISR
    <2>2. NobodySleeps BY <2>1, SV_ISR_Inv DEF QInv
    <2>3. pxCurrentTCB' = pxCurrentTCB \/ uxSchedulerSuspended = 0
          BY <2>1, SV_ISR_Inv, InterruptFacts DEF QInv
    <2>4. uxSchedulerSuspended = 0 => \A t \in Task : Stops(frame[t].pc)
          BY <2>1, InterruptFacts DEF QInv, Control, Self
    <2>5. ~HandlerStep \/ pxCurrentTCB' = pxCurrentTCB
          BY DEF HandlerStep, xQueueGenericSendFromISR, xQueueReceiveFromISR, FromISR,
                 xTaskRemoveFromEventList
    <2> QED BY <1>1, <2>1, <2>2, <2>3, <2>4, <2>5 DEF NobodySleeps, SleepersStay, StayPut
  <1>6. CASE Unblock
    <2>1. /\ UNCHANGED <<uxMessagesWaiting, lockVars, frame, uxCriticalNesting>>
          /\ TickUnblock \/ TickReturn \/ ResumeTickReturn \/ ResumePending \/ ResumePendingDone
          BY <1>6 DEF Unblock, queueVars, Unmasked
    <2>2. /\ xSchedulerRunning' = xSchedulerRunning
          /\ pxCurrentTCB' = pxCurrentTCB \/ section.at = "tick"
          BY <2>1 DEF TickUnblock, TickReturn, ResumeTickReturn, ResumePending, ResumePendingDone,
                      LeaveTickLoop
    <2>3. SleepersStay
      <3>1. CASE TickUnblock \/ TickReturn \/ ResumePending
            BY <2>1, <3>1, TickUnblock_Inv, TickReturn_Inv, ResumePending_Inv
            DEF QInv, NobodySleeps, SleepersStay
      <3>2. CASE ResumeTickReturn \/ ResumePendingDone
        <4>1. UNCHANGED <<pxDelayedTaskList, pxOverflowDelayedTaskList, xStateItemValue, eventVars>>
              BY <3>2 DEF ResumeTickReturn, ResumePendingDone, LeaveTickLoop
        <4> QED BY <4>1 DEF SleepersStay, Delayed, WaitingTasks
      <3> QED BY <2>1, <3>1, <3>2
    <2>4. section.at = "tick" => \A t \in Task : Stops(frame[t].pc)
          BY DEF QInv, Control, Self, KInv, SectionsAreInStep
    <2>5. section.at = "tick" => ~HandlerStep
          BY SectionFacts DEF HandlerStep, xQueueGenericSendFromISR, xQueueReceiveFromISR, InterruptsOn
    <2> QED BY <1>1, <2>1, <2>2, <2>3, <2>4, <2>5 DEF StayPut
  <1> QED BY <1>2, <1>3, <1>4, <1>5, <1>6 DEF SystemNext

(* What the steps of a call do to the locks and to the messages.            *)
LEMMA CallLocks ==
    ASSUME QInv, CallStep \/ Resumed
    PROVE  /\ \/ UNCHANGED cTxLock \/ prvLockQueue
              \/ /\ WakeReceivers /\ Self.pc = "wakeReceivers" /\ Self'.pc = "unlockRx"
                 /\ cTxLock' = [cTxLock EXCEPT ![Self.q] = queueUNLOCKED]
           /\ \/ UNCHANGED cRxLock \/ prvLockQueue
              \/ /\ WakeSenders /\ Self.pc = "wakeSenders" /\ Self'.pc = "resume"
                 /\ cRxLock' = [cRxLock EXCEPT ![Self.q] = queueUNLOCKED]
           /\ Self.pc = "wakeReceivers" /\ Self'.pc = "unlockRx" =>
                 cTxLock' = [cTxLock EXCEPT ![Self.q] = queueUNLOCKED]
           /\ Self.pc = "wakeSenders" /\ Self'.pc = "resume" =>
                 cRxLock' = [cRxLock EXCEPT ![Self.q] = queueUNLOCKED]
           /\ Self.pc = "lock" => prvLockQueue
           /\ prvLockQueue => Self.pc = "lock"
           /\ Self.pc # "try" => UNCHANGED uxMessagesWaiting
  <1>1. CASE WakeReceivers
    <2>1. Self.pc = "wakeReceivers" /\ UNCHANGED <<uxMessagesWaiting, cRxLock>>
          BY <1>1 DEF WakeReceivers, At
    <2>2. TaskRuns /\ xSchedulerRunning /\ Self \in Frame
          BY <1>1, OwnFacts DEF WakeReceivers, At
    <2>3. CASE UNCHANGED cTxLock /\ Becomes([Self EXCEPT !.cLock = @ - 1])
      <3>1. UNCHANGED <<pxCurrentTCB, xSchedulerRunning, xTickCount>>
            BY <1>1 DEF WakeReceivers, xTaskRemoveFromEventList
      <3>2. Self' = [Self EXCEPT !.cLock = @ - 1] BY <2>2, <2>3, <3>1, BecomesMove
      <3>3. Self'.pc = "wakeReceivers" BY <2>1, <2>2, <3>2 DEF Frame
      <3> QED BY <2>1, <2>3, <3>3 DEF prvLockQueue, At
    <2>4. CASE /\ cTxLock' = [cTxLock EXCEPT ![Self.q] = queueUNLOCKED]
               /\ Becomes([Self EXCEPT !.pc = "unlockRx", !.cLock = 0])
               /\ UNCHANGED kernelVars
      <3>1. Self' = [Self EXCEPT !.pc = "unlockRx", !.cLock = 0]
            BY <2>2, <2>4, BecomesMove
      <3>2. Self'.pc = "unlockRx" BY <2>2, <3>1 DEF Frame
      <3> QED BY <1>1, <2>1, <2>4, <3>2 DEF prvLockQueue, At
    <2> QED BY <1>1, <2>3, <2>4 DEF WakeReceivers
  <1>2. CASE WakeSenders
    <2>1. Self.pc = "wakeSenders" /\ UNCHANGED <<uxMessagesWaiting, cTxLock>>
          BY <1>2 DEF WakeSenders, At
    <2>2. TaskRuns /\ xSchedulerRunning /\ Self \in Frame
          BY <1>2, OwnFacts DEF WakeSenders, At
    <2>3. CASE UNCHANGED cRxLock /\ Becomes([Self EXCEPT !.cLock = @ - 1])
      <3>1. UNCHANGED <<pxCurrentTCB, xSchedulerRunning, xTickCount>>
            BY <1>2 DEF WakeSenders, xTaskRemoveFromEventList
      <3>2. Self' = [Self EXCEPT !.cLock = @ - 1] BY <2>2, <2>3, <3>1, BecomesMove
      <3>3. Self'.pc = "wakeSenders" BY <2>1, <2>2, <3>2 DEF Frame
      <3> QED BY <2>1, <2>3, <3>3 DEF prvLockQueue, At
    <2>4. CASE /\ cRxLock' = [cRxLock EXCEPT ![Self.q] = queueUNLOCKED]
               /\ Becomes([Self EXCEPT !.pc = "resume", !.cLock = 0])
               /\ UNCHANGED kernelVars
      <3>1. Self' = [Self EXCEPT !.pc = "resume", !.cLock = 0]
            BY <2>2, <2>4, BecomesMove
      <3>2. Self'.pc = "resume" BY <2>2, <3>1 DEF Frame
      <3> QED BY <1>2, <2>1, <2>4, <3>2 DEF prvLockQueue, At
    <2> QED BY <1>2, <2>3, <2>4 DEF WakeSenders
  <1>3. CASE prvLockQueue
    <2>1. Self.pc = "lock" /\ UNCHANGED uxMessagesWaiting BY <1>3 DEF prvLockQueue, At
    <2> QED BY <1>3, <2>1
  <1>4. CASE Resumed
    <2>1. UNCHANGED <<uxMessagesWaiting, lockVars>> /\ section.at = "ticks"
          BY <1>4 DEF Resumed, ResumeEnd
    <2>2. Self.pc = "resuming" BY <2>1 DEF QInv, Control, KInv, SectionsAreInStep
    <2> QED BY <2>1, <2>2 DEF prvLockQueue, At
  <1>5. CASE CallStep /\ ~WakeReceivers /\ ~WakeSenders /\ ~prvLockQueue
    <2>1. /\ UNCHANGED lockVars /\ (Self.pc # "try" => UNCHANGED uxMessagesWaiting)
          /\ Self.pc \notin {"wakeReceivers", "wakeSenders", "lock"}
          BY <1>5 DEF CallStep, TryStep, WaitStep, prvUnlockQueue, Commit, Notify, CountFirstTake,
                      NotAvailable, Suspend, xTaskCheckForTimeOut, Test, Inherit, Place, UnlockTx,
                      UnlockRx, Resume, portYIELD_WITHIN_API, Recheck, Disinherit, At
    <2> QED BY <1>5, <2>1
  <1> QED BY <1>1, <1>2, <1>3, <1>4, <1>5

(* Where the current task keeps its queue locked, each way.                 *)
TxLocked == {"check", "test", "inherit", "place", "unlockTx", "wakeReceivers"}
RxLocked == TxLocked \cup {"unlockRx", "wakeSenders"}

LockInv ==
    \A q \in QueueHandle :
        /\ cTxLock[q] >= queueUNLOCKED /\ cRxLock[q] >= queueUNLOCKED
        /\ cTxLock[q] # queueUNLOCKED <=> (xSchedulerRunning /\ Self.q = q /\ Self.pc \in TxLocked)
        /\ cRxLock[q] # queueUNLOCKED <=> (xSchedulerRunning /\ Self.q = q /\ Self.pc \in RxLocked)

(* Every step keeps the locks where they belong.                            *)
LEMMA LockStep == ASSUME QInv, LockInv, [QNext]_qvars PROVE LockInv'
  <1>1. /\ cRxLock \in [QueueHandle -> Int] /\ cTxLock \in [QueueHandle -> Int]
        BY DEF QInv, QTypeOK
  <1>2. CASE UNCHANGED qvars
    <2>1. UNCHANGED <<lockVars, pxCurrentTCB, frame, xSchedulerRunning>>
          BY <1>2 DEF qvars, vars, queueVars
    <2> QED BY <2>1 DEF LockInv, Self
  <1>3. CASE AppStep
    <2>1. /\ xSchedulerRunning /\ xSchedulerRunning' /\ Self = AppFrame
          /\ Self' = AppFrame \/ Self'.pc \in {"try", "notify"}
          /\ \/ UNCHANGED lockVars \/ xQueueGenericReset(Self'.q)
          BY <1>3, AppMoves DEF OwnMove
    <2>2. Self.pc \notin RxLocked /\ Self'.pc \notin RxLocked /\ TxLocked \subseteq RxLocked
          BY <2>1, FrameFacts DEF RxLocked, TxLocked
    <2>3. \A q \in QueueHandle : cTxLock[q] = queueUNLOCKED /\ cRxLock[q] = queueUNLOCKED
          BY <2>2 DEF LockInv
    <2>4. \A q \in QueueHandle : cTxLock'[q] = queueUNLOCKED /\ cRxLock'[q] = queueUNLOCKED
          BY <1>1, <2>1, <2>3 DEF xQueueGenericReset, EmptyQueue
    <2> QED BY <2>2, <2>4 DEF LockInv, queueUNLOCKED
  <1>4. CASE CallStep \/ Resumed
    <2>1. /\ xSchedulerRunning /\ xSchedulerRunning' /\ Self \in Frame /\ FrameFits(Self)
          /\ \/ Self'.q = Self.q /\ Moves(Self, Self')
             \/ Self'.pc = "app" /\ Self.pc \notin RxLocked \cup {"lock"}
      <3>1. OwnMove /\ (GoesOn(Self, Self') \/ Returns(Self, Self'))
            BY <1>4, TryMoves, WaitMoves, ResumedMoves DEF CallStep
      <3> QED BY <3>1, FrameFacts
              DEF OwnMove, GoesOn, Returns, RxLocked, TxLocked, QInv, QTypeOK, FramesFit, Self
    <2>2. /\ \/ UNCHANGED cTxLock \/ prvLockQueue
             \/ /\ Self.pc = "wakeReceivers" /\ Self'.pc = "unlockRx"
                /\ cTxLock' = [cTxLock EXCEPT ![Self.q] = queueUNLOCKED]
          /\ \/ UNCHANGED cRxLock \/ prvLockQueue
             \/ /\ Self.pc = "wakeSenders" /\ Self'.pc = "resume"
                /\ cRxLock' = [cRxLock EXCEPT ![Self.q] = queueUNLOCKED]
          /\ Self.pc = "wakeReceivers" /\ Self'.pc = "unlockRx" =>
                cTxLock' = [cTxLock EXCEPT ![Self.q] = queueUNLOCKED]
          /\ Self.pc = "wakeSenders" /\ Self'.pc = "resume" =>
                cRxLock' = [cRxLock EXCEPT ![Self.q] = queueUNLOCKED]
          /\ Self.pc = "lock" <=> prvLockQueue
          BY <1>4, CallLocks
    <2>3. CASE prvLockQueue
      <3>1. /\ Self.pc = "lock" /\ Self'.pc = "check" /\ Self'.q = Self.q /\ Self.q \in QueueHandle
            BY <2>1, <2>2, <2>3 DEF Moves, FrameFits, RxLocked, TxLocked
      <3>2. /\ cRxLock' = [cRxLock EXCEPT ![Self.q] =
                              IF @ = queueUNLOCKED THEN queueLOCKED_UNMODIFIED ELSE @]
            /\ cTxLock' = [cTxLock EXCEPT ![Self.q] =
                              IF @ = queueUNLOCKED THEN queueLOCKED_UNMODIFIED ELSE @]
            BY <2>3 DEF prvLockQueue
      <3>3. \A q \in QueueHandle : cTxLock[q] = queueUNLOCKED /\ cRxLock[q] = queueUNLOCKED
            BY <3>1 DEF LockInv, RxLocked, TxLocked
      <3>4. \A q \in QueueHandle :
                /\ cTxLock'[q] = IF q = Self.q THEN 0 ELSE queueUNLOCKED
                /\ cRxLock'[q] = IF q = Self.q THEN 0 ELSE queueUNLOCKED
            BY <1>1, <3>1, <3>2, <3>3 DEF queueLOCKED_UNMODIFIED
      <3> QED BY <2>1, <3>1, <3>4 DEF LockInv, TxLocked, RxLocked, queueUNLOCKED
    <2>4. CASE ~prvLockQueue
      <3> SUFFICES ASSUME NEW q \in QueueHandle
                   PROVE  /\ cTxLock'[q] >= queueUNLOCKED /\ cRxLock'[q] >= queueUNLOCKED
                          /\ cTxLock'[q] # queueUNLOCKED <=> (Self'.q = q /\ Self'.pc \in TxLocked)
                          /\ cRxLock'[q] # queueUNLOCKED <=> (Self'.q = q /\ Self'.pc \in RxLocked)
            BY <2>1 DEF LockInv
      <3>1. /\ cTxLock[q] \in Int /\ cRxLock[q] \in Int
            /\ cTxLock[q] >= queueUNLOCKED /\ cRxLock[q] >= queueUNLOCKED
            /\ cTxLock[q] # queueUNLOCKED <=> (Self.q = q /\ Self.pc \in TxLocked)
            /\ cRxLock[q] # queueUNLOCKED <=> (Self.q = q /\ Self.pc \in RxLocked)
            BY <1>1, <2>1 DEF LockInv
      <3>2. Self.pc # "lock" BY <2>2, <2>4
      <3>3. cTxLock'[q] >= queueUNLOCKED
            /\ (cTxLock'[q] # queueUNLOCKED <=> (Self'.q = q /\ Self'.pc \in TxLocked))
        <4>1. CASE Self.pc = "wakeReceivers" /\ Self'.pc = "unlockRx"
          <5>1. /\ cTxLock' = [cTxLock EXCEPT ![Self.q] = queueUNLOCKED] BY <2>2, <4>1
          <5>2. cTxLock'[q] = queueUNLOCKED
                BY <1>1, <3>1, <4>1, <5>1 DEF queueUNLOCKED
          <5> QED BY <4>1, <5>2 DEF TxLocked, queueUNLOCKED
        <4>2. CASE ~(Self.pc = "wakeReceivers" /\ Self'.pc = "unlockRx")
          <5>1. cTxLock' = cTxLock BY <2>2, <2>4, <4>2
          <5>2. CASE Self'.pc = "app" /\ Self.pc \notin RxLocked
                BY <3>1, <5>1, <5>2 DEF TxLocked, RxLocked
          <5>3. CASE Self'.q = Self.q /\ Moves(Self, Self')
            <6>1. Self'.pc \in TxLocked <=> Self.pc \in TxLocked
                  BY <3>2, <4>2, <5>3 DEF TxLocked, Moves
            <6> QED BY <3>1, <5>1, <5>3, <6>1
          <5> QED BY <2>1, <5>2, <5>3
        <4> QED BY <4>1, <4>2
      <3>4. cRxLock'[q] >= queueUNLOCKED
            /\ (cRxLock'[q] # queueUNLOCKED <=> (Self'.q = q /\ Self'.pc \in RxLocked))
        <4>1. CASE Self.pc = "wakeSenders" /\ Self'.pc = "resume"
          <5>1. /\ cRxLock' = [cRxLock EXCEPT ![Self.q] = queueUNLOCKED] BY <2>2, <4>1
          <5>2. cRxLock'[q] = queueUNLOCKED
                BY <1>1, <3>1, <4>1, <5>1 DEF queueUNLOCKED
          <5> QED BY <4>1, <5>2 DEF TxLocked, RxLocked, queueUNLOCKED
        <4>2. CASE ~(Self.pc = "wakeSenders" /\ Self'.pc = "resume")
          <5>1. cRxLock' = cRxLock BY <2>2, <2>4, <4>2
          <5>2. CASE Self'.pc = "app" /\ Self.pc \notin RxLocked
                BY <3>1, <5>1, <5>2 DEF TxLocked, RxLocked
          <5>3. CASE Self'.q = Self.q /\ Moves(Self, Self')
            <6>1. Self'.pc \in RxLocked <=> Self.pc \in RxLocked
                  BY <3>2, <4>2, <5>3 DEF TxLocked, RxLocked, Moves
            <6> QED BY <3>1, <5>1, <5>3, <6>1
          <5> QED BY <2>1, <5>2, <5>3
        <4> QED BY <4>1, <4>2
      <3> QED BY <3>3, <3>4
    <2> QED BY <2>3, <2>4
  <1>5. CASE SystemNext
    <2>1. /\ StayPut
          /\ pxCurrentTCB' = pxCurrentTCB \/ (~HandlerStep /\ \A t \in Task : Stops(frame[t].pc))
          /\ xSchedulerRunning => pxCurrentTCB \in Task /\ xSchedulerRunning'
          /\ ~HandlerStep => UNCHANGED <<uxMessagesWaiting, lockVars>>
          BY <1>5, SystemMoves
    <2>2. \A t \in Task : frame'[t].pc = frame[t].pc /\ frame'[t].q = frame[t].q
          BY <2>1, StayPutFacts
    <2>3. QInv' BY QNextStep
    <2>4. xSchedulerRunning' => pxCurrentTCB' \in Task BY <2>3 DEF QInv, KInv, SectionsAreInStep
    <2>5. CASE ~xSchedulerRunning \/ pxCurrentTCB' # pxCurrentTCB
      <3>1. ~HandlerStep
            BY <2>1, <2>5
            DEF HandlerStep, xQueueGenericSendFromISR, xQueueReceiveFromISR, InterruptsOn
      <3>2. \A t \in Task : Stops(frame[t].pc)
            BY <2>1, <2>5 DEF QInv, Control, Stops, Preemptible
      <3>3. /\ xSchedulerRunning => Stops(Self.pc)
            /\ xSchedulerRunning' => Stops(Self'.pc)
            BY <2>1, <2>2, <2>4, <3>2 DEF Self
      <3>4. /\ TxLocked \subseteq RxLocked
            /\ Stops(Self.pc) => Self.pc \notin RxLocked
            /\ Stops(Self'.pc) => Self'.pc \notin RxLocked
            BY DEF Stops, Preemptible, RxLocked, TxLocked
      <3>5. UNCHANGED lockVars BY <2>1, <3>1
      <3> QED BY <3>3, <3>4, <3>5 DEF LockInv
    <2>6. CASE xSchedulerRunning /\ pxCurrentTCB' = pxCurrentTCB
      <3>1. Self'.pc = Self.pc /\ Self'.q = Self.q /\ xSchedulerRunning'
            BY <2>1, <2>2, <2>6 DEF Self
      <3>2. CASE UNCHANGED lockVars BY <2>6, <3>1, <3>2 DEF LockInv
      <3>3. CASE HandlerStep
        <4>1. PICK q \in QueueHandle : xQueueGenericSendFromISR(q) \/ xQueueReceiveFromISR(q)
              BY <3>3 DEF HandlerStep
        <4>2. /\ \/ UNCHANGED cTxLock
                 \/ cTxLock[q] # queueUNLOCKED /\ cTxLock' = [cTxLock EXCEPT ![q] = @ + 1]
              /\ \/ UNCHANGED cRxLock
                 \/ cRxLock[q] # queueUNLOCKED /\ cRxLock' = [cRxLock EXCEPT ![q] = @ + 1]
              BY <4>1 DEF xQueueGenericSendFromISR, xQueueReceiveFromISR, FromISR
        <4>3. \A r \in QueueHandle :
                  /\ cTxLock[r] >= -1 => cTxLock'[r] >= -1 /\ (cTxLock'[r] = -1 <=> cTxLock[r] = -1)
                  /\ cRxLock[r] >= -1 => cRxLock'[r] >= -1 /\ (cRxLock'[r] = -1 <=> cRxLock[r] = -1)
              BY <1>1, <4>2 DEF queueUNLOCKED
        <4> QED BY <2>6, <3>1, <4>3 DEF LockInv, queueUNLOCKED
      <3> QED BY <2>1, <3>2, <3>3
    <2> QED BY <2>5, <2>6
  <1> QED BY <1>2, <1>3, <1>4, <1>5 DEF QNext, SystemNext

(* The locks of the queues, always.                                         *)
LEMMA LockInvHolds == QSpec => []LockInv
  <1>1. QInit => LockInv
    <2> SUFFICES ASSUME QInit PROVE LockInv OBVIOUS
    <2>1. ~xSchedulerRunning BY DEF QInit, Init
    <2> QED BY <2>1 DEF LockInv, QInit, queueUNLOCKED
  <1>2. QInv /\ LockInv /\ [QNext]_qvars => LockInv' BY LockStep
  <1>3. QSpec => []QInv BY QInvHolds
  <1> QED BY <1>1, <1>2, <1>3, PTL DEF QSpec

(* A queue is locked only while the scheduler is suspended by the task that *)
(* waits for that queue, so the unlock of one task never cancels the lock of*)
(* another, whatever interrupts and switches come in between.               *)
THEOREM QueueLocksAreShort == QSpec => []LocksAreShort
  <1>1. QInv /\ LockInv => LocksAreShort
    <2> SUFFICES ASSUME QInv, LockInv, NEW q \in QueueHandle,
                        cRxLock[q] # queueUNLOCKED \/ cTxLock[q] # queueUNLOCKED
                 PROVE  uxSchedulerSuspended > 0 /\ Self.q = q
          BY DEF LocksAreShort
    <2>1. xSchedulerRunning /\ Self.q = q /\ Self.pc \in RxLocked BY DEF LockInv, RxLocked
    <2> QED BY <2>1 DEF QInv, Control, RxLocked, TxLocked, Suspended, Looking, Unlocking
  <1>2. (QSpec => []QInv) /\ (QSpec => []LockInv) BY QInvHolds, LockInvHolds
  <1> QED BY <1>1, <1>2, PTL
-----------------------------------------------------------------------------
(* The ticks since a call began to count, as long as the count wrapped at   *)
(* most once, and those that it may still wait.                             *)
Elapsed(f, now) == now - f.xTimeOnEntering + (IF f.xOverflowed THEN TickMod ELSE 0)
Left(f, now) ==
    IF Elapsed(f, now) >= f.xTicksToWait THEN 0 ELSE f.xTicksToWait - Elapsed(f, now)

ClockFits(f, now) ==
    /\ f.xEntryTimeSet => Elapsed(f, now) >= 0 /\ f.due \in {LongAgo, Left(f, now)}
    /\ ~f.xEntryTimeSet => ~f.xOverflowed
    /\ f.outcome = "timeout" => f.due <= 0
    /\ f.pc \in {"test", "inherit", "place"} => ~f.xOverflowed /\ f.xTimeOnEntering = now

TimeInv == \A t \in Task : ClockFits(frame[t], xTickCount)

(* Differences of tick counts, modulo the width.                            *)
LEMMA DifferenceFacts ==
    ASSUME NEW a \in TickType, NEW b \in TickType
    PROVE  /\ TickType \subseteq Nat /\ (a - b) % TickMod \in TickType
           /\ a >= b => (a - b) % TickMod = a - b
           /\ a < b => (a - b) % TickMod = a - b + TickMod
           /\ (a + 1) % TickMod = IF a = TickMod - 1 THEN 0 ELSE a + 1
  BY KernelAssumption DEF TickType

(* When a step of the system counts a tick.                                 *)
LEMMA SystemTime ==
    ASSUME QInv, SystemNext
    PROVE  \/ UNCHANGED <<xTickCount, frame>>
           \/ ~xSchedulerRunning /\ UNCHANGED frame
           \/ /\ xTickCount' = (xTickCount + 1) % TickMod /\ UNCHANGED xStateItemValue
              /\ frame' = [t \in Task |-> Waited(frame[t])]
              /\ Self.pc \notin Suspended /\ section.at \notin {"tick", "resumeTick"}
              /\ pxCurrentTCB \in Task
  <1>1. CASE Boot BY <1>1 DEF Boot, queueVars
  <1>2. CASE HandlerStep
        BY <1>2 DEF HandlerStep, xQueueGenericSendFromISR, xQueueReceiveFromISR, FromISR,
                    xTaskRemoveFromEventList
  <1>3. CASE Switch BY <1>3 DEF Switch, SV_ISR, queueVars
  <1>4. CASE Unblock
        BY <1>4 DEF Unblock, TickUnblock, TickReturn, ResumeTickReturn, ResumePending,
                    ResumePendingDone, LeaveTickLoop, queueVars
  <1>5. CASE Tick
    <2>1. CASE xTickCount' = xTickCount BY <1>5, <2>1 DEF Tick
    <2>2. CASE xTickCount' # xTickCount
      <3>1. frame' = [t \in Task |-> Waited(frame[t])] BY <1>5, <2>2 DEF Tick
      <3>2. CASE xPortSysTickHandle
        <4>1. InterruptsOn /\ ~(uxSchedulerSuspended > 0) /\ CountTick
              BY <2>2, <3>2 DEF xPortSysTickHandle
        <4>2. Stops(Self.pc) /\ section.at = "none" /\ pxCurrentTCB \in Task
              BY <4>1, InterruptFacts
        <4>3. Self.pc \notin Suspended BY <4>2 DEF Stops, Preemptible, Suspended, Looking, Unlocking
        <4> QED BY <3>1, <4>1, <4>2, <4>3 DEF CountTick
      <3>3. CASE ResumeTick
        <4>1. CountTick /\ section.at = "ticks" BY <3>3 DEF ResumeTick
        <4>2. Self.pc = "resuming" /\ pxCurrentTCB \in Task
              BY <4>1 DEF QInv, Control, KInv, SectionsAreInStep
        <4> QED BY <3>1, <4>1, <4>2 DEF CountTick, Suspended, Looking, Unlocking
      <3> QED BY <1>5, <3>2, <3>3 DEF Tick
    <2> QED BY <2>1, <2>2
  <1> QED BY <1>1, <1>2, <1>3, <1>4, <1>5 DEF SystemNext

(* A tick is counted.                                                       *)
LEMMA WaitedClock ==
    ASSUME NEW f \in Frame, FrameFits(f), NEW now \in TickType, ClockFits(f, now),
           xTickCount' = (now + 1) % TickMod, f.pc \notin Suspended
    PROVE  ClockFits(Waited(f), xTickCount')
  <1> DEFINE g == Waited(f)
             n == xTickCount'
  <1>1. g.pc = f.pc /\ g.outcome = f.outcome BY WaitedFacts
  <1>2. f.pc \notin {"test", "inherit", "place"} BY DEF Suspended, Looking
  <1>3. CASE ~f.xEntryTimeSet
    <2>1. g = f BY <1>3 DEF Waited
    <2> QED BY <1>2, <1>3, <2>1 DEF ClockFits
  <1>4. CASE f.xEntryTimeSet
    <2>1. /\ g.xTicksToWait = f.xTicksToWait /\ g.xTimeOnEntering = f.xTimeOnEntering
          /\ g.xOverflowed = (f.xOverflowed \/ n = 0) /\ g.xEntryTimeSet
          /\ g.due = IF f.xOverflowed /\ n = 0 THEN LongAgo
                     ELSE IF f.due > 0 THEN f.due - 1 ELSE f.due
          BY <1>4 DEF Waited, Frame
    <2> HIDE DEF g
    <2>2. /\ f.xTicksToWait \in TickType /\ f.xTimeOnEntering \in TickType /\ f.due \in Int
          /\ f.xOverflowed \in BOOLEAN
          BY DEF Frame
    <2>3. n = IF now = TickMod - 1 THEN 0 ELSE now + 1 BY DifferenceFacts
    <2>4. /\ TickMod \in Nat /\ now \in Int /\ f.xTicksToWait \in Nat /\ f.xTimeOnEntering \in Nat
          /\ f.xTimeOnEntering <= TickMod - 1 /\ now >= 0
          BY <2>2, KernelAssumption DEF TickType
    <2> HIDE DEF n
    <2>5. /\ Elapsed(f, now) \in Int /\ Elapsed(f, now) >= 0
          /\ f.due \in {LongAgo, Left(f, now)}
          BY <1>4, <2>2, <2>4 DEF ClockFits, Elapsed
    <2>6. CASE f.xOverflowed /\ n = 0
      <3>1. g.due = LongAgo /\ g.xOverflowed BY <2>1, <2>6
      <3>2. Elapsed(g, n) >= 0 BY <2>1, <2>4, <2>6, <3>1 DEF Elapsed
      <3>3. g.due <= 0 BY <3>1 DEF LongAgo
      <3>4. ClockFits(g, n) BY <1>1, <1>2, <2>1, <3>1, <3>2, <3>3 DEF ClockFits
      <3> QED BY <3>4 DEF g, n
    <2>7. CASE ~(f.xOverflowed /\ n = 0)
      <3>1. Elapsed(g, n) = Elapsed(f, now) + 1
        <4>1. CASE n = 0
          <5>1. g.xOverflowed /\ ~f.xOverflowed BY <2>1, <2>7, <4>1
          <5>2. now = TickMod - 1 BY <2>3, <2>4, <4>1
          <5> QED BY <2>1, <2>4, <4>1, <5>1, <5>2 DEF Elapsed
        <4>2. CASE n # 0
          <5>1. (g.xOverflowed <=> f.xOverflowed) /\ n = now + 1 BY <2>1, <2>2, <2>3, <4>2
          <5> QED BY <2>1, <2>4, <5>1 DEF Elapsed
        <4> QED BY <4>1, <4>2
      <3>2. g.due = IF f.due > 0 THEN f.due - 1 ELSE f.due BY <2>1, <2>7
      <3> DEFINE E == Elapsed(g, n)
                 T == f.xTicksToWait
                 F == Elapsed(f, now)
      <3>3. /\ E = F + 1 /\ F \in Int /\ F >= 0 /\ T \in Int /\ T >= 0 /\ f.due \in Int
            /\ f.due = LongAgo \/ f.due = IF F >= T THEN 0 ELSE T - F
            BY <2>2, <2>4, <2>5, <3>1 DEF Left
      <3>4. Left(g, n) = IF E >= T THEN 0 ELSE T - E BY <2>1 DEF Left
      <3> HIDE DEF E, T, F
      <3>5. E >= 0 /\ (g.due = LongAgo \/ g.due = IF E >= T THEN 0 ELSE T - E)
            BY <3>2, <3>3 DEF LongAgo
      <3>6. f.outcome = "timeout" => g.due <= 0 BY <3>2, <3>3 DEF ClockFits
      <3>7. Elapsed(g, n) >= 0 BY <3>5 DEF E
      <3>8. ClockFits(g, n) BY <1>1, <1>2, <2>1, <3>4, <3>5, <3>6, <3>7 DEF ClockFits
      <3> QED BY <3>8 DEF g, n
    <2> QED BY <2>6, <2>7
  <1> QED BY <1>3, <1>4

(* A step that leaves the clock alone.                                      *)
LEMMA SameClockFits ==
    ASSUME NEW f, NEW g, NEW now, SameClock(f, g), ClockFits(f, now),
           g.outcome = "timeout" => f.outcome = "timeout",
           g.pc \in {"test", "inherit", "place"} => f.pc \in {"test", "inherit", "place"}
    PROVE  ClockFits(g, now)
  <1>1. Elapsed(g, now) = Elapsed(f, now) BY DEF SameClock, Elapsed
  <1>2. Left(g, now) = Left(f, now) BY <1>1 DEF SameClock, Left
  <1> QED BY <1>1, <1>2 DEF SameClock, ClockFits

(* Of a wait that begins, all ticks are left.                               *)
LEMMA NotAvailableClock ==
    ASSUME QInv, NotAvailable, ClockFits(Self, xTickCount)
    PROVE  ClockFits(Self', xTickCount)
  <1>1. TaskRuns /\ Self.pc = "try" /\ UNCHANGED kernelVars BY DEF NotAvailable, At
  <1>2. /\ Self \in Frame /\ FrameFits(Self) /\ xTickCount \in TickType /\ xSchedulerRunning
        BY <1>1, OwnFacts DEF TypeOK
  <1>3. PICK g : /\ Becomes(g)
                 /\ \/ g = AppFrame
                    \/ g = [Self EXCEPT !.pc = "suspend"]
                    \/ /\ g = [Self EXCEPT !.pc = "suspend", !.xEntryTimeSet = TRUE,
                                           !.xTimeOnEntering = xTickCount,
                                           !.due = Self.xTicksToWait]
                       /\ ~Self.xEntryTimeSet
        BY DEF NotAvailable
  <1>4. Self' = g BY <1>1, <1>2, <1>3, BecomesMove
  <1>5. Self.outcome = "none" BY <1>1, <1>2 DEF FrameFits, Unlocking
  <1>6. CASE g = AppFrame BY <1>4, <1>6 DEF ClockFits, AppFrame
  <1>7. CASE g = [Self EXCEPT !.pc = "suspend"]
    <2>1. SameClock(Self, g) /\ g.outcome = "none" /\ g.pc = "suspend"
          BY <1>2, <1>5, <1>7 DEF SameClock, Frame
    <2> QED BY <1>4, <2>1, SameClockFits
  <1>8. CASE /\ g = [Self EXCEPT !.pc = "suspend", !.xEntryTimeSet = TRUE,
                                 !.xTimeOnEntering = xTickCount, !.due = Self.xTicksToWait]
             /\ ~Self.xEntryTimeSet
    <2>1. /\ g.xTimeOnEntering = xTickCount /\ g.due = Self.xTicksToWait /\ g.xEntryTimeSet
          /\ g.xTicksToWait = Self.xTicksToWait /\ g.xOverflowed = Self.xOverflowed
          /\ g.outcome = "none" /\ g.pc = "suspend"
          BY <1>2, <1>5, <1>8 DEF Frame
    <2>2. ~g.xOverflowed BY <1>8, <2>1 DEF ClockFits
    <2>3. xTickCount \in Int /\ Self.xTicksToWait \in Nat
          BY <1>2, KernelAssumption DEF TickType, Frame
    <2>4. Elapsed(g, xTickCount) = 0 BY <2>1, <2>2, <2>3 DEF Elapsed
    <2>5. Left(g, xTickCount) = g.due BY <2>1, <2>3, <2>4 DEF Left
    <2>6. ClockFits(g, xTickCount) BY <2>1, <2>4, <2>5 DEF ClockFits
    <2> QED BY <1>4, <2>6
  <1> QED BY <1>3, <1>6, <1>7, <1>8

(* xTaskCheckForTimeOut measures what has elapsed, over one wrap of the     *)
(* count, and takes two for a timeout.                                      *)
LEMMA CheckClock ==
    ASSUME QInv, xTaskCheckForTimeOut, ClockFits(Self, xTickCount)
    PROVE  ClockFits(Self', xTickCount)
  <1>1. TaskRuns /\ Self.pc = "check" /\ UNCHANGED kernelVars BY DEF xTaskCheckForTimeOut, At
  <1>2. /\ Self \in Frame /\ FrameFits(Self) /\ xTickCount \in TickType /\ xSchedulerRunning
        BY <1>1, OwnFacts DEF TypeOK
  <1>3. Self.xEntryTimeSet BY <1>1, <1>2 DEF FrameFits, Suspended, Looking
  <1> DEFINE E == Elapsed(Self, xTickCount)
             T == Self.xTicksToWait
             n == xTickCount
             b == Self.xTimeOnEntering
  <1>4. /\ n \in Nat /\ b \in Nat /\ T \in Nat /\ TickMod \in Nat /\ T < TickMod /\ b < TickMod
        /\ n < TickMod /\ n \in TickType /\ b \in TickType /\ T \in TickType
        /\ Self.due \in Int
        BY <1>2, KernelAssumption DEF TickType, Frame
  <1>5. /\ E = n - b + (IF Self.xOverflowed THEN TickMod ELSE 0)
        /\ E >= 0 /\ (Self.due = LongAgo \/ Self.due = IF E >= T THEN 0 ELSE T - E)
        BY <1>3 DEF ClockFits, Elapsed, Left
  <1>6. xElapsedTime = (n - b) % TickMod BY DEF xElapsedTime
  <1> HIDE DEF E, T, n, b
  <1>9. xElapsedTime = IF n >= b THEN n - b ELSE n - b + TickMod
    <2>1. n \in TickType /\ b \in TickType BY <1>4
    <2>2. /\ n >= b => (n - b) % TickMod = n - b
          /\ n < b => (n - b) % TickMod = n - b + TickMod
          BY <2>1, DifferenceFacts, Zenon
    <2>3. n \in Int /\ b \in Int BY <1>4
    <2> QED BY <1>6, <2>2, <2>3
  <1>7. CASE Self.xOverflowed /\ n >= b
    <2>1. E >= T BY <1>4, <1>5, <1>7
    <2>2. Self.due <= 0 BY <1>4, <1>5, <2>1 DEF LongAgo
    <2>3. Becomes(TimedOut) BY <1>7 DEF xTaskCheckForTimeOut, n, b
    <2>4. Self' = TimedOut BY <1>1, <1>2, <2>3, BecomesMove
    <2>5. SameClock(Self, Self') /\ Self'.pc = "unlockTx" BY <1>2, <2>4 DEF TimedOut, SameClock, Frame
    <2>6. Elapsed(Self', xTickCount) = E /\ Left(Self', xTickCount) = Left(Self, xTickCount)
          BY <2>5 DEF SameClock, Elapsed, Left, E
    <2> QED BY <1>3, <2>2, <2>5, <2>6 DEF ClockFits, SameClock, E
  <1>8. CASE ~(Self.xOverflowed /\ n >= b)
    <2>1. xElapsedTime = E BY <1>4, <1>5, <1>8, <1>9
    <2>2. TimeIsLeft <=> E < T BY <2>1 DEF TimeIsLeft, T
    <2>3. CASE E < T
      <3>1. Becomes(StillWaits) BY <1>8, <2>2, <2>3 DEF xTaskCheckForTimeOut, n, b
      <3>2. Self' = StillWaits BY <1>1, <1>2, <3>1, BecomesMove
      <3>3. /\ Self'.pc = "test" /\ Self'.xTicksToWait = T - E /\ Self'.xTimeOnEntering = n
            /\ ~Self'.xOverflowed /\ Self'.due = Self.due /\ Self'.outcome = Self.outcome
            /\ Self'.xEntryTimeSet
            BY <1>2, <1>3, <2>1, <3>2 DEF StillWaits, Frame, T, n
      <3>4. Self.outcome = "none" BY <1>1, <1>2 DEF FrameFits, Unlocking
      <3>5. Elapsed(Self', xTickCount) = 0 BY <1>4, <3>3 DEF Elapsed, n
      <3>6. Left(Self', xTickCount) = T - E
        <4>1. T - E > 0 /\ T - E \in Int BY <1>4, <1>5, <2>3
        <4> QED BY <3>3, <3>5, <4>1 DEF Left
      <3>7. Self.due = LongAgo \/ Self.due = T - E BY <1>4, <1>5, <2>3
      <3> QED BY <3>3, <3>4, <3>5, <3>6, <3>7 DEF ClockFits, n
    <2>4. CASE ~(E < T)
      <3>1. E >= T /\ E \in Int BY <1>4, <1>5, <2>4
      <3>2. Self.due = LongAgo \/ Self.due = 0 BY <1>4, <1>5, <3>1
      <3>3. Becomes([TimedOut EXCEPT !.xTicksToWait = 0])
            BY <1>8, <2>2, <2>4 DEF xTaskCheckForTimeOut, n, b
      <3>4. Self' = [TimedOut EXCEPT !.xTicksToWait = 0] BY <1>1, <1>2, <3>3, BecomesMove
      <3>5. /\ Self'.pc = "unlockTx" /\ Self'.xTicksToWait = 0 /\ Self'.due = Self.due
            /\ Self'.xTimeOnEntering = Self.xTimeOnEntering /\ Self'.xEntryTimeSet
            /\ Self'.xOverflowed = Self.xOverflowed
            BY <1>2, <1>3, <3>4 DEF TimedOut, Frame
      <3>6. Elapsed(Self', xTickCount) = E BY <3>5 DEF Elapsed, E
      <3>7. Left(Self', xTickCount) = 0 BY <1>5, <3>5, <3>6 DEF Left
      <3>8. Self'.due <= 0 BY <3>2, <3>5 DEF LongAgo
      <3> QED BY <1>5, <3>2, <3>5, <3>6, <3>7, <3>8 DEF ClockFits
    <2> QED BY <2>3, <2>4
  <1> QED BY <1>7, <1>8

(* Which step a place in a call takes, as far as it matters below.          *)
LEMMA WhichStep ==
    ASSUME QInv, CallStep \/ Resumed
    PROVE  /\ Self.pc = "check" => xTaskCheckForTimeOut
           /\ Self.pc = "try" => Commit \/ NotAvailable
           /\ Self.pc = "test" => Test
           /\ Self.pc = "place" => Place
           /\ Self.pc = "notify" => Notify
           /\ Self.pc = "wakeReceivers" => WakeReceivers
           /\ Self.pc = "wakeSenders" => WakeSenders
           /\ Self.pc = "unlockTx" => UnlockTx
           /\ Self.pc = "unlockRx" => UnlockRx
           /\ Resumed <=> Self.pc = "resuming"
           /\ Commit => Self.pc = "try" /\ Self'.pc = "notify"
  <1>1. Resumed => Self.pc = "resuming"
    <2>1. Resumed => section.at = "ticks" BY DEF Resumed, ResumeEnd
    <2> QED BY <2>1 DEF QInv, Control, KInv, SectionsAreInStep
  <1>2. Commit => Self.pc = "try" /\ Self'.pc = "notify"
    <2> SUFFICES ASSUME Commit PROVE Self.pc = "try" /\ Self'.pc = "notify" OBVIOUS
    <2>1. /\ TaskRuns /\ Self.pc = "try" /\ UNCHANGED <<pxCurrentTCB, xSchedulerRunning, xTickCount>>
          BY DEF Commit, At, xTaskPriorityDisinherit, pvTaskIncrementMutexHeldCount
    <2>2. PICK y : Becomes([Self EXCEPT !.pc = "notify", !.xYieldRequired = y]) BY DEF Commit
    <2>3. xSchedulerRunning /\ Self \in Frame BY <2>1, OwnFacts
    <2>4. Self' = [Self EXCEPT !.pc = "notify", !.xYieldRequired = y]
          BY <2>1, <2>2, <2>3, BecomesMove
    <2> QED BY <2>1, <2>3, <2>4 DEF Frame
  <1>3. CASE Resumed BY <1>1, <1>2, <1>3
  <1>4. CASE CallStep
        BY <1>1, <1>2, <1>4
        DEF CallStep, TryStep, WaitStep, prvUnlockQueue, Commit, Notify, CountFirstTake,
            NotAvailable, Suspend, prvLockQueue, xTaskCheckForTimeOut, Test, Inherit, Place,
            UnlockTx, UnlockRx, WakeReceivers, WakeSenders, Resume, portYIELD_WITHIN_API,
            Recheck, Disinherit, At
  <1> QED BY <1>3, <1>4

(* Every step keeps the clocks of the calls.                                *)
LEMMA TimeStep == ASSUME QInv, TimeInv, [QNext]_qvars PROVE TimeInv'
  <1>1. ASSUME NEW t \in Task PROVE frame[t] \in Frame /\ FrameFits(frame[t])
        BY DEF QInv, QTypeOK, FramesFit
  <1>2. CASE UNCHANGED qvars
    <2>1. UNCHANGED <<frame, xTickCount>> BY <1>2 DEF qvars, vars, queueVars
    <2> QED BY <2>1 DEF TimeInv
  <1>3. ASSUME OwnMove, ClockFits(Self', xTickCount) PROVE TimeInv'
    <2>1. \A t \in Task : ClockFits(frame'[t], xTickCount) BY <1>3 DEF OwnMove, TimeInv
    <2> QED BY <1>3, <2>1 DEF TimeInv, OwnMove
  <1>4. CASE AppStep
    <2>1. /\ OwnMove
          /\ \/ Self' = AppFrame
             \/ /\ Self'.pc \in {"try", "notify"} /\ ~Self'.xEntryTimeSet
                /\ ~Self'.xOverflowed /\ Self'.outcome = "none"
          BY <1>4, AppMoves
    <2>2. CASE Self' = AppFrame
      <3>1. ClockFits(AppFrame, xTickCount) BY DEF ClockFits, AppFrame
      <3> QED BY <1>3, <2>1, <2>2, <3>1
    <2>3. CASE Self' # AppFrame
      <3>1. ClockFits(Self', xTickCount) BY <2>1, <2>3 DEF ClockFits
      <3> QED BY <1>3, <2>1, <3>1
    <2> QED BY <2>2, <2>3
  <1>5. CASE CallStep \/ Resumed
    <2>1. OwnMove /\ (GoesOn(Self, Self') \/ Returns(Self, Self'))
          BY <1>5, TryMoves, WaitMoves, ResumedMoves DEF CallStep
    <2>2. ClockFits(Self, xTickCount) BY <2>1 DEF OwnMove, TimeInv, Self
    <2>3. CASE NotAvailable BY <1>3, <2>1, <2>2, <2>3, NotAvailableClock
    <2>4. CASE xTaskCheckForTimeOut BY <1>3, <2>1, <2>2, <2>4, CheckClock
    <2>5. CASE Returns(Self, Self')
      <3>1. ClockFits(AppFrame, xTickCount) BY DEF ClockFits, AppFrame
      <3> QED BY <1>3, <2>1, <2>5, <3>1 DEF Returns
    <2>6. CASE GoesOn(Self, Self') /\ ~NotAvailable /\ ~xTaskCheckForTimeOut
      <3>1. Self.pc # "check" /\ ~(Self.pc = "try" /\ Self'.pc = "suspend")
            BY <1>5, <2>6, WhichStep
      <3>2. /\ SameClock(Self, Self')
            /\ Self'.outcome = "timeout" => Self.outcome = "timeout"
            /\ Self'.pc \in {"test", "inherit", "place"} => Self.pc \in {"test", "inherit", "place"}
            BY <2>6, <3>1 DEF GoesOn, Moves, Outcome
      <3>3. ClockFits(Self', xTickCount) BY <2>2, <3>2, SameClockFits
      <3> QED BY <1>3, <2>1, <3>3
    <2> QED BY <2>1, <2>3, <2>4, <2>5, <2>6
  <1>6. CASE SystemNext
    <2>1. CASE UNCHANGED <<xTickCount, frame>> BY <2>1 DEF TimeInv
    <2>2. CASE ~xSchedulerRunning /\ UNCHANGED frame
      <3>1. \A t \in Task : frame'[t] = AppFrame BY <1>1, <2>2 DEF QInv, Control, FrameFits
      <3>2. \A now : ClockFits(AppFrame, now) BY DEF ClockFits, AppFrame
      <3> QED BY <3>1, <3>2 DEF TimeInv
    <2>3. CASE /\ xTickCount' = (xTickCount + 1) % TickMod
               /\ frame' = [t \in Task |-> Waited(frame[t])]
               /\ Self.pc \notin Suspended /\ pxCurrentTCB \in Task
      <3>1. \A t \in Task : frame[t].pc \notin Suspended
            BY <2>3 DEF QInv, Control, Self, Stops, Preemptible, Suspended, Looking, Unlocking
      <3>2. xTickCount \in TickType BY DEF QInv, KInv, TypeOK
      <3>3. \A t \in Task : ClockFits(Waited(frame[t]), xTickCount')
            BY <1>1, <2>3, <3>1, <3>2, WaitedClock DEF TimeInv
      <3> QED BY <2>3, <3>3 DEF TimeInv
    <2> QED BY <1>6, <2>1, <2>2, <2>3, SystemTime
  <1> QED BY <1>2, <1>4, <1>5, <1>6 DEF QNext, SystemNext

(* TimeInv holds in every state.                                            *)
LEMMA TimeInvHolds == QSpec => []TimeInv
  <1>1. QInit => TimeInv
    <2>1. \A now : ClockFits(AppFrame, now) BY DEF ClockFits, AppFrame
    <2> QED BY <2>1 DEF QInit, TimeInv
  <1>2. QInv /\ TimeInv /\ [QNext]_qvars => TimeInv' BY TimeStep
  <1>3. QSpec => []QInv BY QInvHolds
  <1> QED BY <1>1, <1>2, <1>3, PTL DEF QSpec

(* A call times out only after the ticks it was given have passed, however  *)
(* often it was woken and blocked again and wherever the tick count wrapped:*)
(* xTaskCheckForTimeOut reads the entry time, the remaining time and the    *)
(* count of overflows right for every width of the count.                   *)
THEOREM TimeoutsAreNotEarly == QSpec => []NoEarlyTimeout
  <1>1. TimeInv => NoEarlyTimeout BY DEF TimeInv, ClockFits, NoEarlyTimeout
  <1>2. QSpec => []TimeInv BY TimeInvHolds
  <1> QED BY <1>1, <1>2, PTL
-----------------------------------------------------------------------------
(* Who is delayed is not ready.                                             *)
LEMMA DelayedIsNotReady == ASSUME KInv, NEW t \in Task, Delayed(t) PROVE ~Ready(t)
  <1>1. uxPriority[t] \in Priority BY DEF KInv, TypeOK
  <1> QED BY <1>1 DEF KInv, StateListsAreExclusive, Ready

(* Only Place sends a task to sleep.                                        *)
LEMMA OnlyPlaceSleeps ==
    ASSUME QInv, AppStep \/ CallStep \/ Resumed, ~Place
    PROVE  SleepersStay
  <1>1. ASSUME NEW e \in EventList, NEW yields \in BOOLEAN, xTaskRemoveFromEventList(e, yields),
               TaskRuns, CallStep
        PROVE  SleepersStay
    <2>1. section = NoSection /\ xSchedulerRunning BY <1>1 DEF TaskRuns
    <2>2. uxCriticalNesting' \in 0 .. MaxCritical
      <3>1. QInv' BY QNextStep DEF QNext
      <3> QED BY <3>1 DEF QInv, KInv, TypeOK
    <2>3. NobodySleeps BY <1>1, <2>1, <2>2, xTaskRemoveFromEventList_Inv DEF QInv
    <2> QED BY <2>3 DEF NobodySleeps, SleepersStay
  <1>2. CASE AppStep
    <2>1. UNCHANGED <<delayVars, eventVars>> BY <1>2, AppMoves DEF portYIELD
    <2> QED BY <2>1, SameListsStay
  <1>3. CASE Resumed
    <2>1. UNCHANGED <<delayVars, eventVars>> BY <1>3 DEF Resumed, ResumeEnd
    <2> QED BY <2>1, SameListsStay
  <1>4. CASE Notify
    <2> DEFINE e == WakeList(Self.fn, Self.q)
    <2>1. TaskRuns /\ Self.pc = "notify" BY <1>4 DEF Notify, At
    <2>2. CASE xTaskRemoveFromEventList(e, TRUE)
      <3>1. e \in EventList
            BY <2>1, OwnFacts, QueueAssumption
            DEF FrameFits, WakeList, xTasksWaitingToSend, xTasksWaitingToReceive
      <3> QED BY <1>1, <1>4, <2>1, <2>2, <3>1 DEF CallStep, TryStep
    <2>3. CASE UNCHANGED <<delayVars, eventVars>> BY <2>3, SameListsStay
    <2> QED BY <1>4, <2>2, <2>3 DEF Notify, portYIELD
  <1>5. CASE WakeReceivers \/ WakeSenders
    <2>1. TaskRuns /\ Self.pc \in {"wakeReceivers", "wakeSenders"}
          BY <1>5 DEF WakeReceivers, WakeSenders, At
    <2>2. /\ xTasksWaitingToReceive(Self.q) \in EventList /\ xTasksWaitingToSend(Self.q) \in EventList
          BY <2>1, OwnFacts, QueueAssumption DEF FrameFits, xTasksWaitingToSend, xTasksWaitingToReceive
    <2>3. \/ UNCHANGED kernelVars
          \/ xTaskRemoveFromEventList(xTasksWaitingToReceive(Self.q), FALSE)
          \/ xTaskRemoveFromEventList(xTasksWaitingToSend(Self.q), FALSE)
          BY <1>5 DEF WakeReceivers, WakeSenders
    <2> QED BY <1>1, <1>5, <2>1, <2>2, <2>3, SameListsStay DEF CallStep, WaitStep, prvUnlockQueue
  <1>6. CASE CallStep /\ ~Notify /\ ~WakeReceivers /\ ~WakeSenders
    <2>1. UNCHANGED <<delayVars, eventVars>>
      <3>1. CASE Commit
            BY <3>1 DEF Commit, xTaskPriorityDisinherit, pvTaskIncrementMutexHeldCount
      <3>2. CASE ~Commit
            BY <1>6, <3>2 DEF CallStep, TryStep, WaitStep, prvUnlockQueue, CountFirstTake,
               NotAvailable, Suspend, prvLockQueue, xTaskCheckForTimeOut, Test, Inherit, UnlockTx,
               UnlockRx, Resume, portYIELD_WITHIN_API, Recheck, Disinherit, vTaskSuspendAll,
               xTaskPriorityInherit, xTaskResumeAll, portYIELD, vTaskPriorityDisinheritAfterTimeout
      <3> QED BY <3>1, <3>2
    <2> QED BY <2>1, SameListsStay
  <1> QED BY <1>2, <1>3, <1>4, <1>5, <1>6

(* A sleeping task has the ticks left that its call may still wait.         *)
Sleeps(f, wake, now) ==
    Blocked(f) /\ f.xEntryTimeSet /\ f.due \in {LongAgo, (wake - now) % TickMod}

DelayInv ==
    \A t \in Task : Delayed(t) => Sleeps(frame[t], xStateItemValue[t], xTickCount)

(* The wait that Place begins.                                              *)
LEMMA PlaceSleeps ==
    ASSUME QInv, TimeInv, DelayInv, Place
    PROVE  DelayInv'
  <1> DEFINE n == Self.xTicksToWait
             e == WaitList(Self.fn, Self.q)
             t == pxCurrentTCB
             wake == (xTickCount + n) % TickMod
  <1>1. TaskRuns /\ Self.pc = "place" /\ vTaskPlaceOnEventList(e, n)
        BY DEF Place, At
  <1>2. /\ t \in Task /\ Self \in Frame /\ FrameFits(Self) /\ KInv /\ t # IdleTask
        /\ Ready(t) /\ uxSchedulerSuspended > 0 /\ xSchedulerRunning
        BY <1>1, OwnFacts DEF Suspended, Looking, Unlocking
  <1>3. OwnMove /\ GoesOn(Self, Self')
        BY <1>1, <1>2, WaitMoves DEF WaitStep, Returns
  <1>4. /\ xTickCount' = xTickCount /\ xTickCount \in TickType /\ n \in TickType /\ n > 0
        /\ Self.xEntryTimeSet
        BY <1>1, <1>2, <1>3
        DEF OwnMove, KInv, TypeOK, Frame, FrameFits, Suspended, Looking
  <1>5. n \in 1 .. portMAX_DELAY /\ n \in 1 .. TickMod - 1 /\ TickMod \in Nat
        BY <1>4, KernelAssumption DEF TickType, portMAX_DELAY
  <1>6. /\ xStateItemValue' = [xStateItemValue EXCEPT ![t] = wake]
        /\ xStateItemValue \in [Task -> TickType]
        BY <1>1, <1>2 DEF vTaskPlaceOnEventList, prvAddCurrentTaskToDelayedList, KInv, TypeOK
  <1>7. \A u : Delayed(u)' <=> Delayed(u) \/ u = t
    <2>1. e \in EventList
          BY <1>1, <1>2, QueueAssumption
          DEF FrameFits, WaitList, xTasksWaitingToSend, xTasksWaitingToReceive
    <2>2. uxCriticalNesting' \in 0 .. MaxCritical
          BY <1>2 DEF Place, Unmasked, KInv, TypeOK
    <2> HIDE DEF e, n
    <2> QED BY <1>1, <1>2, <1>5, <2>1, <2>2, vTaskPlaceOnEventList_Inv
  <1>8. (wake - xTickCount) % TickMod = n
    <2> HIDE DEF n
    <2>1. /\ xTickCount + n < TickMod => wake = xTickCount + n
          /\ xTickCount + n >= TickMod => wake = xTickCount + n - TickMod
          BY <1>4, <1>5, WrapFacts
    <2> HIDE DEF wake
    <2>2. wake \in TickType BY <1>4, <1>5, <2>1, KernelAssumption DEF TickType
    <2>3. /\ wake >= xTickCount => (wake - xTickCount) % TickMod = wake - xTickCount
          /\ wake < xTickCount => (wake - xTickCount) % TickMod = wake - xTickCount + TickMod
          BY <1>4, <2>2, DifferenceFacts, Zenon
    <2>4. xTickCount \in Int /\ wake \in Int /\ xTickCount < TickMod
          BY <1>4, <2>2, KernelAssumption DEF TickType
    <2> QED BY <1>5, <2>1, <2>3, <2>4
  <1>9. Self.due \in {LongAgo, n}
    <2>1. ClockFits(Self, xTickCount) BY <1>2 DEF TimeInv, Self
    <2>2. ~Self.xOverflowed /\ Self.xTimeOnEntering = xTickCount BY <1>1, <2>1 DEF ClockFits
    <2>3. Elapsed(Self, xTickCount) = 0
          BY <1>4, <2>2, KernelAssumption DEF Elapsed, TickType
    <2>4. Left(Self, xTickCount) = n BY <1>5, <2>3 DEF Left
    <2> QED BY <1>4, <2>1, <2>4 DEF ClockFits
  <1>10. Blocked(Self') /\ Self'.xEntryTimeSet /\ Self'.due = Self.due
        BY <1>1, <1>3, <1>4 DEF GoesOn, Moves, Outcome, SameClock, Blocked, Unlocking
  <1>11. Sleeps(Self', wake, xTickCount) BY <1>8, <1>9, <1>10 DEF Sleeps
  <1> HIDE DEF wake
  <1> SUFFICES ASSUME NEW u \in Task, Delayed(u)'
               PROVE  Sleeps(frame'[u], xStateItemValue'[u], xTickCount)
        BY <1>4 DEF DelayInv
  <1>12. CASE u = t BY <1>2, <1>3, <1>6, <1>11, <1>12 DEF OwnMove
  <1>13. CASE u # t BY <1>2, <1>3, <1>6, <1>7, <1>13 DEF OwnMove, DelayInv
  <1> QED BY <1>12, <1>13

(* A tick brings the wake time of a sleeping task nearer by one.            *)
LEMMA WaitedSleeps ==
    ASSUME NEW f \in Frame, FrameFits(f), NEW now \in TickType, NEW wake \in TickType,
           wake # now, Sleeps(f, wake, now), xTickCount' = (now + 1) % TickMod
    PROVE  Sleeps(Waited(f), wake, xTickCount')
  <1> DEFINE g == Waited(f)
             n == xTickCount'
             d == (wake - now) % TickMod
             m == (wake - n) % TickMod
  <1>1. g.pc = f.pc /\ g.outcome = f.outcome BY WaitedFacts
  <1>2. Blocked(g) BY <1>1 DEF Sleeps, Blocked
  <1>3. /\ g.xEntryTimeSet
        /\ g.due = IF f.xOverflowed /\ n = 0 THEN LongAgo
                   ELSE IF f.due > 0 THEN f.due - 1 ELSE f.due
        BY DEF Sleeps, Waited, Frame
  <1>4. f.due \in {LongAgo, d} BY DEF Sleeps
  <1>5. n = IF now = TickMod - 1 THEN 0 ELSE now + 1 BY DifferenceFacts
  <1>6. /\ wake \in Nat /\ now \in Nat /\ wake < TickMod /\ now < TickMod /\ TickMod \in Nat
        BY KernelAssumption DEF TickType
  <1>7. n \in TickType BY <1>5, <1>6 DEF TickType
  <1>8. /\ wake >= now => d = wake - now
        /\ wake < now => d = wake - now + TickMod
        BY DifferenceFacts, Zenon
  <1> HIDE DEF g, n, d
  <1>9. /\ wake >= n => m = wake - n
        /\ wake < n => m = wake - n + TickMod
        BY <1>7, DifferenceFacts, Zenon
  <1> HIDE DEF m
  <1>10. d \in Int /\ d > 0 /\ m = d - 1
    <2>1. n \in Int BY <1>5, <1>6
    <2>2. CASE wake > now
      <3>1. n = now + 1 /\ d = wake - now BY <1>5, <1>6, <1>8, <2>2
      <3> QED BY <1>6, <1>9, <2>2, <3>1
    <2>3. CASE wake < now
      <3>1. d = wake - now + TickMod BY <1>8, <2>3
      <3>2. CASE n = 0
        <4>1. now = TickMod - 1 BY <1>5, <1>6, <3>2
        <4> QED BY <1>6, <1>9, <2>3, <3>1, <3>2, <4>1
      <3>3. CASE n # 0
        <4>1. n = now + 1 BY <1>5, <3>3
        <4> QED BY <1>6, <1>9, <2>3, <3>1, <4>1
      <3> QED BY <3>2, <3>3
    <2> QED BY <1>6, <2>2, <2>3
  <1>11. g.due \in {LongAgo, m}
    <2>1. CASE g.due = LongAgo BY <2>1
    <2>2. CASE g.due # LongAgo
      <3>1. g.due = IF f.due > 0 THEN f.due - 1 ELSE f.due BY <1>3, <2>2
      <3>2. f.due = d BY <1>4, <2>2, <3>1 DEF LongAgo
      <3> QED BY <1>10, <3>1, <3>2
    <2> QED BY <2>1, <2>2
  <1>12. Sleeps(g, wake, n) BY <1>2, <1>3, <1>11 DEF Sleeps, m
  <1> QED BY <1>12 DEF g, n

(* An empty list has no elements.                                           *)
LEMMA NobodyInEmpty == Elements(<< >>) = {}
  <1>1. << >> \in Seq(Task) OBVIOUS
  <1> QED BY <1>1, ElementsOf

(* Every step keeps the sleeping tasks' wake times.                         *)
LEMMA DelayStep == ASSUME QInv, TimeInv, DelayInv, [QNext]_qvars PROVE DelayInv'
  <1>1. QInv' BY QNextStep
  <1>2. CASE UNCHANGED qvars
    <2>1. UNCHANGED <<frame, xTickCount, delayVars>> BY <1>2 DEF qvars, vars, queueVars
    <2> QED BY <2>1 DEF DelayInv, Delayed
  <1>3. CASE Place BY <1>3, PlaceSleeps
  <1>4. CASE (AppStep \/ CallStep \/ Resumed) /\ ~Place
    <2>1. SleepersStay BY <1>4, OnlyPlaceSleeps
    <2>2. OwnMove BY <1>4, AppMoves, TryMoves, WaitMoves, ResumedMoves DEF CallStep
    <2> SUFFICES ASSUME NEW u \in Task, Delayed(u)'
                 PROVE  Sleeps(frame'[u], xStateItemValue'[u], xTickCount)
          BY <2>2 DEF DelayInv, OwnMove
    <2>3. /\ xStateItemValue'[u] = xStateItemValue[u]
          /\ Sleeps(frame[u], xStateItemValue[u], xTickCount)
          /\ Delayed(u)
          BY <2>1 DEF SleepersStay, DelayInv
    <2>4. CASE u # pxCurrentTCB BY <2>2, <2>3, <2>4 DEF OwnMove
    <2>5. CASE u = pxCurrentTCB
      <3>1. ~Ready(pxCurrentTCB) BY <2>3, <2>5, DelayedIsNotReady DEF QInv
      <3>2. Blocked(Self')
        <4>1. KInv' /\ CurrentIsReady' BY <1>1 DEF QInv
        <4>2. uxPriority'[u] \in Priority BY <4>1 DEF KInv, TypeOK
        <4>3. ~Ready(u)' BY <4>1, <4>2 DEF KInv, StateListsAreExclusive, Ready
        <4>4. ~Ready(pxCurrentTCB)' BY <2>2, <2>5, <4>3 DEF OwnMove, Ready
        <4> QED BY <2>2, <4>1, <4>4 DEF CurrentIsReady, OwnMove
      <3>3. Self.pc # "app" /\ Self'.pc # "app"
            BY <2>2, <2>3, <2>5, <3>2 DEF Sleeps, Blocked, Unlocking, OwnMove
      <3>4. CallStep \/ Resumed
            BY <1>4, <3>3, AppMoves, FrameFacts
      <3>5. GoesOn(Self, Self')
            BY <3>3, <3>4, TryMoves, WaitMoves, ResumedMoves, FrameFacts DEF CallStep, Returns
      <3>6. Self.pc \notin {"check", "try"}
        <4>1. Self.pc # "check" BY <2>2, <2>3, <2>5 DEF Sleeps, Blocked, Unlocking, OwnMove
        <4>2. Self.pc # "try"
          <5>1. Self.pc = "try" => TaskRuns
                BY <3>4, WhichStep DEF Commit, NotAvailable, At
          <5> QED BY <3>1, <5>1, OwnFacts DEF Unlocking
        <4> QED BY <4>1, <4>2
      <3>7. SameClock(Self, Self') BY <3>5, <3>6 DEF GoesOn
      <3> QED BY <2>2, <2>3, <2>5, <3>2, <3>7 DEF Sleeps, SameClock, OwnMove
    <2> QED BY <2>4, <2>5
  <1>5. CASE SystemNext
    <2>1. SleepersStay BY <1>5, SystemMoves
    <2> SUFFICES ASSUME NEW u \in Task, Delayed(u)'
                 PROVE  Sleeps(frame'[u], xStateItemValue'[u], xTickCount')
          BY DEF DelayInv
    <2>2. /\ xStateItemValue'[u] = xStateItemValue[u]
          /\ Sleeps(frame[u], xStateItemValue[u], xTickCount) /\ Delayed(u)
          BY <2>1 DEF SleepersStay, DelayInv
    <2>3. CASE UNCHANGED <<xTickCount, frame>> BY <2>2, <2>3
    <2>4. CASE ~xSchedulerRunning
      <3>1. pxDelayedTaskList = << >> /\ pxOverflowDelayedTaskList = << >>
            BY <2>4 DEF QInv, KInv, SectionsAreInStep
      <3> QED BY <2>2, <3>1, NobodyInEmpty DEF Delayed
    <2>5. CASE /\ xTickCount' = (xTickCount + 1) % TickMod
               /\ frame' = [t \in Task |-> Waited(frame[t])]
               /\ section.at \notin {"tick", "resumeTick"}
      <3>1. /\ xTickCount \in TickType /\ xStateItemValue[u] \in TickType
            /\ frame[u] \in Frame /\ FrameFits(frame[u])
            BY DEF QInv, KInv, TypeOK, QTypeOK, FramesFit
      <3>2. xStateItemValue[u] # xTickCount
        <4>1. xStateItemValue[u] > xTickCount \/ xStateItemValue[u] < xTickCount
              BY <2>2, <2>5 DEF Delayed, QInv, KInv, WakeTimesAreAhead, InTickLoop
        <4> QED BY <3>1, <4>1, KernelAssumption DEF TickType
      <3>3. Sleeps(Waited(frame[u]), xStateItemValue[u], xTickCount')
            BY <2>2, <2>5, <3>1, <3>2, WaitedSleeps
      <3> QED BY <2>2, <2>5, <3>3
    <2> QED BY <1>5, <2>3, <2>4, <2>5, SystemTime
  <1> QED BY <1>2, <1>3, <1>4, <1>5 DEF QNext, SystemNext

(* The sleepers, always.                                                    *)
LEMMA DelayInvHolds == QSpec => []DelayInv
  <1>1. QInit => DelayInv
    <2> SUFFICES ASSUME QInit, NEW t \in Task PROVE ~Delayed(t) BY DEF DelayInv
    <2>1. pxDelayedTaskList = << >> /\ pxOverflowDelayedTaskList = << >> BY DEF QInit, Init
    <2> QED BY <2>1, NobodyInEmpty DEF Delayed
  <1>2. QInv /\ TimeInv /\ DelayInv /\ [QNext]_qvars => DelayInv' BY DelayStep
  <1>3. (QSpec => []QInv) /\ (QSpec => []TimeInv) BY QInvHolds, TimeInvHolds
  <1> QED BY <1>1, <1>2, <1>3, PTL DEF QSpec

(* A blocked task is woken when its ticks have passed and no later: its wake*)
(* time is always as far ahead as the call may still wait, whichever list   *)
(* it is in and however often the count wrapped.                            *)
THEOREM DeadlinesAreKept == QSpec => []DeadlineIsKept
  <1>1. DelayInv => DeadlineIsKept BY DEF DelayInv, Sleeps, DeadlineIsKept
  <1>2. QSpec => []DelayInv BY DelayInvHolds
  <1> QED BY <1>1, <1>2, PTL
-----------------------------------------------------------------------------
(* The two sides of a queue: who waits in an event list and which call      *)
(* wakes its first task, what those tasks wait for, and the count of what   *)
(* handlers brought while the queue was locked.                             *)
Side == {"send", "receive"}

WaitsOn(fn, side) ==
    fn \in IF side = "send" THEN {"send"} ELSE {"receive", "peek", "take", "takeRecursive"}
Wakes(fn, side) ==
    fn \in IF side = "send" THEN {"receive", "take", "takeRecursive", "reset"}
           ELSE {"send", "overwrite", "peek"}
WakePlace(side) == IF side = "send" THEN "wakeSenders" ELSE "wakeReceivers"

Slack(q, side) ==
    IF side = "send" THEN uxLength[q] - uxMessagesWaiting[q] ELSE uxMessagesWaiting[q]
LockOf(q, side) == IF side = "send" THEN cRxLock[q] ELSE cTxLock[q]
Owes(q, side) ==
    LET owed == IF Self.q = q /\ Self.pc = WakePlace(side) THEN Self.cLock ELSE LockOf(q, side)
    IN IF owed > 0 THEN owed ELSE 0

(* A call that is sure to look at the queue again, or about to wake a task  *)
(* that is.  A call that found its time over, but has not returned, is not. *)
Going(f, q, side) ==
    /\ f.q = q
    /\ \/ f.pc = "notify" /\ Wakes(f.fn, side)
       \/ /\ WaitsOn(f.fn, side)
          /\ \/ f.pc \in {"try", "yield"}
             \/ f.pc \in Unlocking \cup {"resuming"} /\ f.outcome \in {"block", "retry"}

Heads(q, side) == {t \in Task : Going(frame[t], q, side) /\ t \notin WaitingTasks(<<q, side>>)}

(* Who is in an event list is in a call that waits there; and who is about  *)
(* to enter it has seen no more than the handlers counted since.            *)
WaitersFit ==
    \A q \in QueueHandle, side \in Side : \A t \in WaitingTasks(<<q, side>>) :
        frame[t].q = q /\ WaitsOn(frame[t].fn, side)

Reason ==
    xSchedulerRunning /\ Self.pc \in {"inherit", "place"} =>
        \A q \in QueueHandle, side \in Side :
            Self.q = q /\ WaitsOn(Self.fn, side) => Slack(q, side) <= LockOf(q, side)

(* While a task waits, no more than d of what it waits for are there with   *)
(* nobody on the way and no wake-up owed.                                   *)
NotForgotten(q, side, d) ==
    WaitingTasks(<<q, side>>) # {} =>
        Slack(q, side) <= Owes(q, side) + Cardinality(Heads(q, side)) + d

(* A handler counts on a lock that prvUnlockQueue has read for the last     *)
(* time: queue.c stores queueUNLOCKED over the count at the end of the loop.*)
CountedTooLate(q, side) ==
    /\ HandlerStep
    /\ Self.q = q /\ Self.pc = WakePlace(side)
    /\ LockOf(q, side)' = LockOf(q, side) + 1

(* A reset frees several places, and xQueueGenericReset wakes one sender    *)
(* ("If there are tasks blocked waiting to write to the queue, then one     *)
(* should be unblocked").                                                   *)
FreesTooMany(q) == xQueueGenericReset(q) /\ uxMessagesWaiting[q] > 1

(* How the number of elements of a set changes with the set.                *)
LEMMA Counted ==
    ASSUME NEW S, NEW T, IsFiniteSet(S), IsFiniteSet(T)
    PROVE  /\ Cardinality(S) \in Nat /\ Cardinality(T) \in Nat
           /\ S \subseteq T => Cardinality(S) <= Cardinality(T)
           /\ \A c : S \ {c} \subseteq T => Cardinality(S) - 1 <= Cardinality(T)
           /\ \A t : S \subseteq T /\ t \in T /\ t \notin S => Cardinality(S) + 1 <= Cardinality(T)
           /\ \A c, t : S \ {c} \subseteq T /\ t \in T /\ t \notin S => Cardinality(S) <= Cardinality(T)
  <1>1. Cardinality(S) \in Nat /\ Cardinality(T) \in Nat BY FS_CardinalityType
  <1>2. S \subseteq T => Cardinality(S) <= Cardinality(T) BY FS_Subset
  <1>3. ASSUME NEW c
        PROVE  /\ IsFiniteSet(S \ {c}) /\ Cardinality(S \ {c}) \in Nat
               /\ Cardinality(S) - 1 <= Cardinality(S \ {c})
    <2>1. IsFiniteSet(S \ {c}) /\ Cardinality(S \ {c}) = IF c \in S THEN Cardinality(S) - 1 ELSE Cardinality(S)
          BY FS_RemoveElement
    <2>2. Cardinality(S \ {c}) \in Nat BY <2>1, FS_CardinalityType
    <2> QED BY <1>1, <2>1, <2>2
  <1>4. ASSUME NEW c, S \ {c} \subseteq T PROVE Cardinality(S) - 1 <= Cardinality(T)
    <2>1. Cardinality(S \ {c}) <= Cardinality(T) BY <1>4, FS_Subset
    <2> QED BY <1>1, <1>3, <2>1
  <1>5. ASSUME NEW A, NEW t, IsFiniteSet(A), A \subseteq T, t \in T, t \notin A
        PROVE  Cardinality(A) + 1 <= Cardinality(T)
    <2>1. IsFiniteSet(A \cup {t}) /\ Cardinality(A \cup {t}) = Cardinality(A) + 1
          BY <1>5, FS_AddElement
    <2>2. Cardinality(A \cup {t}) <= Cardinality(T) BY <1>5, FS_Subset
    <2> QED BY <2>1, <2>2
  <1>6. ASSUME NEW c, NEW t, S \ {c} \subseteq T, t \in T, t \notin S
        PROVE  Cardinality(S) <= Cardinality(T)
    <2>1. Cardinality(S \ {c}) + 1 <= Cardinality(T) BY <1>3, <1>5, <1>6
    <2> QED BY <1>1, <1>3, <2>1
  <1> QED BY <1>1, <1>2, <1>4, <1>5, <1>6

(* The numbers that are compared.                                           *)
LEMMA BalanceTypes ==
    ASSUME QInv, xSchedulerRunning, NEW q \in QueueHandle, NEW side \in Side
    PROVE  /\ <<q, side>> \in EventList
           /\ Slack(q, side) \in Nat /\ LockOf(q, side) \in Int
           /\ Owes(q, side) \in Nat
           /\ IsFiniteSet(Heads(q, side)) /\ Cardinality(Heads(q, side)) \in Nat
  <1>1. <<q, side>> \in EventList BY QueueAssumption DEF Side
  <1>2. Slack(q, side) \in Nat /\ LockOf(q, side) \in Int
    <2>1. /\ uxMessagesWaiting[q] \in Nat /\ uxLength[q] \in Nat /\ uxMessagesWaiting[q] <= uxLength[q]
          /\ cRxLock[q] \in Int /\ cTxLock[q] \in Int
          BY QueueAssumption DEF QInv, QTypeOK
    <2> QED BY <2>1 DEF Slack, LockOf
  <1>3. Owes(q, side) \in Nat
    <2>1. pxCurrentTCB \in Task BY DEF QInv, KInv, SectionsAreInStep
    <2>2. Self.cLock \in Int BY <2>1 DEF QInv, QTypeOK, Self, Frame
    <2> QED BY <1>2, <2>2 DEF Owes
  <1>4. IsFiniteSet(Heads(q, side))
    <2>1. Heads(q, side) \subseteq Task BY DEF Heads
    <2> QED BY <2>1, ProgramAssumption, FS_Subset
  <1> QED BY <1>1, <1>2, <1>3, <1>4, FS_CardinalityType

(* A task in an event list is delayed and in the wait of its call; it does  *)
(* not count as on its way, and does as soon as it is woken.                *)
LEMMA WaiterFacts ==
    ASSUME QInv, DelayInv, WaitersFit, NEW q \in QueueHandle, NEW side \in Side,
           NEW t \in WaitingTasks(<<q, side>>)
    PROVE  /\ t \in Task /\ Delayed(t) /\ Blocked(frame[t])
           /\ Going(frame[t], q, side) /\ t \notin Heads(q, side)
  <1>1. <<q, side>> \in EventList BY QueueAssumption DEF Side
  <1>2. t \in Task
    <2>1. xEventLists[<<q, side>>] \in Seq(Task) BY <1>1 DEF QInv, KInv, TypeOK
    <2> QED BY <2>1, ElementsOf DEF WaitingTasks
  <1>3. Delayed(t) BY <1>1 DEF QInv, KInv, EventListsAreExclusive
  <1>4. Blocked(frame[t]) BY <1>2, <1>3 DEF DelayInv, Sleeps
  <1>5. frame[t].q = q /\ WaitsOn(frame[t].fn, side) BY DEF WaitersFit
  <1>6. Going(frame[t], q, side) BY <1>4, <1>5 DEF Going, Blocked
  <1> QED BY <1>2, <1>3, <1>4, <1>6 DEF Heads

(* Nobody but the current task stops being on its way in a step that sends  *)
(* nobody to sleep.                                                         *)
LEMMA OwnHeads ==
    ASSUME OwnMove, SleepersStay, NEW q \in QueueHandle, NEW side \in Side
    PROVE  /\ WaitingTasks(<<q, side>>)' \subseteq WaitingTasks(<<q, side>>)
           /\ Heads(q, side) \ {pxCurrentTCB} \subseteq Heads(q, side)'
           /\ (Going(Self, q, side) => Going(Self', q, side)) =>
                  Heads(q, side) \subseteq Heads(q, side)'
           /\ Going(Self', q, side) /\ pxCurrentTCB \notin WaitingTasks(<<q, side>>) =>
                  pxCurrentTCB \in Heads(q, side)'
           /\ pxCurrentTCB \in Heads(q, side) => Going(Self, q, side)
  <1>1. WaitingTasks(<<q, side>>)' \subseteq WaitingTasks(<<q, side>>)
        BY QueueAssumption DEF SleepersStay, Side
  <1>2. Heads(q, side)' = {t \in Task : Going(frame'[t], q, side) /\ t \notin WaitingTasks(<<q, side>>)'}
        BY DEF Heads, Going
  <1>3. \A t \in Task : t # pxCurrentTCB => frame'[t] = frame[t] BY DEF OwnMove
  <1>4. pxCurrentTCB \in Task /\ frame[pxCurrentTCB] = Self /\ frame'[pxCurrentTCB] = Self'
        BY DEF OwnMove
  <1>5. Heads(q, side) \ {pxCurrentTCB} \subseteq Heads(q, side)'
        BY <1>1, <1>2, <1>3 DEF Heads
  <1>6. (Going(Self, q, side) => Going(Self', q, side)) =>
            Heads(q, side) \subseteq Heads(q, side)'
        BY <1>1, <1>2, <1>3, <1>4 DEF Heads
  <1>7. /\ Going(Self', q, side) /\ pxCurrentTCB \notin WaitingTasks(<<q, side>>) =>
                pxCurrentTCB \in Heads(q, side)'
        /\ pxCurrentTCB \in Heads(q, side) => Going(Self, q, side)
        BY <1>1, <1>2, <1>4 DEF Heads
  <1> QED BY <1>1, <1>5, <1>6, <1>7

(* The same for steps of the system.                                        *)
LEMMA SystemHeads ==
    ASSUME QInv, StayPut, SleepersStay, NEW q \in QueueHandle, NEW side \in Side
    PROVE  /\ WaitingTasks(<<q, side>>)' \subseteq WaitingTasks(<<q, side>>)
           /\ Heads(q, side) \subseteq Heads(q, side)'
           /\ \A t \in Task : Going(frame[t], q, side) /\ t \notin WaitingTasks(<<q, side>>)' =>
                  t \in Heads(q, side)'
  <1>1. WaitingTasks(<<q, side>>)' \subseteq WaitingTasks(<<q, side>>)
        BY QueueAssumption DEF SleepersStay, Side
  <1>2. Heads(q, side)' = {t \in Task : Going(frame'[t], q, side) /\ t \notin WaitingTasks(<<q, side>>)'}
        BY DEF Heads, Going
  <1>3. \A t \in Task : Going(frame[t], q, side) => Going(frame'[t], q, side)
        BY StayPutFacts DEF Going
  <1> QED BY <1>1, <1>2, <1>3 DEF Heads

(* The same numbers after a step.                                           *)
LEMMA NextTypes ==
    ASSUME QInv', xSchedulerRunning', NEW q \in QueueHandle, NEW side \in Side
    PROVE  /\ Slack(q, side)' \in Nat /\ LockOf(q, side)' \in Int /\ Owes(q, side)' \in Nat
           /\ IsFiniteSet(Heads(q, side)') /\ Cardinality(Heads(q, side)') \in Nat
  <1>1. /\ uxMessagesWaiting'[q] \in Nat /\ uxLength[q] \in Nat /\ uxMessagesWaiting'[q] <= uxLength[q]
        /\ cRxLock'[q] \in Int /\ cTxLock'[q] \in Int
        BY QueueAssumption DEF QInv, QTypeOK
  <1>2. Slack(q, side)' \in Nat /\ LockOf(q, side)' \in Int BY <1>1 DEF Slack, LockOf
  <1>3. pxCurrentTCB' \in Task BY DEF QInv, KInv, SectionsAreInStep
  <1>4. Self'.cLock \in Int BY <1>3 DEF QInv, QTypeOK, Self, Frame
  <1>5. Owes(q, side)' \in Nat BY <1>2, <1>4 DEF Owes
  <1>6. Heads(q, side)' \subseteq Task BY DEF Heads
  <1>7. IsFiniteSet(Heads(q, side)') BY <1>6, ProgramAssumption, FS_Subset
  <1> QED BY <1>2, <1>5, <1>7, FS_CardinalityType

(* What is missing does not outgrow what is on its way.                     *)
LEMMA Balance ==
    ASSUME QInv, QInv', xSchedulerRunning, xSchedulerRunning',
           NEW q \in QueueHandle, NEW side \in Side, NEW d \in Nat, NotForgotten(q, side, d),
           WaitingTasks(<<q, side>>)' \subseteq WaitingTasks(<<q, side>>),
           WaitingTasks(<<q, side>>)' # {} =>
               Slack(q, side)' + Owes(q, side) + Cardinality(Heads(q, side)) <=
                   Slack(q, side) + Owes(q, side)' + Cardinality(Heads(q, side)')
    PROVE  NotForgotten(q, side, d)'
  <1>1. /\ Slack(q, side) \in Nat /\ Owes(q, side) \in Nat /\ Cardinality(Heads(q, side)) \in Nat
        BY BalanceTypes
  <1>2. Slack(q, side)' \in Nat /\ Owes(q, side)' \in Nat /\ Cardinality(Heads(q, side)') \in Nat
        BY NextTypes
  <1> QED BY <1>1, <1>2 DEF NotForgotten

(* Every step keeps the waiting tasks in the calls they wait with.          *)
LEMMA WaitersStep ==
    ASSUME QInv, TimeInv, DelayInv, WaitersFit, [QNext]_qvars
    PROVE  WaitersFit'
  <1>1. QInv' /\ DelayInv' BY QNextStep, DelayStep
  <1> SUFFICES ASSUME NEW q \in QueueHandle, NEW side \in Side, NEW t \in WaitingTasks(<<q, side>>)'
               PROVE  frame'[t].q = q /\ WaitsOn(frame'[t].fn, side)
        BY DEF WaitersFit
  <1>2. <<q, side>> \in EventList BY QueueAssumption DEF Side
  <1>3. t \in Task
    <2>1. xEventLists'[<<q, side>>] \in Seq(Task) BY <1>1, <1>2 DEF QInv, KInv, TypeOK
    <2> QED BY <2>1, ElementsOf DEF WaitingTasks
  <1>4. Delayed(t)' BY <1>1, <1>2 DEF QInv, KInv, EventListsAreExclusive
  <1>5. Blocked(frame'[t]) BY <1>1, <1>3, <1>4 DEF DelayInv, Sleeps
  <1>6. t \in WaitingTasks(<<q, side>>) => frame[t].q = q /\ WaitsOn(frame[t].fn, side)
        BY DEF WaitersFit
  <1>7. CASE UNCHANGED qvars
    <2>1. UNCHANGED <<frame, xEventLists>> BY <1>7 DEF qvars, vars, queueVars
    <2> QED BY <1>6, <2>1 DEF WaitingTasks
  <1>8. CASE SystemNext
    <2>1. StayPut /\ SleepersStay BY <1>8, SystemMoves
    <2>2. frame'[t].q = frame[t].q /\ frame'[t].fn = frame[t].fn BY <1>3, <2>1, StayPutFacts
    <2> QED BY <1>2, <1>6, <2>1, <2>2 DEF SleepersStay
  <1>9. CASE Place
    <2> DEFINE e == WaitList(Self.fn, Self.q)
               n == Self.xTicksToWait
    <2>1. TaskRuns /\ Self.pc = "place" /\ vTaskPlaceOnEventList(e, n) BY <1>9 DEF Place, At
    <2>2. /\ pxCurrentTCB \in Task /\ Self \in Frame /\ FrameFits(Self) /\ KInv /\ pxCurrentTCB # IdleTask
          /\ Ready(pxCurrentTCB) /\ uxSchedulerSuspended > 0
          BY <2>1, OwnFacts DEF Suspended, Looking, Unlocking
    <2>3. OwnMove /\ GoesOn(Self, Self') BY <1>9, <2>1, WaitMoves DEF WaitStep, Returns
    <2>4. /\ \A f \in EventList : WaitingTasks(f)' =
                 IF f = e THEN WaitingTasks(f) \cup {pxCurrentTCB} ELSE WaitingTasks(f)
      <3>1. e \in EventList
            BY <2>1, <2>2, QueueAssumption
            DEF FrameFits, WaitList, xTasksWaitingToSend, xTasksWaitingToReceive
      <3>2. uxCriticalNesting' \in 0 .. MaxCritical
            BY <1>9, <2>2 DEF Place, Unmasked, KInv, TypeOK
      <3>3. n \in 1 .. portMAX_DELAY
            BY <2>1, <2>2, KernelAssumption
            DEF Frame, FrameFits, Looking, TickType, portMAX_DELAY
      <3> HIDE DEF e, n
      <3> QED BY <2>1, <2>2, <3>1, <3>2, <3>3, vTaskPlaceOnEventList_Inv
    <2>5. CASE t = pxCurrentTCB /\ <<q, side>> = e
      <3>1. Self.fn \notin {"none", "overwrite", "reset"} BY <2>1, WaitingFacts
      <3>2. Self.q = q /\ WaitsOn(Self.fn, side)
            BY <2>2, <2>5, <3>1
            DEF WaitList, Sends, xTasksWaitingToSend, xTasksWaitingToReceive, WaitsOn, Frame
      <3> QED BY <2>3, <2>5, <3>2 DEF OwnMove, GoesOn
    <2>6. CASE ~(t = pxCurrentTCB /\ <<q, side>> = e)
      <3>1. t \in WaitingTasks(<<q, side>>) BY <1>2, <2>4, <2>6
      <3>2. CASE t # pxCurrentTCB BY <1>3, <1>6, <2>3, <3>1, <3>2 DEF OwnMove
      <3>3. CASE t = pxCurrentTCB
        <4>1. Delayed(t) BY <1>2, <3>1 DEF QInv, KInv, EventListsAreExclusive
        <4> QED BY <1>3, <2>2, <3>3, <4>1, DelayedIsNotReady
      <3> QED BY <3>2, <3>3
    <2> QED BY <2>5, <2>6
  <1>10. CASE (AppStep \/ CallStep \/ Resumed) /\ ~Place
    <2>1. SleepersStay BY <1>10, OnlyPlaceSleeps
    <2>2. OwnMove BY <1>10, AppMoves, TryMoves, WaitMoves, ResumedMoves DEF CallStep
    <2>3. frame[t].q = q /\ WaitsOn(frame[t].fn, side) BY <1>2, <1>6, <2>1 DEF SleepersStay
    <2>4. CASE t # pxCurrentTCB BY <1>3, <2>2, <2>3, <2>4 DEF OwnMove
    <2>5. CASE t = pxCurrentTCB
      <3>1. Self = frame[t] /\ Self' = frame'[t] BY <2>2, <2>5 DEF OwnMove
      <3>2. Self'.pc # "app" BY <1>5, <3>1 DEF Blocked, Unlocking
      <3>3. Self # AppFrame BY <2>3, <3>1, FrameFacts DEF WaitsOn
      <3>4. CallStep \/ Resumed BY <1>10, <3>3, AppMoves
      <3>5. GoesOn(Self, Self')
            BY <3>2, <3>4, TryMoves, WaitMoves, ResumedMoves, FrameFacts DEF CallStep, Returns
      <3> QED BY <2>3, <3>1, <3>5 DEF GoesOn
    <2> QED BY <2>4, <2>5
  <1> QED BY <1>7, <1>8, <1>9, <1>10 DEF QNext, SystemNext

(* What a handler does to one side of a queue: nothing that matters; or it  *)
(* brings what the tasks of that side wait for, and the lock counts it or a *)
(* task is woken.                                                           *)
LEMMA HandlerEffect ==
    ASSUME QInv, LockInv, HandlerStep, NEW q \in QueueHandle, NEW side \in Side
    PROVE  /\ xSchedulerRunning /\ Self' = Self
           /\ \/ Slack(q, side)' <= Slack(q, side) /\ LockOf(q, side)' = LockOf(q, side)
              \/ /\ Slack(q, side)' = Slack(q, side) + 1
                 /\ LockOf(q, side) # queueUNLOCKED /\ LockOf(q, side)' = LockOf(q, side) + 1
              \/ /\ Slack(q, side)' = Slack(q, side) + 1
                 /\ LockOf(q, side) = queueUNLOCKED /\ LockOf(q, side)' = LockOf(q, side)
                 /\ \/ WaitingTasks(<<q, side>>)' = {}
                    \/ \E t \in WaitingTasks(<<q, side>>) : t \notin WaitingTasks(<<q, side>>)'
  <1>1. PICK r \in QueueHandle : xQueueGenericSendFromISR(r) \/ xQueueReceiveFromISR(r)
        BY DEF HandlerStep
  <1>2. /\ InterruptsOn /\ UNCHANGED <<frame, uxCriticalNesting>>
        BY <1>1 DEF xQueueGenericSendFromISR, xQueueReceiveFromISR, FromISR, Unmasked
  <1>3. /\ xSchedulerRunning /\ section = NoSection /\ uxCriticalNesting' \in 0 .. MaxCritical
        BY <1>2, InterruptFacts
  <1>4. pxCurrentTCB' = pxCurrentTCB
        BY <1>1 DEF xQueueGenericSendFromISR, xQueueReceiveFromISR, FromISR, xTaskRemoveFromEventList
  <1>5. Self' = Self BY <1>2, <1>4 DEF Self
  <1>7. /\ uxMessagesWaiting \in [QueueHandle -> Nat] /\ uxLength \in [QueueHandle -> Nat]
        /\ cRxLock \in [QueueHandle -> Int] /\ cTxLock \in [QueueHandle -> Int]
        BY QueueAssumption DEF QInv, QTypeOK
  <1>8. ASSUME NEW e \in EventList,
               \/ UNCHANGED kernelVars /\ xEventLists[e] = << >>
               \/ \E yields \in BOOLEAN : xTaskRemoveFromEventList(e, yields)
        PROVE  WaitingTasks(e)' = {} \/ \E t \in WaitingTasks(e) : t \notin WaitingTasks(e)'
    <2>1. CASE UNCHANGED kernelVars /\ xEventLists[e] = << >>
      <3>1. xEventLists'[e] = << >> BY <2>1
      <3> QED BY <3>1, NobodyInEmpty DEF WaitingTasks
    <2>2. CASE \E yields \in BOOLEAN : xTaskRemoveFromEventList(e, yields)
      <3>1. PICK yields \in BOOLEAN : xTaskRemoveFromEventList(e, yields) BY <2>2
      <3>2. /\ xEventLists[e][1] \in WaitingTasks(e)
            /\ WaitingTasks(e)' = WaitingTasks(e) \ {xEventLists[e][1]}
            BY <1>3, <3>1, xTaskRemoveFromEventList_Inv DEF QInv
      <3> QED BY <3>2
    <2> QED BY <1>8, <2>1, <2>2
  <1>9. <<r, "send">> \in EventList /\ <<r, "receive">> \in EventList BY QueueAssumption
  <1>10. CASE xQueueGenericSendFromISR(r)
    <2>1. /\ uxMessagesWaiting' = [uxMessagesWaiting EXCEPT ![r] = @ + 1]
          /\ FromISR(r, cTxLock, cRxLock, <<r, "receive">>)
          BY <1>10 DEF xQueueGenericSendFromISR, xTasksWaitingToReceive
    <2>2. /\ cRxLock' = cRxLock
          /\ \/ cTxLock[r] # queueUNLOCKED /\ cTxLock' = [cTxLock EXCEPT ![r] = @ + 1]
             \/ /\ cTxLock[r] = queueUNLOCKED /\ cTxLock' = cTxLock
                /\ \/ UNCHANGED kernelVars /\ xEventLists[<<r, "receive">>] = << >>
                   \/ \E yields \in BOOLEAN : xTaskRemoveFromEventList(<<r, "receive">>, yields)
          BY <2>1 DEF FromISR
    <2>3. CASE side = "send"
      <3>1. Slack(q, side)' <= Slack(q, side) /\ LockOf(q, side)' = LockOf(q, side)
            BY <1>7, <2>1, <2>2, <2>3 DEF Slack, LockOf
      <3> QED BY <1>3, <1>5, <3>1
    <2>4. CASE side = "receive" /\ q # r
      <3>1. Slack(q, side)' <= Slack(q, side) /\ LockOf(q, side)' = LockOf(q, side)
            BY <1>7, <2>1, <2>2, <2>4 DEF Slack, LockOf
      <3> QED BY <1>3, <1>5, <3>1
    <2>5. CASE side = "receive" /\ q = r
      <3>1. Slack(q, side)' = Slack(q, side) + 1 BY <1>7, <2>1, <2>5 DEF Slack
      <3>2. LockOf(q, side) = cTxLock[r] /\ LockOf(q, side)' = cTxLock'[r] BY <2>5 DEF LockOf
      <3>3. CASE cTxLock[r] # queueUNLOCKED
        <4>1. cTxLock'[r] = cTxLock[r] + 1 BY <1>7, <2>2, <3>3
        <4> QED BY <1>3, <1>5, <3>1, <3>2, <3>3, <4>1
      <3>4. CASE cTxLock[r] = queueUNLOCKED
        <4>1. /\ cTxLock' = cTxLock
              /\ \/ UNCHANGED kernelVars /\ xEventLists[<<r, "receive">>] = << >>
                 \/ \E yields \in BOOLEAN : xTaskRemoveFromEventList(<<r, "receive">>, yields)
              BY <2>2, <3>4
        <4>2. \/ WaitingTasks(<<r, "receive">>)' = {}
              \/ \E t \in WaitingTasks(<<r, "receive">>) : t \notin WaitingTasks(<<r, "receive">>)'
              BY <1>8, <1>9, <4>1
        <4> QED BY <1>3, <1>5, <2>5, <3>1, <3>2, <3>4, <4>1, <4>2
      <3> QED BY <3>3, <3>4
    <2> QED BY <2>3, <2>4, <2>5 DEF Side
  <1>11. CASE xQueueReceiveFromISR(r)
    <2>1. /\ uxMessagesWaiting' = [uxMessagesWaiting EXCEPT ![r] = @ - 1]
          /\ FromISR(r, cRxLock, cTxLock, <<r, "send">>)
          BY <1>11 DEF xQueueReceiveFromISR, xTasksWaitingToSend
    <2>2. /\ cTxLock' = cTxLock
          /\ \/ cRxLock[r] # queueUNLOCKED /\ cRxLock' = [cRxLock EXCEPT ![r] = @ + 1]
             \/ /\ cRxLock[r] = queueUNLOCKED /\ cRxLock' = cRxLock
                /\ \/ UNCHANGED kernelVars /\ xEventLists[<<r, "send">>] = << >>
                   \/ \E yields \in BOOLEAN : xTaskRemoveFromEventList(<<r, "send">>, yields)
          BY <2>1 DEF FromISR
    <2>3. CASE side = "receive"
      <3>1. Slack(q, side)' <= Slack(q, side) /\ LockOf(q, side)' = LockOf(q, side)
            BY <1>7, <2>1, <2>2, <2>3 DEF Slack, LockOf
      <3> QED BY <1>3, <1>5, <3>1
    <2>4. CASE side = "send" /\ q # r
      <3>1. Slack(q, side)' <= Slack(q, side) /\ LockOf(q, side)' = LockOf(q, side)
            BY <1>7, <2>1, <2>2, <2>4 DEF Slack, LockOf
      <3> QED BY <1>3, <1>5, <3>1
    <2>5. CASE side = "send" /\ q = r
      <3>1. Slack(q, side)' = Slack(q, side) + 1 BY <1>7, <2>1, <2>5 DEF Slack
      <3>2. LockOf(q, side) = cRxLock[r] /\ LockOf(q, side)' = cRxLock'[r] BY <2>5 DEF LockOf
      <3>3. CASE cRxLock[r] # queueUNLOCKED
        <4>1. cRxLock'[r] = cRxLock[r] + 1 BY <1>7, <2>2, <3>3
        <4> QED BY <1>3, <1>5, <3>1, <3>2, <3>3, <4>1
      <3>4. CASE cRxLock[r] = queueUNLOCKED
        <4>1. /\ cRxLock' = cRxLock
              /\ \/ UNCHANGED kernelVars /\ xEventLists[<<r, "send">>] = << >>
                 \/ \E yields \in BOOLEAN : xTaskRemoveFromEventList(<<r, "send">>, yields)
              BY <2>2, <3>4
        <4>2. \/ WaitingTasks(<<r, "send">>)' = {}
              \/ \E t \in WaitingTasks(<<r, "send">>) : t \notin WaitingTasks(<<r, "send">>)'
              BY <1>8, <1>9, <4>1
        <4> QED BY <1>3, <1>5, <2>5, <3>1, <3>2, <3>4, <4>1, <4>2
      <3> QED BY <3>3, <3>4
    <2> QED BY <2>3, <2>4, <2>5 DEF Side
  <1> QED BY <1>1, <1>10, <1>11

(* A task that is about to wait still has its reason, however many handlers *)
(* came since it looked at the queue.                                       *)
LEMMA ReasonStep ==
    ASSUME QInv, LockInv, Reason, [QNext]_qvars
    PROVE  Reason'
  <1>1. /\ uxMessagesWaiting \in [QueueHandle -> Nat] /\ uxLength \in [QueueHandle -> Nat]
        /\ cRxLock \in [QueueHandle -> Int] /\ cTxLock \in [QueueHandle -> Int]
        BY QueueAssumption DEF QInv, QTypeOK
  <1>2. ASSUME xSchedulerRunning, Self'.pc = Self.pc \/ Self.pc = "inherit", Self'.q = Self.q,
               Self'.fn = Self.fn, UNCHANGED <<uxMessagesWaiting, lockVars>>,
               Self.pc \in {"inherit", "place"} \/ Self'.pc \notin {"inherit", "place"}
        PROVE  Reason'
    <2>1. \A q, side : Slack(q, side)' = Slack(q, side) /\ LockOf(q, side)' = LockOf(q, side)
          BY <1>2 DEF Slack, LockOf
    <2> QED BY <1>2, <2>1 DEF Reason
  <1>3. CASE UNCHANGED qvars
    <2>1. UNCHANGED <<frame, pxCurrentTCB, xSchedulerRunning, uxMessagesWaiting, lockVars>>
          BY <1>3 DEF qvars, vars, queueVars
    <2>2. Self' = Self BY <2>1 DEF Self
    <2> QED BY <2>1, <2>2 DEF Reason, Slack, LockOf
  <1>4. CASE AppStep
    <2>1. Self' = AppFrame \/ Self'.pc \in {"try", "notify"} BY <1>4, AppMoves
    <2> QED BY <2>1, FrameFacts DEF Reason
  <1>5. CASE CallStep \/ Resumed
    <2>1. OwnMove /\ (GoesOn(Self, Self') \/ Returns(Self, Self'))
          BY <1>5, TryMoves, WaitMoves, ResumedMoves DEF CallStep
    <2>2. xSchedulerRunning /\ pxCurrentTCB \in Task /\ Self \in Frame /\ FrameFits(Self)
          BY <2>1 DEF OwnMove, QInv, QTypeOK, FramesFit, Self
    <2>3. CASE Self'.pc \notin {"inherit", "place"} BY <2>3 DEF Reason
    <2>4. CASE Self'.pc \in {"inherit", "place"}
      <3>1. GoesOn(Self, Self') /\ Self.pc \in {"test", "inherit"}
            BY <2>1, <2>4, FrameFacts DEF Returns, GoesOn, Moves
      <3>2. /\ UNCHANGED <<uxMessagesWaiting, lockVars>> /\ Self'.q = Self.q /\ Self'.fn = Self.fn
            BY <1>5, <3>1, CallLocks DEF GoesOn
      <3>3. CASE Self.pc = "inherit" BY <1>2, <2>2, <3>1, <3>2, <3>3
      <3>4. CASE Self.pc = "test"
        <4>1. Test BY <1>5, <3>4, WhichStep
        <4>2. Self.q \in QueueHandle /\ Self.fn \notin {"none", "overwrite", "reset"}
              BY <4>1, <3>4, WaitingFacts DEF Test, At
        <4>3. cTxLock[Self.q] >= 0 /\ cRxLock[Self.q] >= 0
              BY <1>1, <2>2, <3>4, <4>2 DEF LockInv, TxLocked, RxLocked, queueUNLOCKED
        <4>4. IF Sends(Self.fn) THEN prvIsQueueFull(Self.q) ELSE prvIsQueueEmpty(Self.q)
          <5> SUFFICES ASSUME ~(IF Sends(Self.fn) THEN prvIsQueueFull(Self.q) ELSE prvIsQueueEmpty(Self.q))
                       PROVE  FALSE
                OBVIOUS
          <5>1. Becomes([Self EXCEPT !.pc = "unlockTx", !.outcome = "retry"]) BY <4>1 DEF Test
          <5>2. Self' = [Self EXCEPT !.pc = "unlockTx", !.outcome = "retry"]
                BY <2>1, <2>2, <4>1, <5>1, BecomesMove DEF Test
          <5> QED BY <2>2, <2>4, <5>2 DEF Frame
        <4>5. \A side \in Side : WaitsOn(Self.fn, side) => Slack(Self.q, side) = 0
              BY <1>1, <4>2, <4>4
              DEF Side, WaitsOn, Slack, Sends, prvIsQueueFull, prvIsQueueEmpty
        <4>6. \A q, side : Slack(q, side)' = Slack(q, side) /\ LockOf(q, side)' = LockOf(q, side)
              BY <3>2 DEF Slack, LockOf
        <4>7. \A side \in Side : LockOf(Self.q, side) >= 0 BY <4>3 DEF LockOf
        <4> QED BY <3>2, <4>5, <4>6, <4>7 DEF Reason
      <3> QED BY <3>1, <3>3, <3>4
    <2> QED BY <2>3, <2>4
  <1>6. CASE SystemNext /\ ~HandlerStep
    <2>1. /\ StayPut /\ UNCHANGED <<uxMessagesWaiting, lockVars>>
          /\ pxCurrentTCB' = pxCurrentTCB \/ \A t \in Task : Stops(frame[t].pc)
          /\ xSchedulerRunning => pxCurrentTCB \in Task /\ xSchedulerRunning'
          BY <1>6, SystemMoves
    <2>2. \A t \in Task : frame'[t].pc = frame[t].pc /\ frame'[t].q = frame[t].q /\ frame'[t].fn = frame[t].fn
          BY <2>1, StayPutFacts
    <2>3. xSchedulerRunning' => pxCurrentTCB' \in Task
          BY QNextStep DEF QInv, KInv, SectionsAreInStep
    <2>4. CASE \A t \in Task : Stops(frame[t].pc)
      <3>1. xSchedulerRunning' => Stops(Self'.pc) BY <2>2, <2>3, <2>4 DEF Self
      <3> QED BY <3>1 DEF Reason, Stops, Preemptible
    <2>5. CASE pxCurrentTCB' = pxCurrentTCB /\ xSchedulerRunning
      <3>1. Self'.pc = Self.pc /\ Self'.q = Self.q /\ Self'.fn = Self.fn
            BY <2>1, <2>2, <2>5 DEF Self
      <3> QED BY <1>2, <2>1, <2>5, <3>1
    <2>6. CASE ~xSchedulerRunning BY <2>4, <2>6 DEF QInv, Control, Stops, Preemptible
    <2> QED BY <2>1, <2>4, <2>5, <2>6
  <1>7. CASE HandlerStep
    <2> SUFFICES ASSUME Self'.pc \in {"inherit", "place"}, NEW q \in QueueHandle, NEW side \in Side,
                        Self'.q = q, WaitsOn(Self'.fn, side)
                 PROVE  Slack(q, side)' <= LockOf(q, side)'
          BY DEF Reason
    <2>1. xSchedulerRunning /\ Self' = Self BY <1>7, HandlerEffect
    <2>2. Self.pc \in {"inherit", "place"} /\ Self.q = q /\ WaitsOn(Self.fn, side) BY <2>1
    <2>3. Slack(q, side) <= LockOf(q, side) BY <2>1, <2>2 DEF Reason
    <2>4. Slack(q, side) \in Nat /\ LockOf(q, side) \in Int BY <2>1, BalanceTypes
    <2>5. LockOf(q, side) # queueUNLOCKED
          BY <2>1, <2>2 DEF LockInv, LockOf, TxLocked, RxLocked
    <2>6. \/ Slack(q, side)' <= Slack(q, side) /\ LockOf(q, side)' = LockOf(q, side)
          \/ Slack(q, side)' = Slack(q, side) + 1 /\ LockOf(q, side)' = LockOf(q, side) + 1
          BY <1>7, <2>5, HandlerEffect
    <2>7. Slack(q, side)' \in Nat
      <3>1. QInv' BY QNextStep
      <3>2. xSchedulerRunning' BY <1>7, <2>1, SystemMoves DEF SystemNext
      <3> QED BY <3>1, <3>2, NextTypes
    <2> HIDE DEF Slack, LockOf
    <2> QED BY <2>3, <2>4, <2>6, <2>7
  <1> QED BY <1>3, <1>4, <1>5, <1>6, <1>7 DEF QNext, SystemNext

(* What the lock owes stays the same outside the loops of prvUnlockQueue.   *)
LEMMA SameOwed ==
    ASSUME NEW q, NEW side, LockOf(q, side)' = LockOf(q, side),
           Self.pc \notin {"wakeReceivers", "wakeSenders"},
           Self'.pc \notin {"wakeReceivers", "wakeSenders"}
    PROVE  Owes(q, side)' = Owes(q, side)
  BY DEF Owes, WakePlace

(* Nothing that the system does forgets a task.                             *)
LEMMA SystemForgets ==
    ASSUME QInv, DelayInv, WaitersFit, LockInv, SystemNext,
           NEW q \in QueueHandle, NEW side \in Side, NEW d \in Nat, NotForgotten(q, side, d),
           ~CountedTooLate(q, side)
    PROVE  NotForgotten(q, side, d)'
  <1> DEFINE W == WaitingTasks(<<q, side>>)
             H == Heads(q, side)
             S == Slack(q, side)
             O == Owes(q, side)
  <1>1. /\ StayPut /\ SleepersStay
        /\ pxCurrentTCB' = pxCurrentTCB \/ (~HandlerStep /\ \A t \in Task : Stops(frame[t].pc))
        /\ xSchedulerRunning => pxCurrentTCB \in Task /\ xSchedulerRunning'
        /\ ~HandlerStep => UNCHANGED <<uxMessagesWaiting, lockVars>>
        BY SystemMoves
  <1>2. /\ W' \subseteq W /\ H \subseteq H'
        /\ \A t \in Task : Going(frame[t], q, side) /\ t \notin W' => t \in H'
        BY <1>1, SystemHeads
  <1>3. CASE ~xSchedulerRunning
    <2>1. pxDelayedTaskList = << >> /\ pxOverflowDelayedTaskList = << >>
          BY <1>3 DEF QInv, KInv, SectionsAreInStep
    <2>2. \A t : ~Delayed(t) BY <2>1, NobodyInEmpty DEF Delayed
    <2>3. W = {} BY <2>2, WaiterFacts
    <2> QED BY <1>2, <2>3 DEF NotForgotten
  <1>4. CASE xSchedulerRunning
    <2>1. QInv' /\ xSchedulerRunning' BY <1>1, <1>4, QNextStep DEF QNext, SystemNext
    <2>2. /\ S \in Nat /\ O \in Nat /\ IsFiniteSet(H) /\ Cardinality(H) \in Nat
          /\ LockOf(q, side) \in Int
          BY <1>4, BalanceTypes
    <2>3. /\ S' \in Nat /\ O' \in Nat /\ IsFiniteSet(H') /\ Cardinality(H') \in Nat
          BY <2>1, NextTypes
    <2>4. Cardinality(H) <= Cardinality(H') BY <1>2, <2>2, <2>3, Counted
    <2>5. ASSUME ~HandlerStep PROVE S' = S /\ O' = O
      <3>1. UNCHANGED <<uxMessagesWaiting, lockVars>> BY <1>1, <2>5
      <3>2. S' = S /\ LockOf(q, side)' = LockOf(q, side) BY <3>1 DEF Slack, LockOf
      <3>3. \A t \in Task : frame'[t].pc = frame[t].pc /\ frame'[t].q = frame[t].q /\ frame'[t].cLock = frame[t].cLock
            BY <1>1, StayPutFacts
      <3>4. CASE pxCurrentTCB' = pxCurrentTCB
        <4>1. Self'.pc = Self.pc /\ Self'.q = Self.q /\ Self'.cLock = Self.cLock
              BY <1>1, <1>4, <3>3, <3>4 DEF Self
        <4> QED BY <3>2, <4>1 DEF Owes
      <3>5. CASE \A t \in Task : Stops(frame[t].pc)
        <4>1. pxCurrentTCB' \in Task BY <2>1 DEF QInv, KInv, SectionsAreInStep
        <4>2. Stops(Self.pc) /\ Stops(Self'.pc)
              BY <1>1, <1>4, <3>3, <3>5, <4>1 DEF Self
        <4> QED BY <3>2, <4>2, SameOwed DEF Stops, Preemptible
      <3> QED BY <1>1, <3>4, <3>5
    <2>6. ASSUME HandlerStep, W' # {} PROVE S' + O + Cardinality(H) <= S + O' + Cardinality(H')
      <3> DEFINE L == LockOf(q, side)
      <3>1. Self' = Self BY <2>6, HandlerEffect
      <3>2. \/ O = (IF L > 0 THEN L ELSE 0) /\ O' = (IF L' > 0 THEN L' ELSE 0)
            \/ O' = O /\ L' # L + 1
        <4>1. CASE Self.q = q /\ Self.pc = WakePlace(side)
          <5>1. L' # L + 1 BY <2>6, <4>1 DEF CountedTooLate
          <5>2. O' = O BY <3>1, <4>1 DEF Owes
          <5> QED BY <5>1, <5>2
        <4>2. CASE ~(Self.q = q /\ Self.pc = WakePlace(side)) BY <3>1, <4>2 DEF Owes
        <4> QED BY <4>1, <4>2
      <3>3. L >= -1
        <4>1. cTxLock[q] >= queueUNLOCKED /\ cRxLock[q] >= queueUNLOCKED BY DEF LockInv
        <4> QED BY <4>1 DEF LockOf, queueUNLOCKED
      <3>4. \/ S' <= S /\ L' = L
            \/ S' = S + 1 /\ L # -1 /\ L' = L + 1
            \/ /\ S' = S + 1 /\ L' = L
               /\ \E t \in W : t \notin W'
            BY <2>6, HandlerEffect DEF queueUNLOCKED
      <3> HIDE DEF S, O, H, L
      <3>5. CASE S' <= S /\ L' = L BY <2>2, <2>3, <2>4, <3>2, <3>5
      <3>6. CASE S' = S + 1 /\ L # -1 /\ L' = L + 1
        <4>1. L \in Int BY <2>2 DEF L
        <4> QED BY <2>2, <2>3, <2>4, <3>2, <3>3, <3>6, <4>1
      <3>7. CASE S' = S + 1 /\ L' = L /\ \E t \in W : t \notin W'
        <4>1. PICK t \in W : t \notin W' BY <3>7
        <4>2. t \in Task /\ Going(frame[t], q, side) /\ t \notin H BY WaiterFacts DEF H
        <4>3. t \in H' BY <1>2, <4>1, <4>2
        <4>4. Cardinality(H) + 1 <= Cardinality(H') BY <1>2, <2>2, <2>3, <4>2, <4>3, Counted
        <4> QED BY <2>2, <2>3, <3>2, <3>7, <4>4
      <3> QED BY <3>4, <3>5, <3>6, <3>7
    <2>7. W' # {} => S' + O + Cardinality(H) <= S + O' + Cardinality(H')
      <3> HIDE DEF S, O, H
      <3> QED BY <2>2, <2>3, <2>4, <2>5, <2>6
    <2> QED BY <1>2, <1>4, <2>1, <2>7, Balance
  <1> QED BY <1>3, <1>4

(* A step of a call that keeps going, brings nothing and drops no debt.     *)
LEMMA QuietForgets ==
    ASSUME QInv, QInv', OwnMove, SleepersStay, NEW q \in QueueHandle, NEW side \in Side,
           NEW d \in Nat, NotForgotten(q, side, d), Going(Self, q, side) => Going(Self', q, side),
           Slack(q, side)' <= Slack(q, side), Owes(q, side)' >= Owes(q, side)
    PROVE  NotForgotten(q, side, d)'
  <1>1. xSchedulerRunning /\ xSchedulerRunning' BY DEF OwnMove
  <1>2. /\ WaitingTasks(<<q, side>>)' \subseteq WaitingTasks(<<q, side>>)
        /\ Heads(q, side) \subseteq Heads(q, side)'
        BY OwnHeads
  <1>3. /\ Slack(q, side) \in Nat /\ Owes(q, side) \in Nat
        /\ IsFiniteSet(Heads(q, side)) /\ Cardinality(Heads(q, side)) \in Nat
        BY <1>1, BalanceTypes
  <1>4. /\ Slack(q, side)' \in Nat /\ Owes(q, side)' \in Nat
        /\ IsFiniteSet(Heads(q, side)') /\ Cardinality(Heads(q, side)') \in Nat
        BY <1>1, NextTypes
  <1>5. Cardinality(Heads(q, side)) <= Cardinality(Heads(q, side)') BY <1>2, <1>3, <1>4, Counted
  <1>6. Slack(q, side)' + Owes(q, side) + Cardinality(Heads(q, side)) <=
            Slack(q, side) + Owes(q, side)' + Cardinality(Heads(q, side)')
        BY <1>3, <1>4, <1>5
  <1> QED BY <1>1, <1>2, <1>6, Balance

(* A call that looks at the queue again still does a step later.            *)
LEMMA GoingStays ==
    ASSUME NEW f, NEW g, FrameFits(g), GoesOn(f, g), f.pc \notin {"try", "notify"},
           NEW q, NEW side, Going(f, q, side)
    PROVE  Going(g, q, side)
  <1>1. /\ f.q = q /\ WaitsOn(f.fn, side) /\ g.q = q /\ WaitsOn(g.fn, side)
        /\ f.pc = "yield" \/ (f.pc \in Unlocking \cup {"resuming"} /\ f.outcome \in {"block", "retry"})
        BY DEF Going, GoesOn
  <1>2. CASE f.pc = "yield"
    <2>1. g.pc = "try" BY <1>2 DEF GoesOn, Moves
    <2> QED BY <1>1, <2>1 DEF Going
  <1>3. CASE f.pc \in Unlocking /\ f.outcome \in {"block", "retry"}
    <2>1. g.pc \in Unlocking \cup {"resuming"} /\ g.outcome = f.outcome
          BY <1>3 DEF GoesOn, Moves, Outcome, Unlocking
    <2> QED BY <1>1, <1>3, <2>1 DEF Going
  <1>4. CASE f.pc = "resuming" /\ f.outcome \in {"block", "retry"}
    <2>1. g.pc \in {"recheck", "yield", "try"} BY <1>4 DEF GoesOn, Moves
    <2>2. g.pc # "recheck"
      <3>1. g.pc = "recheck" => g.outcome = f.outcome BY <1>4 DEF GoesOn, Outcome
      <3>2. g.pc = "recheck" => g.outcome = "timeout" BY DEF FrameFits, Unlocking
      <3> QED BY <1>4, <3>1, <3>2
    <2> QED BY <1>1, <2>1, <2>2 DEF Going
  <1> QED BY <1>1, <1>2, <1>3, <1>4

(* The copy into or out of the queue: whoever makes room or brings a        *)
(* message is about to wake a task, and whoever uses one up was counted.    *)
LEMMA CommitForgets ==
    ASSUME QInv, WaitersFit, Commit,
           NEW q \in QueueHandle, NEW side \in Side, NEW d \in Nat, NotForgotten(q, side, d)
    PROVE  NotForgotten(q, side, d)'
  <1> DEFINE H == Heads(q, side)
             S == Slack(q, side)
             O == Owes(q, side)
             m == uxMessagesWaiting[q]
             fn == Self.fn
  <1>1. /\ TaskRuns /\ Self.pc = "try" /\ Available(fn, Self.q) /\ UNCHANGED lockVars
        BY DEF Commit, At
  <1>2. OwnMove /\ GoesOn(Self, Self') /\ Self'.pc = "notify"
    <2>1. CallStep BY DEF CallStep, TryStep
    <2>2. Self'.pc = "notify" BY <2>1, WhichStep
    <2> QED BY <2>2, TryMoves, FrameFacts DEF TryStep, Returns
  <1>3. SleepersStay BY <1>1, OnlyPlaceSleeps DEF CallStep, TryStep, Place, At
  <1>4. QInv' BY QNextStep DEF QNext, CallStep, TryStep
  <1>5. Self'.q = Self.q /\ Self'.fn = fn /\ xSchedulerRunning /\ xSchedulerRunning'
        BY <1>2 DEF GoesOn, OwnMove
  <1>6. O' = O
    <2>1. LockOf(q, side)' = LockOf(q, side) BY <1>1 DEF LockOf
    <2> QED BY <1>1, <1>2, <2>1, SameOwed
  <1>7. CASE q # Self.q
    <2>1. ~Going(Self, q, side) BY <1>7 DEF Going
    <2>2. S' = S
      <3>1. uxMessagesWaiting'[q] = m BY <1>7 DEF Commit, QInv, QTypeOK
      <3> QED BY <3>1 DEF Slack
    <2>3. S \in Nat /\ O \in Nat BY <1>5, BalanceTypes
    <2> QED BY <1>2, <1>3, <1>4, <1>6, <2>1, <2>2, <2>3, QuietForgets
  <1>8. CASE q = Self.q
    <2>1. /\ S \in Nat /\ O \in Nat /\ IsFiniteSet(H) /\ Cardinality(H) \in Nat BY <1>5, BalanceTypes
    <2>2. /\ S' \in Nat /\ IsFiniteSet(H') /\ Cardinality(H') \in Nat BY <1>4, <1>5, NextTypes
    <2>3. /\ WaitingTasks(<<q, side>>)' \subseteq WaitingTasks(<<q, side>>)
          /\ H \ {pxCurrentTCB} \subseteq H'
          /\ (Going(Self, q, side) => Going(Self', q, side)) => H \subseteq H'
          /\ Going(Self', q, side) /\ pxCurrentTCB \notin WaitingTasks(<<q, side>>) => pxCurrentTCB \in H'
          /\ pxCurrentTCB \in H => Going(Self, q, side)
          BY <1>2, <1>3, OwnHeads
    <2>4. /\ Going(Self, q, side) <=> WaitsOn(fn, side)
          /\ Going(Self', q, side) <=> Wakes(fn, side)
          BY <1>1, <1>2, <1>5, <1>8 DEF Going, Unlocking
    <2>5. pxCurrentTCB \in WaitingTasks(<<q, side>>) => WaitsOn(fn, side)
          BY DEF WaitersFit, Self
    <2>6. /\ WaitsOn(fn, side) /\ ~Wakes(fn, side) => S' = S - 1
          /\ ~WaitsOn(fn, side) /\ Wakes(fn, side) => S' <= S + 1
          /\ ~(WaitsOn(fn, side) /\ ~Wakes(fn, side)) /\ ~(~WaitsOn(fn, side) /\ Wakes(fn, side)) => S' <= S
      <3>1. m \in Nat /\ uxLength[q] \in Nat BY QueueAssumption DEF QInv, QTypeOK
      <3>2. uxMessagesWaiting'[q] = IF fn = "peek" \/ (fn = "overwrite" /\ m > 0) THEN m
                                    ELSE IF Sends(fn) THEN m + 1 ELSE m - 1
            BY <1>8 DEF Commit, QInv, QTypeOK
      <3>3. fn \in {"send", "overwrite", "receive", "peek", "take", "takeRecursive"}
            BY <1>1, OwnFacts DEF Frame, FrameFits
      <3> HIDE DEF m, fn
      <3>4. CASE side = "send"
        <4>1. S = uxLength[q] - m /\ S' = uxLength[q] - uxMessagesWaiting'[q] BY <3>4 DEF Slack, m
        <4>2. /\ WaitsOn(fn, side) <=> fn = "send"
              /\ Wakes(fn, side) <=> fn \in {"receive", "take", "takeRecursive"}
              BY <3>3, <3>4 DEF WaitsOn, Wakes
        <4> HIDE DEF S
        <4> QED BY <3>1, <3>2, <3>3, <4>1, <4>2 DEF Sends
      <3>5. CASE side = "receive"
        <4>1. S = m /\ S' = uxMessagesWaiting'[q] BY <3>5 DEF Slack, m
        <4>2. /\ WaitsOn(fn, side) <=> fn \in {"receive", "peek", "take", "takeRecursive"}
              /\ Wakes(fn, side) <=> fn \in {"send", "overwrite", "peek"}
              BY <3>3, <3>5 DEF WaitsOn, Wakes
        <4> HIDE DEF S
        <4> QED BY <3>1, <3>2, <3>3, <4>1, <4>2 DEF Sends
      <3> QED BY <3>4, <3>5 DEF Side
    <2>7. S' + Cardinality(H) <= S + Cardinality(H')
      <3> HIDE DEF S, H, fn
      <3>1. CASE WaitsOn(fn, side) /\ ~Wakes(fn, side)
        <4>1. Cardinality(H) - 1 <= Cardinality(H') BY <2>1, <2>2, <2>3, Counted
        <4> QED BY <2>1, <2>2, <2>6, <3>1, <4>1
      <3>2. CASE ~WaitsOn(fn, side) /\ Wakes(fn, side)
        <4>1. H \subseteq H' /\ pxCurrentTCB \in H' /\ pxCurrentTCB \notin H
              BY <2>3, <2>4, <2>5, <3>2
        <4>2. Cardinality(H) + 1 <= Cardinality(H') BY <2>1, <2>2, <4>1, Counted
        <4> QED BY <2>1, <2>2, <2>6, <3>2, <4>2
      <3>3. CASE ~(WaitsOn(fn, side) /\ ~Wakes(fn, side)) /\ ~(~WaitsOn(fn, side) /\ Wakes(fn, side))
        <4>1. H \subseteq H' BY <2>3, <2>4, <3>3
        <4>2. Cardinality(H) <= Cardinality(H') BY <2>1, <2>2, <4>1, Counted
        <4> QED BY <2>1, <2>2, <2>6, <3>3, <4>2
      <3> QED BY <3>1, <3>2, <3>3
    <2>8. S' + O + Cardinality(H) <= S + O' + Cardinality(H')
      <3> HIDE DEF S, O, H
      <3> QED BY <1>6, <2>1, <2>2, <2>7
    <2> QED BY <1>4, <1>5, <2>3, <2>8, Balance
  <1> QED BY <1>7, <1>8

(* The notification: the task that is woken takes the place of the one that *)
(* wakes it.                                                                *)
LEMMA NotifyForgets ==
    ASSUME QInv, DelayInv, WaitersFit, Notify,
           NEW q \in QueueHandle, NEW side \in Side, NEW d \in Nat, NotForgotten(q, side, d)
    PROVE  NotForgotten(q, side, d)'
  <1> DEFINE H == Heads(q, side)
             S == Slack(q, side)
             O == Owes(q, side)
             e == WakeList(Self.fn, Self.q)
  <1>1. /\ TaskRuns /\ Self.pc = "notify" /\ UNCHANGED <<uxMessagesWaiting, lockVars>> BY DEF Notify, At
  <1>2. OwnMove /\ Self'.pc \in {"count", "app"}
        BY <1>1, TryMoves, FrameFacts DEF TryStep, GoesOn, Moves, Returns
  <1>3. SleepersStay BY <1>1, OnlyPlaceSleeps DEF CallStep, TryStep, Place, At
  <1>4. QInv' BY QNextStep DEF QNext, CallStep, TryStep
  <1>5. xSchedulerRunning /\ xSchedulerRunning' BY <1>2 DEF OwnMove
  <1>6. S' = S /\ O' = O
    <2>1. LockOf(q, side)' = LockOf(q, side) /\ S' = S BY <1>1 DEF LockOf, Slack
    <2> QED BY <1>1, <1>2, <2>1, SameOwed
  <1>7. S \in Nat /\ O \in Nat /\ IsFiniteSet(H) /\ Cardinality(H) \in Nat BY <1>5, BalanceTypes
  <1>8. CASE ~Going(Self, q, side)
        BY <1>2, <1>3, <1>4, <1>6, <1>7, <1>8, QuietForgets
  <1>9. CASE Going(Self, q, side)
    <2>1. Self.q = q /\ Wakes(Self.fn, side) BY <1>1, <1>9 DEF Going, Unlocking
    <2>2. e = <<q, side>> /\ e \in EventList
          BY <2>1, QueueAssumption
          DEF Wakes, WakeList, xTasksWaitingToReceive, xTasksWaitingToSend, Side
    <2>3. CASE xEventLists[e] = << >>
      <3>1. WaitingTasks(<<q, side>>) = {} BY <2>2, <2>3, NobodyInEmpty DEF WaitingTasks
      <3>2. WaitingTasks(<<q, side>>)' = {} BY <1>2, <1>3, <3>1, OwnHeads
      <3> QED BY <3>2 DEF NotForgotten
    <2>4. CASE xEventLists[e] # << >>
      <3>1. xTaskRemoveFromEventList(<<q, side>>, TRUE)
        <4>1. xTaskRemoveFromEventList(e, TRUE) BY <2>4 DEF Notify
        <4> HIDE DEF e
        <4> QED BY <2>2, <4>1
      <3>2. section = NoSection BY <1>1 DEF TaskRuns
      <3>3. uxCriticalNesting' \in 0 .. MaxCritical BY <1>4 DEF QInv, KInv, TypeOK
      <3>4. PICK t \in WaitingTasks(<<q, side>>) : t \notin WaitingTasks(<<q, side>>)'
        <4>1. /\ xEventLists[<<q, side>>][1] \in WaitingTasks(<<q, side>>)
              /\ WaitingTasks(<<q, side>>)' = WaitingTasks(<<q, side>>) \ {xEventLists[<<q, side>>][1]}
              BY <1>5, <2>2, <3>1, <3>2, <3>3, xTaskRemoveFromEventList_Inv DEF QInv
        <4> QED BY <4>1
      <3>5. t \in Task /\ Blocked(frame[t]) /\ Going(frame[t], q, side) /\ t \notin H BY WaiterFacts
      <3>6. t # pxCurrentTCB BY <1>1, <3>5 DEF Blocked, Unlocking, Self
      <3>7. t \in H'
        <4>1. frame'[t] = frame[t] BY <1>2, <3>5, <3>6 DEF OwnMove
        <4>2. H' = {u \in Task : Going(frame'[u], q, side) /\ u \notin WaitingTasks(<<q, side>>)'}
              BY DEF Heads, Going
        <4> QED BY <3>4, <3>5, <4>1, <4>2
      <3>8. /\ WaitingTasks(<<q, side>>)' \subseteq WaitingTasks(<<q, side>>)
            /\ H \ {pxCurrentTCB} \subseteq H'
            BY <1>2, <1>3, OwnHeads
      <3>9. IsFiniteSet(H') /\ Cardinality(H') \in Nat BY <1>4, <1>5, NextTypes
      <3>10. Cardinality(H) <= Cardinality(H') BY <1>7, <3>5, <3>7, <3>8, <3>9, Counted
      <3>11. S' + O + Cardinality(H) <= S + O' + Cardinality(H')
        <4> HIDE DEF S, O, H
        <4> QED BY <1>6, <1>7, <3>9, <3>10
      <3> QED BY <1>4, <1>5, <3>8, <3>11, Balance
    <2> QED BY <2>3, <2>4
  <1> QED BY <1>8, <1>9

(* Nothing is there, so nobody is owed anything.                            *)
LEMMA NotAvailableForgets ==
    ASSUME QInv, NotAvailable,
           NEW q \in QueueHandle, NEW side \in Side, NEW d \in Nat, NotForgotten(q, side, d)
    PROVE  NotForgotten(q, side, d)'
  <1>1. /\ TaskRuns /\ Self.pc = "try" /\ ~Available(Self.fn, Self.q)
        /\ UNCHANGED <<uxMessagesWaiting, lockVars>>
        BY DEF NotAvailable, At
  <1>2. OwnMove /\ (GoesOn(Self, Self') \/ Returns(Self, Self')) BY TryMoves DEF TryStep
  <1>3. SleepersStay BY <1>1, OnlyPlaceSleeps DEF CallStep, TryStep, Place, At
  <1>4. QInv' BY QNextStep DEF QNext, CallStep, TryStep
  <1>5. xSchedulerRunning /\ xSchedulerRunning' BY <1>2 DEF OwnMove
  <1>6. Self'.pc \in {"notify", "suspend", "app"}
        BY <1>1, <1>2, FrameFacts DEF GoesOn, Moves, Returns
  <1>7. Slack(q, side)' = Slack(q, side) /\ Owes(q, side)' = Owes(q, side)
    <2>1. LockOf(q, side)' = LockOf(q, side) /\ Slack(q, side)' = Slack(q, side)
          BY <1>1 DEF LockOf, Slack
    <2> QED BY <1>1, <1>6, <2>1, SameOwed
  <1>8. /\ Slack(q, side) \in Nat /\ Owes(q, side) \in Nat BY <1>5, BalanceTypes
  <1>9. CASE ~Going(Self, q, side)
        BY <1>2, <1>3, <1>4, <1>7, <1>8, <1>9, QuietForgets
  <1>10. CASE Going(Self, q, side)
    <2>1. Self.q = q /\ WaitsOn(Self.fn, side) BY <1>1, <1>10 DEF Going
    <2>2. /\ uxMessagesWaiting[q] \in Nat /\ uxLength[q] \in Nat /\ uxMessagesWaiting[q] <= uxLength[q]
          BY QueueAssumption DEF QInv, QTypeOK
    <2>3. Slack(q, side) = 0
          BY <1>1, <2>1, <2>2 DEF Available, Sends, WaitsOn, Slack, Side
    <2>4. Owes(q, side)' \in Nat /\ Cardinality(Heads(q, side)') \in Nat BY <1>4, <1>5, NextTypes
    <2> QED BY <1>7, <2>3, <2>4 DEF NotForgotten
  <1> QED BY <1>9, <1>10

(* A task enters the event list only with a reason: what came since it      *)
(* looked is owed.                                                          *)
LEMMA PlaceForgets ==
    ASSUME QInv, Reason, LockInv, Place,
           NEW q \in QueueHandle, NEW side \in Side, NEW d \in Nat, NotForgotten(q, side, d)
    PROVE  NotForgotten(q, side, d)'
  <1> DEFINE e == WaitList(Self.fn, Self.q)
             n == Self.xTicksToWait
  <1>1. /\ TaskRuns /\ Self.pc = "place" /\ UNCHANGED <<uxMessagesWaiting, lockVars>>
        /\ vTaskPlaceOnEventList(e, n)
        BY DEF Place, At
  <1>2. OwnMove /\ GoesOn(Self, Self') /\ Self'.pc = "unlockTx"
        BY <1>1, WaitMoves DEF WaitStep, Returns, GoesOn, Moves
  <1>3. QInv' BY QNextStep DEF QNext, CallStep, WaitStep
  <1>4. xSchedulerRunning /\ xSchedulerRunning' BY <1>2 DEF OwnMove
  <1>5. /\ Slack(q, side)' = Slack(q, side) /\ LockOf(q, side)' = LockOf(q, side)
        /\ Owes(q, side)' = Owes(q, side)
    <2>1. LockOf(q, side)' = LockOf(q, side) /\ Slack(q, side)' = Slack(q, side)
          BY <1>1 DEF LockOf, Slack
    <2> QED BY <1>1, <1>2, <2>1, SameOwed
  <1>6. /\ Slack(q, side) \in Nat /\ Owes(q, side) \in Nat /\ LockOf(q, side) \in Int
        /\ IsFiniteSet(Heads(q, side)) /\ Cardinality(Heads(q, side)) \in Nat
        BY <1>4, BalanceTypes
  <1>7. /\ IsFiniteSet(Heads(q, side)') /\ Cardinality(Heads(q, side)') \in Nat BY <1>3, <1>4, NextTypes
  <1>8. CASE q = Self.q /\ WaitsOn(Self.fn, side)
    <2>1. Slack(q, side) <= LockOf(q, side) BY <1>1, <1>4, <1>8 DEF Reason
    <2>2. LockOf(q, side) <= Owes(q, side) BY <1>1, <1>6 DEF Owes, WakePlace
    <2> QED BY <1>5, <1>6, <1>7, <2>1, <2>2 DEF NotForgotten
  <1>9. CASE ~(q = Self.q /\ WaitsOn(Self.fn, side))
    <2>1. /\ pxCurrentTCB \in Task /\ Self \in Frame /\ FrameFits(Self) /\ KInv /\ pxCurrentTCB # IdleTask
          /\ Ready(pxCurrentTCB) /\ uxSchedulerSuspended > 0
          BY <1>1, OwnFacts DEF Suspended, Looking, Unlocking
    <2>2. WaitingTasks(<<q, side>>)' = WaitingTasks(<<q, side>>)
      <3>1. e \in EventList
            BY <1>1, <2>1, QueueAssumption
            DEF FrameFits, WaitList, xTasksWaitingToSend, xTasksWaitingToReceive
      <3>2. uxCriticalNesting' \in 0 .. MaxCritical BY <1>3 DEF QInv, KInv, TypeOK
      <3>3. n \in 1 .. portMAX_DELAY
            BY <1>1, <2>1, KernelAssumption
            DEF Frame, FrameFits, Looking, TickType, portMAX_DELAY
      <3>4. Self.fn \notin {"none", "overwrite", "reset"} BY <1>1, WaitingFacts
      <3>5. <<q, side>> # e
            BY <1>9, <2>1, <3>4
            DEF WaitList, Sends, xTasksWaitingToSend, xTasksWaitingToReceive, WaitsOn, Frame
      <3>6. <<q, side>> \in EventList BY <1>4, BalanceTypes
      <3> HIDE DEF e, n
      <3>7. \A f \in EventList : WaitingTasks(f)' =
                IF f = e THEN WaitingTasks(f) \cup {pxCurrentTCB} ELSE WaitingTasks(f)
            BY <1>1, <2>1, <3>1, <3>2, <3>3, vTaskPlaceOnEventList_Inv
      <3> QED BY <3>5, <3>6, <3>7
    <2>3. Heads(q, side) \subseteq Heads(q, side)'
      <3>1. ~Going(Self, q, side) BY <1>1, <1>9 DEF Going
      <3>2. Heads(q, side)' = {t \in Task : Going(frame'[t], q, side) /\ t \notin WaitingTasks(<<q, side>>)'}
            BY DEF Heads, Going
      <3>3. \A t \in Heads(q, side) : frame'[t] = frame[t]
            BY <1>2, <3>1 DEF Heads, OwnMove
      <3> QED BY <2>2, <3>2, <3>3 DEF Heads
    <2>4. Cardinality(Heads(q, side)) <= Cardinality(Heads(q, side)') BY <1>6, <1>7, <2>3, Counted
    <2>5. Slack(q, side)' + Owes(q, side) + Cardinality(Heads(q, side)) <=
              Slack(q, side) + Owes(q, side)' + Cardinality(Heads(q, side)')
          BY <1>5, <1>6, <1>7, <2>4
    <2> QED BY <1>3, <1>4, <2>2, <2>5, Balance
  <1> QED BY <1>8, <1>9

(* prvUnlockQueue begins one of its loops: it owes what the lock counted.   *)
LEMMA UnlockForgets ==
    ASSUME QInv, UnlockTx \/ UnlockRx,
           NEW q \in QueueHandle, NEW side \in Side, NEW d \in Nat, NotForgotten(q, side, d)
    PROVE  NotForgotten(q, side, d)'
  <1>1. /\ TaskRuns /\ Self.pc \in {"unlockTx", "unlockRx"} /\ UNCHANGED <<uxMessagesWaiting, lockVars>>
        BY DEF UnlockTx, UnlockRx, At
  <1>2. OwnMove /\ GoesOn(Self, Self')
        BY <1>1, WaitMoves DEF WaitStep, prvUnlockQueue, Returns
  <1>3. SleepersStay BY <1>1, OnlyPlaceSleeps DEF CallStep, WaitStep, prvUnlockQueue, Place, At
  <1>4. QInv' BY QNextStep DEF QNext, CallStep, WaitStep, prvUnlockQueue
  <1>5. xSchedulerRunning /\ Self'.q = Self.q BY <1>2 DEF OwnMove, GoesOn
  <1>6. Self \in Frame BY <1>1, OwnFacts
  <1>7. /\ UnlockTx => Self'.pc = "wakeReceivers" /\ Self'.cLock = LockOf(Self.q, "receive")
        /\ UnlockRx => Self'.pc = "wakeSenders" /\ Self'.cLock = LockOf(Self.q, "send")
    <2>1. UNCHANGED <<pxCurrentTCB, xSchedulerRunning, xTickCount>> BY DEF UnlockTx, UnlockRx
    <2>2. UnlockTx => Self' = [Self EXCEPT !.pc = "wakeReceivers", !.cLock = cTxLock[Self.q]]
          BY <1>5, <2>1, BecomesMove DEF UnlockTx
    <2>3. UnlockRx => Self' = [Self EXCEPT !.pc = "wakeSenders", !.cLock = cRxLock[Self.q]]
          BY <1>5, <2>1, BecomesMove DEF UnlockRx
    <2> QED BY <1>6, <2>2, <2>3 DEF Frame, LockOf
  <1>8. Slack(q, side)' = Slack(q, side) /\ LockOf(q, side)' = LockOf(q, side)
        BY <1>1 DEF Slack, LockOf
  <1>9. Owes(q, side)' = Owes(q, side)
    <2>1. CASE Self.q = q /\ Self'.pc = WakePlace(side)
      <3>1. Self'.cLock = LockOf(q, side) BY <1>7, <2>1 DEF WakePlace, Side
      <3> QED BY <1>1, <1>5, <2>1, <3>1 DEF Owes, WakePlace
    <2>2. CASE ~(Self.q = q /\ Self'.pc = WakePlace(side))
          BY <1>1, <1>5, <1>8, <2>2 DEF Owes, WakePlace
    <2> QED BY <2>1, <2>2
  <1>10. Slack(q, side) \in Nat /\ Owes(q, side) \in Nat BY <1>5, BalanceTypes
  <1>11. Going(Self, q, side) => Going(Self', q, side)
    <2>1. FrameFits(Self') BY <1>2, <1>4 DEF OwnMove, QInv, FramesFit
    <2> QED BY <1>1, <1>2, <2>1, GoingStays
  <1> QED BY <1>2, <1>3, <1>4, <1>8, <1>9, <1>10, <1>11, QuietForgets

(* One turn of such a loop: one task less is owed a wake-up, one more is on *)
(* its way.  It may be the current task itself.                             *)
LEMMA WakeOneForgets ==
    ASSUME QInv, QInv', DelayInv, WaitersFit, OwnMove, SleepersStay, GoesOn(Self, Self'),
           NEW r \in QueueHandle, NEW s \in Side, TaskRuns, Self.q = r, Self.pc = WakePlace(s),
           Self'.pc = Self.pc, Self.cLock > 0, Self'.cLock = Self.cLock - 1,
           xTaskRemoveFromEventList(<<r, s>>, FALSE),
           UNCHANGED <<uxMessagesWaiting, lockVars>>,
           NEW q \in QueueHandle, NEW side \in Side, NEW d \in Nat, NotForgotten(q, side, d)
    PROVE  NotForgotten(q, side, d)'
  <1> DEFINE H == Heads(q, side)
             S == Slack(q, side)
             O == Owes(q, side)
  <1>1. xSchedulerRunning /\ xSchedulerRunning' /\ Self'.q = Self.q /\ section = NoSection
        BY DEF OwnMove, GoesOn, TaskRuns
  <1>2. S' = S /\ LockOf(q, side)' = LockOf(q, side) BY DEF Slack, LockOf
  <1>3. /\ S \in Nat /\ O \in Nat /\ IsFiniteSet(H) /\ Cardinality(H) \in Nat /\ <<r, s>> \in EventList
        BY <1>1, BalanceTypes
  <1>4. O' \in Nat /\ IsFiniteSet(H') /\ Cardinality(H') \in Nat BY <1>1, NextTypes
  <1>5. Going(Self, q, side) => Going(Self', q, side)
    <2>1. FrameFits(Self') BY DEF OwnMove, QInv, FramesFit
    <2> QED BY <2>1, GoingStays DEF WakePlace
  <1>6. /\ WaitingTasks(<<q, side>>)' \subseteq WaitingTasks(<<q, side>>) /\ H \subseteq H'
        BY <1>5, OwnHeads
  <1>7. CASE ~(q = r /\ side = s)
    <2>1. O' = O
      <3>1. q = Self.q => WakePlace(side) # Self.pc BY <1>7 DEF WakePlace, Side
      <3> QED BY <1>1, <1>2, <3>1 DEF Owes
    <2> QED BY <1>2, <1>3, <1>5, <2>1, QuietForgets
  <1>8. CASE q = r /\ side = s
    <2>1. O = Self.cLock /\ O' = Self.cLock - 1
      <3>1. Self.cLock \in Int BY OwnFacts DEF Frame
      <3> QED BY <1>1, <1>8, <3>1 DEF Owes
    <2>2. PICK t \in WaitingTasks(<<q, side>>) : t \notin WaitingTasks(<<q, side>>)'
      <3>1. uxCriticalNesting' \in 0 .. MaxCritical BY DEF QInv, KInv, TypeOK
      <3>2. /\ xEventLists[<<r, s>>][1] \in WaitingTasks(<<r, s>>)
            /\ WaitingTasks(<<r, s>>)' = WaitingTasks(<<r, s>>) \ {xEventLists[<<r, s>>][1]}
            BY <1>1, <1>3, <3>1, xTaskRemoveFromEventList_Inv DEF QInv
      <3> QED BY <1>8, <3>2
    <2>3. t \in Task /\ Going(frame[t], q, side) /\ t \notin H BY WaiterFacts
    <2>4. t \in H'
      <3>1. Going(frame'[t], q, side) BY <1>5, <2>3 DEF OwnMove
      <3>2. H' = {u \in Task : Going(frame'[u], q, side) /\ u \notin WaitingTasks(<<q, side>>)'}
            BY DEF Heads, Going
      <3> QED BY <2>2, <2>3, <3>1, <3>2
    <2>5. Cardinality(H) + 1 <= Cardinality(H') BY <1>3, <1>4, <1>6, <2>3, <2>4, Counted
    <2>6. S' + O + Cardinality(H) <= S + O' + Cardinality(H')
      <3> HIDE DEF S, O, H
      <3> QED BY <1>2, <1>3, <1>4, <2>1, <2>5
    <2> QED BY <1>1, <1>6, <2>6, Balance
  <1> QED BY <1>7, <1>8

(* The end of such a loop: nothing is owed any more, or nobody waits.       *)
LEMMA WakeEndForgets ==
    ASSUME QInv, QInv', OwnMove, SleepersStay, GoesOn(Self, Self'),
           NEW r \in QueueHandle, NEW s \in Side, TaskRuns, Self.q = r, Self.pc = WakePlace(s),
           Self'.pc \notin {"wakeReceivers", "wakeSenders"},
           ~(Self.cLock > 0) \/ xEventLists[<<r, s>>] = << >>,
           \A q \in QueueHandle, side \in Side :
               LockOf(q, side)' = IF q = r /\ side = s THEN queueUNLOCKED ELSE LockOf(q, side),
           UNCHANGED uxMessagesWaiting,
           NEW q \in QueueHandle, NEW side \in Side, NEW d \in Nat, NotForgotten(q, side, d)
    PROVE  NotForgotten(q, side, d)'
  <1> DEFINE S == Slack(q, side)
             O == Owes(q, side)
  <1>1. xSchedulerRunning /\ Self'.q = Self.q BY DEF OwnMove, GoesOn
  <1>2. S' = S BY DEF Slack
  <1>3. S \in Nat /\ O \in Nat BY <1>1, BalanceTypes
  <1>4. Going(Self, q, side) => Going(Self', q, side)
    <2>1. FrameFits(Self') BY DEF OwnMove, QInv, FramesFit
    <2> QED BY <2>1, GoingStays DEF WakePlace
  <1>5. CASE ~(q = r /\ side = s)
    <2>1. O' = O
      <3>1. q = Self.q => WakePlace(side) # Self.pc BY <1>5 DEF WakePlace, Side
      <3>2. LockOf(q, side)' = LockOf(q, side) BY <1>5
      <3> QED BY <1>1, <3>1, <3>2 DEF Owes, WakePlace
    <2> QED BY <1>2, <1>3, <1>4, <2>1, QuietForgets
  <1>6. CASE q = r /\ side = s /\ ~(Self.cLock > 0)
    <2>1. O = 0 BY <1>6 DEF Owes
    <2>2. O' = 0
      <3>1. LockOf(q, side)' = -1 BY <1>6 DEF queueUNLOCKED
      <3> QED BY <3>1 DEF Owes, WakePlace
    <2> QED BY <1>2, <1>3, <1>4, <2>1, <2>2, QuietForgets
  <1>7. CASE q = r /\ side = s /\ xEventLists[<<r, s>>] = << >>
    <2>1. WaitingTasks(<<q, side>>) = {} BY <1>7, NobodyInEmpty DEF WaitingTasks
    <2>2. WaitingTasks(<<q, side>>)' = {} BY <2>1, OwnHeads
    <2> QED BY <2>2 DEF NotForgotten
  <1> QED BY <1>5, <1>6, <1>7

(* Both loops of prvUnlockQueue.                                            *)
LEMMA WakeForgets ==
    ASSUME QInv, DelayInv, WaitersFit, WakeReceivers \/ WakeSenders,
           NEW q \in QueueHandle, NEW side \in Side, NEW d \in Nat, NotForgotten(q, side, d)
    PROVE  NotForgotten(q, side, d)'
  <1>1. /\ TaskRuns /\ Self.pc \in {"wakeReceivers", "wakeSenders"} /\ UNCHANGED uxMessagesWaiting
        BY DEF WakeReceivers, WakeSenders, At
  <1>2. OwnMove /\ GoesOn(Self, Self')
        BY <1>1, WaitMoves DEF WaitStep, prvUnlockQueue, Returns
  <1>3. SleepersStay BY <1>1, OnlyPlaceSleeps DEF CallStep, WaitStep, prvUnlockQueue, Place, At
  <1>4. QInv' BY QNextStep DEF QNext, CallStep, WaitStep, prvUnlockQueue
  <1>5. /\ Self \in Frame /\ Self.q \in QueueHandle /\ Self.cLock \in Int
        BY <1>1, OwnFacts, WaitingFacts DEF Frame
  <1>6. xSchedulerRunning /\ cRxLock \in [QueueHandle -> Int] /\ cTxLock \in [QueueHandle -> Int]
        BY <1>2 DEF OwnMove, QInv, QTypeOK
  <1>7. ASSUME Becomes([Self EXCEPT !.cLock = @ - 1]), NEW e, xTaskRemoveFromEventList(e, FALSE)
        PROVE  Self'.pc = Self.pc /\ Self'.cLock = Self.cLock - 1
    <2>1. UNCHANGED <<pxCurrentTCB, xSchedulerRunning, xTickCount>> BY <1>7 DEF xTaskRemoveFromEventList
    <2>2. Self' = [Self EXCEPT !.cLock = @ - 1] BY <1>6, <1>7, <2>1, BecomesMove
    <2> QED BY <1>5, <2>2 DEF Frame
  <1>8. ASSUME NEW p, Becomes([Self EXCEPT !.pc = p, !.cLock = 0]), UNCHANGED kernelVars
        PROVE  Self'.pc = p
    <2>1. Self' = [Self EXCEPT !.pc = p, !.cLock = 0] BY <1>6, <1>8, BecomesMove
    <2> QED BY <1>5, <2>1 DEF Frame
  <1>9. CASE WakeReceivers
    <2>1. Self.pc = WakePlace("receive") /\ "receive" \in Side
          BY <1>9 DEF WakeReceivers, At, WakePlace, Side
    <2>2. CASE /\ Self.cLock > queueLOCKED_UNMODIFIED
               /\ xTaskRemoveFromEventList(<<Self.q, "receive">>, FALSE)
               /\ Becomes([Self EXCEPT !.cLock = @ - 1]) /\ UNCHANGED lockVars
      <3>1. Self'.pc = Self.pc /\ Self'.cLock = Self.cLock - 1 BY <1>7, <2>2
      <3>2. Self.cLock > 0 BY <2>2 DEF queueLOCKED_UNMODIFIED
      <3> QED BY <1>1, <1>2, <1>3, <1>4, <1>5, <2>1, <2>2, <3>1, <3>2, WakeOneForgets
    <2>3. CASE /\ ~(Self.cLock > queueLOCKED_UNMODIFIED) \/ xEventLists[<<Self.q, "receive">>] = << >>
               /\ cTxLock' = [cTxLock EXCEPT ![Self.q] = queueUNLOCKED] /\ UNCHANGED cRxLock
               /\ Becomes([Self EXCEPT !.pc = "unlockRx", !.cLock = 0])
               /\ UNCHANGED kernelVars
      <3>1. Self'.pc = "unlockRx" BY <1>8, <2>3
      <3>2. \A x \in QueueHandle, y \in Side :
                LockOf(x, y)' = IF x = Self.q /\ y = "receive" THEN queueUNLOCKED ELSE LockOf(x, y)
            BY <1>6, <2>3 DEF LockOf, Side
      <3>3. ~(Self.cLock > 0) \/ xEventLists[<<Self.q, "receive">>] = << >>
            BY <2>3 DEF queueLOCKED_UNMODIFIED
      <3> QED BY <1>1, <1>2, <1>3, <1>4, <1>5, <2>1, <3>1, <3>2, <3>3, WakeEndForgets
    <2> QED BY <1>9, <2>2, <2>3 DEF WakeReceivers, xTasksWaitingToReceive
  <1>10. CASE WakeSenders
    <2>1. Self.pc = WakePlace("send") /\ "send" \in Side
          BY <1>10 DEF WakeSenders, At, WakePlace, Side
    <2>2. CASE /\ Self.cLock > queueLOCKED_UNMODIFIED
               /\ xTaskRemoveFromEventList(<<Self.q, "send">>, FALSE)
               /\ Becomes([Self EXCEPT !.cLock = @ - 1]) /\ UNCHANGED lockVars
      <3>1. Self'.pc = Self.pc /\ Self'.cLock = Self.cLock - 1 BY <1>7, <2>2
      <3>2. Self.cLock > 0 BY <2>2 DEF queueLOCKED_UNMODIFIED
      <3> QED BY <1>1, <1>2, <1>3, <1>4, <1>5, <2>1, <2>2, <3>1, <3>2, WakeOneForgets
    <2>3. CASE /\ ~(Self.cLock > queueLOCKED_UNMODIFIED) \/ xEventLists[<<Self.q, "send">>] = << >>
               /\ cRxLock' = [cRxLock EXCEPT ![Self.q] = queueUNLOCKED] /\ UNCHANGED cTxLock
               /\ Becomes([Self EXCEPT !.pc = "resume", !.cLock = 0])
               /\ UNCHANGED kernelVars
      <3>1. Self'.pc = "resume" BY <1>8, <2>3
      <3>2. \A x \in QueueHandle, y \in Side :
                LockOf(x, y)' = IF x = Self.q /\ y = "send" THEN queueUNLOCKED ELSE LockOf(x, y)
            BY <1>6, <2>3 DEF LockOf, Side
      <3>3. ~(Self.cLock > 0) \/ xEventLists[<<Self.q, "send">>] = << >>
            BY <2>3 DEF queueLOCKED_UNMODIFIED
      <3> QED BY <1>1, <1>2, <1>3, <1>4, <1>5, <2>1, <3>1, <3>2, <3>3, WakeEndForgets
    <2> QED BY <1>10, <2>2, <2>3 DEF WakeSenders, xTasksWaitingToSend
  <1> QED BY <1>9, <1>10

(* The other steps of a call change nothing that counts.                    *)
LEMMA RestForgets ==
    ASSUME QInv, LockInv, CallStep \/ Resumed,
           Self.pc \notin {"try", "notify", "place", "unlockTx", "unlockRx", "wakeReceivers", "wakeSenders"},
           NEW q \in QueueHandle, NEW side \in Side, NEW d \in Nat, NotForgotten(q, side, d)
    PROVE  NotForgotten(q, side, d)'
  <1>1. OwnMove /\ (GoesOn(Self, Self') \/ Returns(Self, Self'))
        BY TryMoves, WaitMoves, ResumedMoves DEF CallStep
  <1>2. ~Place BY DEF Place, At
  <1>3. SleepersStay BY <1>2, OnlyPlaceSleeps
  <1>4. QInv' BY QNextStep DEF QNext
  <1>5. /\ UNCHANGED uxMessagesWaiting /\ (UNCHANGED lockVars \/ prvLockQueue) BY CallLocks
  <1>6. xSchedulerRunning /\ pxCurrentTCB \in Task /\ FrameFits(Self) /\ FrameFits(Self')
        BY <1>1, <1>4 DEF OwnMove, QInv, FramesFit
  <1>7. Self'.pc \notin {"wakeReceivers", "wakeSenders"}
        BY <1>1, FrameFacts DEF GoesOn, Moves, Returns
  <1>8. Slack(q, side)' = Slack(q, side) BY <1>5 DEF Slack
  <1>9. Slack(q, side) \in Nat /\ Owes(q, side) \in Nat BY <1>6, BalanceTypes
  <1>10. Owes(q, side)' = Owes(q, side)
    <2>1. CASE UNCHANGED lockVars
      <3>1. LockOf(q, side)' = LockOf(q, side) BY <2>1 DEF LockOf
      <3> QED BY <1>7, <3>1, SameOwed
    <2>2. CASE prvLockQueue
      <3>1. LockOf(q, side)' = LockOf(q, side) \/ (LockOf(q, side) = -1 /\ LockOf(q, side)' = 0)
            BY <2>2 DEF prvLockQueue, LockOf, QInv, QTypeOK, queueUNLOCKED, queueLOCKED_UNMODIFIED
      <3> QED BY <1>7, <3>1 DEF Owes, WakePlace
    <2> QED BY <1>5, <2>1, <2>2
  <1>11. Going(Self, q, side) => Going(Self', q, side)
    <2>1. CASE GoesOn(Self, Self') BY <1>6, <2>1, GoingStays
    <2>2. CASE Returns(Self, Self') /\ Self.pc # "resuming"
          BY <2>2 DEF Returns, Going, Unlocking
    <2>3. CASE Returns(Self, Self') /\ Self.pc = "resuming"
      <3>1. Resumed BY <2>3, WhichStep
      <3>2. Self.outcome = "timeout"
        <4> SUFFICES ASSUME Self.outcome # "timeout" PROVE FALSE OBVIOUS
        <4>1. PICK p \in {"yield", "try"} : Becomes([Self EXCEPT !.outcome = "none", !.pc = p])
              BY <3>1 DEF Resumed
        <4>2. UNCHANGED <<pxCurrentTCB, xSchedulerRunning, xTickCount>> BY <3>1 DEF Resumed, ResumeEnd
        <4>3. Self' = [Self EXCEPT !.outcome = "none", !.pc = p] /\ Self \in Frame
              BY <1>6, <4>1, <4>2, BecomesMove
        <4> QED BY <2>3, <4>3, FrameFacts DEF Returns, Frame
      <3> QED BY <2>3, <3>2 DEF Going
    <2> QED BY <1>1, <2>1, <2>2, <2>3
  <1> QED BY <1>1, <1>3, <1>4, <1>8, <1>9, <1>10, <1>11, QuietForgets

(* A task that begins a call forgets nobody: it was not counted before, and *)
(* one that frees a place by a reset is about to wake a sender.             *)
LEMMA AppForgets ==
    ASSUME QInv, LockInv, WaitersFit, AppStep,
           NEW q \in QueueHandle, NEW side \in Side, NEW d \in Nat, NotForgotten(q, side, d),
           side = "receive" \/ ~FreesTooMany(q)
    PROVE  NotForgotten(q, side, d)'
  <1>1. /\ OwnMove /\ Self = AppFrame /\ (Self' = AppFrame \/ Self'.pc \in {"try", "notify"})
        /\ Self'.pc = "notify" => Self'.fn = "reset"
        /\ \/ UNCHANGED <<uxMessagesWaiting, lockVars>> /\ Self'.pc # "notify"
           \/ Self'.pc = "notify" /\ xQueueGenericReset(Self'.q)
    <2>1. /\ OwnMove /\ Self = AppFrame
          /\ Self' = AppFrame \/ (Self'.pc \in {"try", "notify"} /\ (Self'.pc = "notify" => Self'.fn = "reset"))
          BY AppMoves, Zenon
    <2>2. \/ UNCHANGED <<uxMessagesWaiting, lockVars>> /\ Self'.pc # "notify"
          \/ Self'.pc = "notify" /\ xQueueGenericReset(Self'.q)
          BY AppMoves, Zenon
    <2> QED BY <2>1, <2>2, FrameFacts
  <1>2. Self.pc = "app" /\ Self.q = NULL /\ Self.fn = "none" /\ AppFrame.pc = "app"
        BY <1>1 DEF AppFrame
  <1>3. ~Place BY <1>2 DEF Place, At
  <1>4. SleepersStay BY <1>3, OnlyPlaceSleeps
  <1>5. QInv' BY QNextStep DEF QNext
  <1>6. ~Going(Self, q, side) BY <1>2, ProgramAssumption DEF Going
  <1>7. xSchedulerRunning /\ xSchedulerRunning' BY <1>1 DEF OwnMove
  <1>8. Slack(q, side) \in Nat /\ Owes(q, side) \in Nat BY <1>7, BalanceTypes
  <1>9. /\ Self.pc \notin {"wakeReceivers", "wakeSenders"}
        /\ Self'.pc \notin {"wakeReceivers", "wakeSenders"}
        BY <1>1, <1>2
  <1>10. CASE Slack(q, side)' = Slack(q, side) /\ LockOf(q, side)' = LockOf(q, side)
    <2>1. Owes(q, side)' = Owes(q, side) BY <1>9, <1>10, SameOwed
    <2> QED BY <1>1, <1>4, <1>5, <1>6, <1>8, <1>10, <2>1, QuietForgets
  <1>11. CASE UNCHANGED <<uxMessagesWaiting, lockVars>>
    <2>1. Slack(q, side)' = Slack(q, side) /\ LockOf(q, side)' = LockOf(q, side)
          BY <1>11 DEF Slack, LockOf
    <2> QED BY <1>10, <2>1
  <1>12. CASE Self'.pc = "notify" /\ xQueueGenericReset(Self'.q) /\ Self'.q # q
    <2>1. /\ \E r : /\ r # q
                    /\ uxMessagesWaiting' = [uxMessagesWaiting EXCEPT ![r] = 0]
                    /\ cRxLock' = [cRxLock EXCEPT ![r] = queueUNLOCKED]
                    /\ cTxLock' = [cTxLock EXCEPT ![r] = queueUNLOCKED]
          BY <1>12 DEF xQueueGenericReset, EmptyQueue
    <2>2. /\ uxMessagesWaiting'[q] = uxMessagesWaiting[q]
          /\ cRxLock'[q] = cRxLock[q] /\ cTxLock'[q] = cTxLock[q]
          BY <2>1 DEF QInv, QTypeOK
    <2>3. Slack(q, side)' = Slack(q, side) /\ LockOf(q, side)' = LockOf(q, side)
          BY <2>2 DEF Slack, LockOf
    <2> QED BY <1>10, <2>3
  <1>13. CASE Self'.pc = "notify" /\ xQueueGenericReset(q) /\ Self'.q = q
    <2>1. /\ uxMessagesWaiting' = [uxMessagesWaiting EXCEPT ![q] = 0]
          /\ <<"reset", q, 0>> \in Program[pxCurrentTCB]
          BY <1>13 DEF xQueueGenericReset, EmptyQueue
    <2>2. uxMessagesWaiting'[q] = 0 BY <2>1 DEF QInv, QTypeOK
    <2>3. /\ Slack(q, side)' \in Nat /\ Owes(q, side)' \in Nat
          /\ IsFiniteSet(Heads(q, side)') /\ Cardinality(Heads(q, side)') \in Nat
          BY <1>5, <1>7, NextTypes
    <2>4. CASE side = "receive"
      <3>1. Slack(q, side)' = 0 BY <2>2, <2>4 DEF Slack
      <3> QED BY <2>3, <3>1 DEF NotForgotten
    <2>5. CASE side = "send"
      <3> DEFINE H == Heads(q, side)
                 S == Slack(q, side)
                 O == Owes(q, side)
      <3>1. S' <= S + 1
        <4>1. uxMessagesWaiting[q] <= 1 /\ uxMessagesWaiting[q] \in Nat /\ uxLength[q] \in Nat
              BY <1>13, <2>5, QueueAssumption DEF FreesTooMany, QInv, QTypeOK
        <4>2. S = uxLength[q] - uxMessagesWaiting[q] /\ S' = uxLength[q] - uxMessagesWaiting'[q]
              BY <2>5 DEF Slack
        <4> HIDE DEF S
        <4> QED BY <2>2, <4>1, <4>2
      <3>2. O = 0
        <4>1. cRxLock[q] = queueUNLOCKED BY <1>2 DEF LockInv, RxLocked, TxLocked
        <4>2. LockOf(q, side) = -1 BY <2>5, <4>1 DEF LockOf, queueUNLOCKED
        <4> QED BY <1>9, <4>2 DEF Owes, WakePlace
      <3>3. Going(Self', q, side) BY <1>1, <1>13, <2>5 DEF Going, Wakes
      <3>4. pxCurrentTCB \notin WaitingTasks(<<q, side>>)
        <4>1. frame[pxCurrentTCB].q = NULL BY <1>1, <1>2 DEF OwnMove
        <4> QED BY <4>1, ProgramAssumption DEF WaitersFit
      <3>5. pxCurrentTCB \in Heads(q, side)' BY <1>1, <1>4, <3>3, <3>4, OwnHeads
      <3>6. H \subseteq H' /\ pxCurrentTCB \notin H BY <1>1, <1>4, <1>6, OwnHeads
      <3>7. IsFiniteSet(H) /\ Cardinality(H) \in Nat BY <1>7, BalanceTypes
      <3>8. Cardinality(H) + 1 <= Cardinality(H') BY <2>3, <3>5, <3>6, <3>7, Counted
      <3>9. S' + O + Cardinality(H) <= S + O' + Cardinality(H')
        <4>1. S \in Nat /\ S' \in Nat /\ O' \in Nat /\ Cardinality(H') \in Nat BY <1>8, <2>3
        <4> HIDE DEF S, O, H
        <4> QED BY <3>1, <3>2, <3>7, <3>8, <4>1
      <3>10. WaitingTasks(<<q, side>>)' \subseteq WaitingTasks(<<q, side>>) BY <1>1, <1>4, OwnHeads
      <3> QED BY <1>5, <1>7, <3>9, <3>10, Balance
    <2> QED BY <2>4, <2>5 DEF Side
  <1> QED BY <1>1, <1>11, <1>12, <1>13

(* A step in which nothing happens.                                         *)
LEMMA NothingForgets ==
    ASSUME UNCHANGED qvars, NEW q, NEW side, NEW d, NotForgotten(q, side, d)
    PROVE  NotForgotten(q, side, d)'
  <1>1. UNCHANGED <<frame, pxCurrentTCB, xEventLists, uxMessagesWaiting, lockVars>>
        BY DEF qvars, vars, queueVars
  <1>2. /\ Slack(q, side)' = Slack(q, side) /\ Owes(q, side)' = Owes(q, side)
        /\ WaitingTasks(<<q, side>>)' = WaitingTasks(<<q, side>>)
        BY <1>1 DEF Slack, Owes, LockOf, Self, WaitingTasks
  <1>3. Heads(q, side)' = Heads(q, side) BY <1>1, <1>2 DEF Heads
  <1> QED BY <1>2, <1>3 DEF NotForgotten

(* No other step forgets a task.                                            *)
LEMMA ForgetStep ==
    ASSUME QInv, LockInv, DelayInv, WaitersFit, Reason, [QNext]_qvars,
           NEW q \in QueueHandle, NEW side \in Side, NEW d \in Nat, NotForgotten(q, side, d),
           ~CountedTooLate(q, side), side = "receive" \/ ~FreesTooMany(q)
    PROVE  NotForgotten(q, side, d)'
  <1>1. CASE UNCHANGED qvars BY <1>1, NothingForgets
  <1>2. CASE AppStep BY <1>2, AppForgets
  <1>3. CASE SystemNext BY <1>3, SystemForgets
  <1>4. CASE CallStep \/ Resumed
    <2>1. /\ Self.pc = "try" => Commit \/ NotAvailable
          /\ Self.pc = "place" => Place
          /\ Self.pc = "notify" => Notify
          /\ Self.pc = "wakeReceivers" => WakeReceivers
          /\ Self.pc = "wakeSenders" => WakeSenders
          /\ Self.pc = "unlockTx" => UnlockTx
          /\ Self.pc = "unlockRx" => UnlockRx
          BY <1>4, WhichStep
    <2>2. CASE Self.pc = "try" BY <2>1, <2>2, CommitForgets, NotAvailableForgets
    <2>3. CASE Self.pc = "place" BY <2>1, <2>3, PlaceForgets
    <2>4. CASE Self.pc = "notify" BY <2>1, <2>4, NotifyForgets
    <2>5. CASE Self.pc \in {"wakeReceivers", "wakeSenders"} BY <2>1, <2>5, WakeForgets
    <2>6. CASE Self.pc \in {"unlockTx", "unlockRx"} BY <2>1, <2>6, UnlockForgets
    <2>7. CASE Self.pc \notin {"try", "notify", "place", "unlockTx", "unlockRx", "wakeReceivers", "wakeSenders"}
          BY <1>4, <2>7, RestForgets
    <2> QED BY <2>2, <2>3, <2>4, <2>5, <2>6, <2>7
  <1> QED BY <1>1, <1>2, <1>3, <1>4 DEF QNext, SystemNext

(* Nobody waits when the program begins.                                    *)
LEMMA InitForgets ==
    ASSUME QInit
    PROVE  WaitersFit /\ Reason /\ \A q \in QueueHandle, side \in Side : NotForgotten(q, side, 0)
  <1>1. ~xSchedulerRunning /\ xEventLists = [e \in EventList |-> << >>] BY DEF QInit, Init
  <1>2. \A q \in QueueHandle, side \in Side : WaitingTasks(<<q, side>>) = {}
    <2> SUFFICES ASSUME NEW q \in QueueHandle, NEW side \in Side PROVE WaitingTasks(<<q, side>>) = {}
          OBVIOUS
    <2>1. <<q, side>> \in EventList BY QueueAssumption DEF Side
    <2>2. xEventLists[<<q, side>>] = << >> BY <1>1, <2>1
    <2> QED BY <2>2, NobodyInEmpty DEF WaitingTasks
  <1> QED BY <1>1, <1>2 DEF WaitersFit, Reason, NotForgotten

(* The invariants of the waiting tasks, together.                           *)
LEMMA WaitersHold ==
    QSpec => [](QInv /\ LockInv /\ DelayInv /\ WaitersFit /\ Reason)
  <1>1. QInit => WaitersFit /\ Reason BY InitForgets
  <1>2. QInv /\ TimeInv /\ DelayInv /\ WaitersFit /\ [QNext]_qvars => WaitersFit' BY WaitersStep
  <1>3. QInv /\ LockInv /\ Reason /\ [QNext]_qvars => Reason' BY ReasonStep
  <1>4. /\ (QSpec => []QInv) /\ (QSpec => []TimeInv)
        /\ (QSpec => []LockInv) /\ (QSpec => []DelayInv)
        BY QInvHolds, TimeInvHolds, LockInvHolds, DelayInvHolds
  <1> QED BY <1>1, <1>2, <1>3, <1>4, PTL DEF QSpec

(* Who is sure to look at a queue again, or about to wake one who is, is on *)
(* its way there.                                                           *)
LEMMA GoingIsOnItsWay ==
    ASSUME NEW t \in Task, NEW q \in QueueHandle, NEW side \in Side, t \in Heads(q, side)
    PROVE  OnItsWay(t, q, <<q, side>>)
  <1>1. Going(frame[t], q, side) /\ t \notin WaitingTasks(<<q, side>>) BY DEF Heads
  <1>2. CASE frame[t].pc = "notify" /\ Wakes(frame[t].fn, side)
    <2>1. WakeList(frame[t].fn, q) = <<q, side>>
          BY <1>2 DEF WakeList, Wakes, xTasksWaitingToSend, xTasksWaitingToReceive, Side
    <2> QED BY <1>1, <1>2, <2>1 DEF OnItsWay, Going
  <1>3. CASE /\ WaitsOn(frame[t].fn, side)
             /\ frame[t].pc \in Unlocking \cup {"try", "yield", "resuming"}
    <2>1. frame[t].fn # "reset" /\ WaitList(frame[t].fn, q) = <<q, side>>
          BY <1>3 DEF WaitList, WaitsOn, Sends, xTasksWaitingToSend, xTasksWaitingToReceive, Side
    <2>2. frame[t].pc \notin {"notify", "count", "inherit", "place", "disinherit"}
          BY <1>3 DEF Unlocking
    <2> QED BY <1>1, <2>1, <2>2 DEF OnItsWay, Going
  <1> QED BY <1>1, <1>2, <1>3 DEF Going

(* An event list is empty when nobody waits in it.                          *)
LEMMA SomebodyWaits ==
    ASSUME QInv, NEW e \in EventList, xEventLists[e] # << >>
    PROVE  WaitingTasks(e) # {}
  <1>1. xEventLists[e] \in Seq(Task) BY DEF QInv, KInv, TypeOK
  <1> QED BY <1>1, ElementsOf DEF WaitingTasks

(* What the count says of one side of a queue.                              *)
LEMMA NobodyIsForgotten ==
    ASSUME QInv, WaitersFit, DelayInv, NEW q \in QueueHandle, NEW side \in Side,
           NotForgotten(q, side, 0), xEventLists[<<q, side>>] # << >>
    PROVE  Slack(q, side) <= Owes(q, side) + Cardinality({t \in Task : OnItsWay(t, q, <<q, side>>)})
  <1> DEFINE N == {t \in Task : OnItsWay(t, q, <<q, side>>)}
             W == WaitingTasks(<<q, side>>)
  <1>1. <<q, side>> \in EventList BY QueueAssumption DEF Side
  <1>2. W # {} BY <1>1, SomebodyWaits
  <1>3. xSchedulerRunning
    <2>1. PICK t : t \in W BY <1>2
    <2>2. Delayed(t) BY <2>1, WaiterFacts
    <2> SUFFICES ASSUME ~xSchedulerRunning PROVE FALSE OBVIOUS
    <2>3. pxDelayedTaskList = << >> /\ pxOverflowDelayedTaskList = << >>
          BY DEF QInv, KInv, SectionsAreInStep
    <2> QED BY <2>2, <2>3, NobodyInEmpty DEF Delayed
  <1>4. /\ Slack(q, side) \in Nat /\ Owes(q, side) \in Nat
        /\ IsFiniteSet(Heads(q, side)) /\ Cardinality(Heads(q, side)) \in Nat
        BY <1>3, BalanceTypes
  <1>5. IsFiniteSet(N) /\ Cardinality(N) \in Nat
    <2>1. N \subseteq Task OBVIOUS
    <2> QED BY <2>1, ProgramAssumption, FS_Subset, FS_CardinalityType
  <1>6. Heads(q, side) \subseteq N BY GoingIsOnItsWay DEF Heads
  <1>7. Cardinality(Heads(q, side)) <= Cardinality(N) BY <1>4, <1>5, <1>6, Counted
  <1>8. Slack(q, side) <= Owes(q, side) + Cardinality(Heads(q, side)) BY <1>2, <1>4 DEF NotForgotten
  <1> HIDE DEF N
  <1>9. Slack(q, side) <= Owes(q, side) + Cardinality(N) BY <1>4, <1>5, <1>7, <1>8
  <1> QED BY <1>9 DEF N

(* Who waits to receive is forgotten by one step only: a handler's message  *)
(* that is counted while prvUnlockQueue, which has read cTxLock already,    *)
(* wakes the receivers.  Every other step keeps the number of messages that *)
(* wait beside a waiting task with nobody on the way to them, so while no   *)
(* handler comes in that window there are no more messages than tasks on    *)
(* their way to one, senders about to notify and notifications owed.        *)
THEOREM ReceiversAreRemembered ==
    QSpec =>
        /\ [][\A q \in QueueHandle, d \in Nat :
                 NotForgotten(q, "receive", d) /\ ~CountedTooLate(q, "receive") => NotForgotten(q, "receive", d)']_qvars
        /\ [][\A q \in QueueHandle : ~CountedTooLate(q, "receive")]_qvars => []ReceiversAreNotForgotten
  <1> DEFINE NF == \A q \in QueueHandle : NotForgotten(q, "receive", 0)
             IInv == QInv /\ LockInv /\ DelayInv /\ WaitersFit /\ Reason
             Keeps == \A q \in QueueHandle, d \in Nat :
                 NotForgotten(q, "receive", d) /\ ~CountedTooLate(q, "receive") => NotForgotten(q, "receive", d)'
             Timely == \A q \in QueueHandle : ~CountedTooLate(q, "receive")
  <1>1. QInit => NF BY InitForgets DEF Side
  <1>2. IInv /\ [QNext]_qvars => [Keeps]_qvars
    <2> SUFFICES ASSUME IInv, [QNext]_qvars, NEW q \in QueueHandle, NEW d \in Nat,
                        NotForgotten(q, "receive", d), ~CountedTooLate(q, "receive")
                 PROVE  NotForgotten(q, "receive", d)'
          OBVIOUS
    <2>1. "receive" \in Side BY DEF Side
    <2> QED BY <2>1, ForgetStep
  <1>3. IInv /\ NF /\ [QNext]_qvars /\ [Timely]_qvars => NF'
    <2> SUFFICES ASSUME IInv, NF, [QNext]_qvars, [Timely]_qvars, NEW q \in QueueHandle
                 PROVE  NotForgotten(q, "receive", 0)'
          OBVIOUS
    <2>1. "receive" \in Side /\ NotForgotten(q, "receive", 0) BY DEF Side
    <2>2. CASE Timely BY <2>1, <2>2, ForgetStep
    <2>3. CASE UNCHANGED qvars BY <2>1, <2>3, NothingForgets
    <2> QED BY <2>2, <2>3
  <1>4. IInv /\ NF => ReceiversAreNotForgotten
    <2> SUFFICES ASSUME IInv, NF, NEW q \in QueueHandle, xEventLists[<<q, "receive">>] # << >>
                 PROVE  uxMessagesWaiting[q] <= Owed(q, "wakeReceivers", cTxLock)
                            + Cardinality({t \in Task : OnItsWay(t, q, <<q, "receive">>)})
          BY DEF ReceiversAreNotForgotten, xTasksWaitingToReceive
    <2>1. "receive" \in Side /\ NotForgotten(q, "receive", 0) BY DEF Side
    <2>2. Slack(q, "receive") = uxMessagesWaiting[q] BY DEF Slack
    <2>3. Owes(q, "receive") = Owed(q, "wakeReceivers", cTxLock) BY DEF Owes, Owed, WakePlace, LockOf
    <2> QED BY <2>1, <2>2, <2>3, NobodyIsForgotten
  <1>5. QSpec => []IInv BY WaitersHold
  <1> HIDE DEF NF, IInv, Keeps, Timely
  <1>6. QSpec => [][Keeps]_qvars BY <1>2, <1>5, PTL DEF QSpec
  <1>7. QSpec /\ [][Timely]_qvars => []ReceiversAreNotForgotten
        BY <1>1, <1>3, <1>4, <1>5, PTL DEF QSpec
  <1> QED BY <1>6, <1>7, PTL DEF Keeps, Timely

(* Who waits to send beside a free place is forgotten by two steps only:    *)
(* the same of a handler that receives while the senders are woken, and a   *)
(* reset that frees several places, as it wakes one task.                   *)
THEOREM SendersAreRemembered ==
    QSpec =>
        /\ [][\A q \in QueueHandle, d \in Nat :
                 NotForgotten(q, "send", d) /\ ~CountedTooLate(q, "send") /\ ~FreesTooMany(q) => NotForgotten(q, "send", d)']_qvars
        /\ [][\A q \in QueueHandle : ~CountedTooLate(q, "send") /\ ~FreesTooMany(q)]_qvars => []SendersAreNotForgotten
  <1> DEFINE NF == \A q \in QueueHandle : NotForgotten(q, "send", 0)
             IInv == QInv /\ LockInv /\ DelayInv /\ WaitersFit /\ Reason
             Keeps == \A q \in QueueHandle, d \in Nat :
                 NotForgotten(q, "send", d) /\ ~CountedTooLate(q, "send") /\ ~FreesTooMany(q) => NotForgotten(q, "send", d)'
             Timely == \A q \in QueueHandle : ~CountedTooLate(q, "send") /\ ~FreesTooMany(q)
  <1>1. QInit => NF BY InitForgets DEF Side
  <1>2. IInv /\ [QNext]_qvars => [Keeps]_qvars
    <2> SUFFICES ASSUME IInv, [QNext]_qvars, NEW q \in QueueHandle, NEW d \in Nat,
                        NotForgotten(q, "send", d), ~CountedTooLate(q, "send") /\ ~FreesTooMany(q)
                 PROVE  NotForgotten(q, "send", d)'
          OBVIOUS
    <2>1. "send" \in Side BY DEF Side
    <2> QED BY <2>1, ForgetStep
  <1>3. IInv /\ NF /\ [QNext]_qvars /\ [Timely]_qvars => NF'
    <2> SUFFICES ASSUME IInv, NF, [QNext]_qvars, [Timely]_qvars, NEW q \in QueueHandle
                 PROVE  NotForgotten(q, "send", 0)'
          OBVIOUS
    <2>1. "send" \in Side /\ NotForgotten(q, "send", 0) BY DEF Side
    <2>2. CASE Timely BY <2>1, <2>2, ForgetStep
    <2>3. CASE UNCHANGED qvars BY <2>1, <2>3, NothingForgets
    <2> QED BY <2>2, <2>3
  <1>4. IInv /\ NF => SendersAreNotForgotten
    <2> SUFFICES ASSUME IInv, NF, NEW q \in QueueHandle, xEventLists[<<q, "send">>] # << >>
                 PROVE  uxLength[q] - uxMessagesWaiting[q] <= Owed(q, "wakeSenders", cRxLock)
                            + Cardinality({t \in Task : OnItsWay(t, q, <<q, "send">>)})
          BY DEF SendersAreNotForgotten, xTasksWaitingToSend
    <2>1. "send" \in Side /\ NotForgotten(q, "send", 0) BY DEF Side
    <2>2. Slack(q, "send") = uxLength[q] - uxMessagesWaiting[q] BY DEF Slack
    <2>3. Owes(q, "send") = Owed(q, "wakeSenders", cRxLock) BY DEF Owes, Owed, WakePlace, LockOf
    <2> QED BY <2>1, <2>2, <2>3, NobodyIsForgotten
  <1>5. QSpec => []IInv BY WaitersHold
  <1> HIDE DEF NF, IInv, Keeps, Timely
  <1>6. QSpec => [][Keeps]_qvars BY <1>2, <1>5, PTL DEF QSpec
  <1>7. QSpec /\ [][Timely]_qvars => []SendersAreNotForgotten
        BY <1>1, <1>3, <1>4, <1>5, PTL DEF QSpec
  <1> QED BY <1>6, <1>7, PTL DEF Keeps, Timely
===============================================================================
