---------------------------- MODULE PreemptionProofs ----------------------------
(***************************************************************************)
(* Preemption, proved of Queue for any tasks, queues, programs and bounds,  *)
(* whether or not critical sections keep interrupts out: the task that runs *)
(* is a ready task of the highest priority, up to the two steps at which    *)
(* the code omits to ask for a switch.                                      *)
(***************************************************************************)
EXTENDS QueueProofs

USE DEF readyVars, delayVars, eventVars, tickVars, prioVars, switchVars, kernelVars,
        lockVars, mutexVars

(* The locals of the calls that no step of the system changes.              *)
LEMMA SystemLocals ==
    ASSUME QInv, StayPut, NEW t \in Task
    PROVE  /\ frame'[t].xInheritanceOccurred = frame[t].xInheritanceOccurred
           /\ frame'[t].xYieldRequired = frame[t].xYieldRequired
  <1>1. frame[t] \in Frame BY DEF QInv, QTypeOK
  <1>2. CASE frame' = frame BY <1>2
  <1>3. CASE frame'[t] = Waited(frame[t])
        BY <1>1, <1>3 DEF Waited, Frame
  <1> QED BY <1>2, <1>3 DEF StayPut

(* What a step of the system leaves alone, once the scheduler runs: the     *)
(* priorities and the holders; who is ready stays so, and a switch asked for*)
(* stays asked for or is done.                                              *)
LEMMA SystemRest ==
    ASSUME QInv, SystemNext
    PROVE  /\ UNCHANGED mutexVars
           /\ xSchedulerRunning =>
                 /\ UNCHANGED <<uxPriority, uxBasePriority, uxMutexesHeld, uxSchedulerSuspended>>
                 /\ \A u \in Task : Ready(u) => Ready(u)'
                 /\ Switch \/ (PENDING_SOFT_SV => PENDING_SOFT_SV')
  <1>1. CASE Boot BY <1>1 DEF Boot, queueVars
  <1>2. CASE HandlerStep
    <2>1. PICK q \in QueueHandle : xQueueGenericSendFromISR(q) \/ xQueueReceiveFromISR(q)
          BY <1>2 DEF HandlerStep
    <2>2. /\ InterruptsOn /\ UNCHANGED <<mutexVars, uxCriticalNesting>>
          /\ \/ UNCHANGED kernelVars
             \/ \E yields \in BOOLEAN : xTaskRemoveFromEventList(xTasksWaitingToReceive(q), yields)
             \/ \E yields \in BOOLEAN : xTaskRemoveFromEventList(xTasksWaitingToSend(q), yields)
          BY <2>1 DEF xQueueGenericSendFromISR, xQueueReceiveFromISR, FromISR, Unmasked
    <2>3. /\ xTasksWaitingToReceive(q) \in EventList /\ xTasksWaitingToSend(q) \in EventList
          /\ xSchedulerRunning /\ section = NoSection /\ uxCriticalNesting' \in 0 .. MaxCritical
          BY <2>2, InterruptFacts, QueueAssumption DEF xTasksWaitingToReceive, xTasksWaitingToSend
    <2>4. CASE UNCHANGED kernelVars BY <2>2, <2>4 DEF Ready
    <2>5. ASSUME NEW e \in EventList, NEW yields \in BOOLEAN, xTaskRemoveFromEventList(e, yields)
          PROVE  /\ UNCHANGED <<uxPriority, uxBasePriority, uxMutexesHeld, uxSchedulerSuspended>>
                 /\ \A u \in Task : Ready(u) => Ready(u)'
                 /\ PENDING_SOFT_SV => PENDING_SOFT_SV'
      <3>1. NobodySleeps BY <2>3, <2>5, xTaskRemoveFromEventList_Inv DEF QInv
      <3> QED BY <2>5, <3>1 DEF NobodySleeps, xTaskRemoveFromEventList
    <2> QED BY <2>2, <2>3, <2>4, <2>5
  <1>3. CASE Tick
    <2>1. /\ UNCHANGED <<mutexVars, uxCriticalNesting>> /\ (xPortSysTickHandle \/ ResumeTick)
          BY <1>3 DEF Tick, Unmasked
    <2>2. UNCHANGED <<uxPriority, uxBasePriority, uxMutexesHeld, uxSchedulerSuspended, PENDING_SOFT_SV>>
          BY <2>1 DEF xPortSysTickHandle, ResumeTick
    <2>3. NobodySleeps BY <2>1, xPortSysTickHandle_Inv, ResumeTick_Inv DEF QInv
    <2> QED BY <2>1, <2>2, <2>3 DEF NobodySleeps
  <1>4. CASE Switch
    <2>1. UNCHANGED <<mutexVars, uxCriticalNesting>> /\ SV_ISR BY <1>4 DEF Switch, Unmasked, queueVars
    <2>2. UNCHANGED <<uxPriority, uxBasePriority, uxMutexesHeld, uxSchedulerSuspended>>
          BY <2>1 DEF SV_ISR
    <2>3. NobodySleeps BY <2>1, SV_ISR_Inv DEF QInv
    <2> QED BY <1>4, <2>1, <2>2, <2>3 DEF NobodySleeps
  <1>5. CASE Unblock
    <2>1. /\ UNCHANGED <<mutexVars, uxCriticalNesting>>
          /\ TickUnblock \/ TickReturn \/ ResumeTickReturn \/ ResumePending \/ ResumePendingDone
          BY <1>5 DEF Unblock, queueVars, Unmasked
    <2>2. UNCHANGED <<uxPriority, uxBasePriority, uxMutexesHeld, uxSchedulerSuspended, PENDING_SOFT_SV>>
          BY <2>1 DEF TickUnblock, TickReturn, ResumeTickReturn, ResumePending, ResumePendingDone,
                      LeaveTickLoop
    <2>3. \A u \in Task : Ready(u) => Ready(u)'
      <3>1. CASE TickUnblock \/ TickReturn \/ ResumePending
            BY <2>1, <3>1, TickUnblock_Inv, TickReturn_Inv, ResumePending_Inv DEF QInv, NobodySleeps
      <3>2. CASE ResumeTickReturn \/ ResumePendingDone
            BY <3>2 DEF ResumeTickReturn, ResumePendingDone, Ready, LeaveTickLoop
      <3> QED BY <2>1, <3>1, <3>2
    <2> QED BY <2>1, <2>2, <2>3
  <1> QED BY <1>1, <1>2, <1>3, <1>4, <1>5 DEF SystemNext

(* Priorities can be compared.                                              *)
LEMMA PriorityTypes ==
    ASSUME QInv, NEW t \in Task
    PROVE  uxPriority[t] \in Nat /\ uxBasePriority[t] \in Nat
           /\ uxBasePriority[t] <= uxPriority[t] /\ uxPriority[t] \in Priority
  BY KernelAssumption DEF QInv, KInv, TypeOK, PrioritiesComeBack, Priority
(* A call goes to sleep: nobody becomes ready.                              *)
LEMMA PlaceMoves == ASSUME QInv, Place PROVE \A u \in Task : Ready(u)' => Ready(u)
  <1> DEFINE e == WaitList(Self.fn, Self.q)
             n == Self.xTicksToWait
  <1>1. TaskRuns /\ Self.pc = "place" /\ vTaskPlaceOnEventList(e, n) BY DEF Place, At
  <1>2. OwnMove BY WaitMoves DEF Place, WaitStep
  <1>3. Self \in Frame /\ FrameFits(Self) BY <1>1, <1>2, OwnFacts
  <1>4. Self.xTicksToWait > 0 /\ e \in EventList
        BY <1>1, <1>3, QueueAssumption
        DEF FrameFits, Looking, WaitList, Sends, xTasksWaitingToReceive, xTasksWaitingToSend
  <1>5. /\ pxCurrentTCB # IdleTask /\ Ready(pxCurrentTCB) /\ uxSchedulerSuspended > 0 /\ KInv
        BY <1>1, OwnFacts DEF Suspended, Looking, Unlocking
  <1>6. n \in 1 .. portMAX_DELAY
        BY <1>3, <1>4, KernelAssumption DEF Frame, TickType, portMAX_DELAY
  <1>7. uxCriticalNesting' \in 0 .. MaxCritical
    <2>1. QInv' BY QNextStep DEF QNext, CallStep, WaitStep
    <2> QED BY <2>1 DEF QInv, KInv, TypeOK
  <1>8. \A u \in Task : Ready(u)' <=> Ready(u) /\ u # pxCurrentTCB
    <2> HIDE DEF e, n
    <2> QED BY <1>1, <1>4, <1>5, <1>6, <1>7, vTaskPlaceOnEventList_Inv
  <1> QED BY <1>8

-----------------------------------------------------------------------------
(* Only the loop over a tick's tasks finds out that a switch is required.   *)
FlagFits == section.at \notin {"tick", "resumeTick"} => ~section.xSwitchRequired

(* A task that gave a mutex and lost what it inherited has to yield.        *)
AboutToYield == Self.pc = "notify" /\ Self.xYieldRequired

(* The two steps at which the code omits to ask for a switch.  The yield is *)
(* in the else branch of the wake-up (queue.c:793), so it is dropped when   *)
(* the task that is woken asks for no switch; and a timeout can raise the   *)
(* holder of a mutex above the task that gave up, to the priority a waiter  *)
(* inherited while it waited (task.c:4145), with no switch asked for.       *)
YieldIsDropped == Notify /\ Self.xYieldRequired /\ ~xYieldPending' /\ ~PENDING_SOFT_SV'

HolderIsRaised ==
    /\ Disinherit
    /\ \E t \in Task : uxPriority'[t] > uxPriority[t] /\ uxPriority'[t] > uxPriority[pxCurrentTCB]

(* No switch is on its way, or about to be asked for.                       *)
NoneAsked == ~xYieldPending /\ ~PENDING_SOFT_SV /\ ~section.xSwitchRequired
Calm == NoneAsked /\ ~AboutToYield

CurrentIsTop ==
    xSchedulerRunning /\ Calm =>
        \A t \in Task : Ready(t) => uxPriority[t] <= uxPriority[pxCurrentTCB]

TopInv == FlagFits /\ CurrentIsTop
-----------------------------------------------------------------------------
(* What a step of the system asks for: a task that becomes ready does not   *)
(* outrank the current one, or a switch is asked for, or it was just done.  *)
LEMMA SystemAsks ==
    ASSUME QInv, xSchedulerRunning, FlagFits, SystemNext
    PROVE  /\ FlagFits'
           /\ \/ \A u \in Task : Ready(u)' => uxPriority'[u] <= uxPriority'[pxCurrentTCB']
              \/ ~NoneAsked'
              \/ /\ pxCurrentTCB' = pxCurrentTCB /\ (NoneAsked' => NoneAsked)
                 /\ \A u \in Task : Ready(u)' => Ready(u) \/ uxPriority[u] <= uxPriority[pxCurrentTCB]
  <1>1. ~Boot BY DEF Boot
  <1>2. UNCHANGED uxPriority BY SystemRest
  <1>3. KInv /\ section \in Section /\ MaxCritical \in Nat
        BY KernelAssumption DEF QInv, KInv, TypeOK, Section
  <1>4. \A t, u \in Task : ~(uxPriority[t] >= uxPriority[u]) => uxPriority[t] <= uxPriority[u]
        BY PriorityTypes
  <1>5. \A t, u \in Task : ~(uxPriority[t] > uxPriority[u]) => uxPriority[t] <= uxPriority[u]
        BY PriorityTypes
  <1>6. pxCurrentTCB \in Task BY DEF QInv, KInv, SectionsAreInStep
  <1>7. CASE Switch
    <2>1. SV_ISR /\ UNCHANGED <<uxCriticalNesting, section>> BY <1>7 DEF Switch, Unmasked, SV_ISR
    <2>2. CASE uxSchedulerSuspended > 0
      <3>1. xYieldPending' BY <2>1, <2>2 DEF SV_ISR, vTaskSwitchContext
      <3> QED BY <2>1, <3>1 DEF FlagFits, NoneAsked
    <2>3. CASE ~(uxSchedulerSuspended > 0)
      <3>1. \A u \in Task : Ready(u)' => uxPriority[u] <= uxPriority[pxCurrentTCB']
            BY <1>3, <2>1, <2>3, SV_ISR_Inv
      <3> QED BY <1>2, <2>1, <3>1 DEF FlagFits
    <2> QED BY <2>2, <2>3
  <1>8. CASE HandlerStep
    <2>1. PICK q \in QueueHandle : xQueueGenericSendFromISR(q) \/ xQueueReceiveFromISR(q)
          BY <1>8 DEF HandlerStep
    <2>2. /\ InterruptsOn /\ UNCHANGED uxCriticalNesting
          /\ \/ UNCHANGED kernelVars
             \/ \E yields \in BOOLEAN : xTaskRemoveFromEventList(<<q, "receive">>, yields)
             \/ \E yields \in BOOLEAN : xTaskRemoveFromEventList(<<q, "send">>, yields)
          BY <2>1 DEF xQueueGenericSendFromISR, xQueueReceiveFromISR, FromISR, Unmasked,
                      xTasksWaitingToReceive, xTasksWaitingToSend
    <2>3. CASE UNCHANGED kernelVars BY <2>3 DEF FlagFits, NoneAsked, Ready
    <2>4. CASE \E e \in EventList, yields \in BOOLEAN : xTaskRemoveFromEventList(e, yields)
      <3>1. PICK e \in EventList, yields \in BOOLEAN : xTaskRemoveFromEventList(e, yields)
            BY <2>4
      <3>2. section = NoSection /\ uxCriticalNesting' \in 0 .. MaxCritical
            BY <1>3, <2>2 DEF InterruptsOn, KInv, TypeOK
      <3>3. \A u \in Task : Ready(u)' => Ready(u) \/ u = xEventLists[e][1]
            BY <1>3, <3>1, <3>2, xTaskRemoveFromEventList_Inv
      <3>4. /\ UNCHANGED <<pxCurrentTCB, section>>
            /\ xYieldPending' = (xYieldPending \/ uxPriority[xEventLists[e][1]] > uxPriority[pxCurrentTCB])
            /\ PENDING_SOFT_SV => PENDING_SOFT_SV'
            BY <3>1 DEF xTaskRemoveFromEventList
      <3> QED BY <1>5, <1>6, <3>3, <3>4 DEF FlagFits, NoneAsked
    <2>5. <<q, "receive">> \in EventList /\ <<q, "send">> \in EventList BY QueueAssumption
    <2> QED BY <2>2, <2>3, <2>4, <2>5
  <1>9. CASE Tick
    <2>1. CASE xPortSysTickHandle
      <3>1. InterruptsOn /\ UNCHANGED <<pxCurrentTCB, pxReadyTasksLists, xYieldPending, PENDING_SOFT_SV>>
            BY <2>1 DEF xPortSysTickHandle
      <3>2. ~section.xSwitchRequired BY <3>1 DEF InterruptsOn, NoSection
      <3>3. section' = section \/ section' = [NoSection EXCEPT !.at = "tick"]
            BY <2>1 DEF xPortSysTickHandle
      <3>4. FlagFits' BY <3>3, <3>2 DEF FlagFits, NoSection
      <3> QED BY <1>2, <3>1, <3>2, <3>4 DEF NoneAsked, Ready
    <2>2. CASE ResumeTick
      <3>1. UNCHANGED <<pxCurrentTCB, pxReadyTasksLists, xYieldPending, PENDING_SOFT_SV>>
            /\ section.at = "ticks"
            /\ section' = [section EXCEPT !.at = "resumeTick", !.xSwitchRequired = FALSE]
            BY <2>2 DEF ResumeTick
      <3>2. section'.at = "resumeTick" /\ ~section.xSwitchRequired
            BY <1>3, <3>1 DEF Section, FlagFits
      <3> QED BY <1>2, <3>1, <3>2 DEF NoneAsked, Ready, FlagFits
    <2> QED BY <1>9, <2>1, <2>2 DEF Tick
  <1>10. CASE Unblock
    <2>1. UNCHANGED uxCriticalNesting BY <1>10 DEF Unblock, Unmasked
    <2>2. CASE TickUnblock
      <3>1. /\ section.at \in {"tick", "resumeTick"} /\ UNCHANGED <<pxCurrentTCB, xYieldPending, PENDING_SOFT_SV>>
            /\ section' = [section EXCEPT !.xSwitchRequired = @ \/ Preempts(pxDelayedTaskList[1])]
            BY <2>2 DEF TickUnblock
      <3>2. section'.at = section.at /\ section'.xSwitchRequired = (section.xSwitchRequired \/ Preempts(pxDelayedTaskList[1]))
            BY <1>3, <3>1 DEF Section
      <3>3. \A u \in Task : Ready(u)' => Ready(u) \/ u = pxDelayedTaskList[1]
            BY <1>3, <2>1, <2>2, TickUnblock_Inv
      <3> QED BY <1>4, <1>6, <3>1, <3>2, <3>3 DEF FlagFits, NoneAsked, Preempts
    <2>3. CASE TickReturn
      <3>1. section' = NoSection /\ ~section'.xSwitchRequired BY <2>3 DEF TickReturn, NoSection
      <3>2. CASE section.xSwitchRequired \/ xYieldPending
        <4>1. \A u \in Task : Ready(u)' => uxPriority[u] <= uxPriority[pxCurrentTCB']
              BY <1>3, <2>1, <2>3, <3>2, TickReturn_Inv
        <4> QED BY <1>2, <3>1, <4>1 DEF FlagFits
      <3>3. CASE ~(section.xSwitchRequired \/ xYieldPending)
        <4>1. /\ UNCHANGED <<pxCurrentTCB, xYieldPending, PENDING_SOFT_SV>>
              BY <2>3, <3>3 DEF TickReturn, LeaveTickLoop
        <4>2. \A u \in Task : Ready(u)' => Ready(u) BY <1>3, <2>1, <2>3, TickReturn_Inv
        <4> QED BY <3>1, <3>3, <4>1, <4>2 DEF FlagFits, NoneAsked
      <3> QED BY <3>2, <3>3
    <2>4. CASE ResumeTickReturn
      <3>1. /\ section.at = "resumeTick" /\ UNCHANGED <<pxCurrentTCB, pxReadyTasksLists, PENDING_SOFT_SV>>
            /\ xYieldPending' = (xYieldPending \/ section.xSwitchRequired)
            /\ section' = [section EXCEPT !.at = "ticks", !.xSwitchRequired = FALSE, !.left = @ - 1]
            BY <2>4 DEF ResumeTickReturn, LeaveTickLoop
      <3>2. ~section'.xSwitchRequired BY <1>3, <3>1 DEF Section
      <3> QED BY <1>2, <3>1, <3>2 DEF NoneAsked, Ready, FlagFits
    <2>5. CASE ResumePending
      <3>1. /\ section.at = "pending" /\ UNCHANGED <<pxCurrentTCB, PENDING_SOFT_SV>>
            /\ xYieldPending' = (xYieldPending \/ Preempts(xPendingReadyList[1]))
            /\ section' = [section EXCEPT !.moved = TRUE]
            BY <2>5 DEF ResumePending
      <3>2. section'.xSwitchRequired = section.xSwitchRequired /\ section'.at = section.at
            BY <1>3, <3>1 DEF Section
      <3>3. \A u \in Task : Ready(u)' => Ready(u) \/ u = xPendingReadyList[1]
            BY <1>3, <2>1, <2>5, ResumePending_Inv
      <3> QED BY <1>4, <1>6, <3>1, <3>2, <3>3 DEF FlagFits, NoneAsked, Preempts
    <2>6. CASE ResumePendingDone
      <3>1. /\ section.at = "pending"
            /\ UNCHANGED <<pxCurrentTCB, pxReadyTasksLists, xYieldPending, PENDING_SOFT_SV>>
            /\ section' = [NoSection EXCEPT !.at = "ticks", !.left = uxPendedTicks]
            BY <2>6 DEF ResumePendingDone
      <3>2. ~section'.xSwitchRequired /\ ~section.xSwitchRequired BY <3>1 DEF FlagFits, NoSection
      <3> QED BY <1>2, <3>1, <3>2 DEF NoneAsked, Ready, FlagFits
    <2> QED BY <1>10, <2>2, <2>3, <2>4, <2>5, <2>6 DEF Unblock
  <1> QED BY <1>1, <1>7, <1>8, <1>9, <1>10 DEF SystemNext

(* A step of the system once the scheduler runs.                            *)
LEMMA SystemTops ==
    ASSUME QInv, TopInv, xSchedulerRunning, SystemNext
    PROVE  FlagFits' /\ CurrentIsTop'
  <1> DEFINE c == pxCurrentTCB
  <1>1. QInv /\ FlagFits /\ CurrentIsTop BY DEF TopInv
  <1>2. StayPut /\ c \in Task BY <1>1, SystemMoves
  <1>3. UNCHANGED uxPriority BY <1>1, SystemRest
  <1>4. c' = c => Self'.pc = Self.pc /\ Self'.xYieldRequired = Self.xYieldRequired
    <2> SUFFICES ASSUME c' = c PROVE Self'.pc = Self.pc /\ Self'.xYieldRequired = Self.xYieldRequired
          OBVIOUS
    <2>1. Self' = frame'[c] /\ Self = frame[c] BY DEF Self
    <2>2. frame'[c].pc = frame[c].pc BY <1>1, <1>2, StayPutFacts
    <2>3. frame'[c].xYieldRequired = frame[c].xYieldRequired BY <1>1, <1>2, SystemLocals
    <2> QED BY <2>1, <2>2, <2>3
  <1>6. /\ FlagFits'
        /\ \/ \A u \in Task : Ready(u)' => uxPriority'[u] <= uxPriority'[c']
           \/ ~NoneAsked'
           \/ /\ c' = c /\ (NoneAsked' => NoneAsked)
              /\ \A u \in Task : Ready(u)' => Ready(u) \/ uxPriority[u] <= uxPriority[c]
        BY <1>1, SystemAsks
  <1>7. CurrentIsTop'
    <2>1. CASE \A u \in Task : Ready(u)' => uxPriority'[u] <= uxPriority'[c']
          BY <2>1 DEF CurrentIsTop
    <2>2. CASE ~NoneAsked' BY <2>2 DEF CurrentIsTop, Calm
    <2>3. CASE /\ c' = c /\ (NoneAsked' => NoneAsked)
               /\ \A u \in Task : Ready(u)' => Ready(u) \/ uxPriority[u] <= uxPriority[c]
      <3>1. Calm' => Calm BY <1>4, <2>3 DEF Calm, AboutToYield
      <3>2. Calm' => \A u \in Task : Ready(u)' => uxPriority[u] <= uxPriority[c]
            BY <1>1, <2>3, <3>1 DEF CurrentIsTop
      <3> QED BY <1>3, <2>3, <3>2 DEF CurrentIsTop
    <2> QED BY <1>6, <2>1, <2>2, <2>3
  <1> QED BY <1>6, <1>7

(* The scheduler starts with a task of the highest priority.                *)
LEMMA BootTops ==
    ASSUME QInv, FlagFits, ~xSchedulerRunning, Boot
    PROVE  FlagFits' /\ CurrentIsTop'
  <1>1. KInv /\ section.at = "none" /\ \A t \in Task : frame[t].pc = "app"
        BY DEF QInv, KInv, SectionsAreInStep, Control
  <1>2. UNCHANGED <<frame, section, uxCriticalNesting>>
        BY DEF Boot, Unmasked, queueVars, xTaskCreate, vTaskStartScheduler
  <1>3. FlagFits' BY <1>2 DEF FlagFits
  <1>4. CASE vTaskStartScheduler
    <2>1. /\ \A u \in Task : Ready(u)' => uxPriority[u] <= uxPriority[pxCurrentTCB']
          /\ UNCHANGED uxPriority
          BY <1>1, <1>2, <1>4, vTaskStartScheduler_Inv DEF vTaskStartScheduler
    <2>2. CurrentIsTop' BY <2>1 DEF CurrentIsTop
    <2> QED BY <1>3, <2>2
  <1>5. CASE ~vTaskStartScheduler
    <2>1. ~xSchedulerRunning' BY <1>5 DEF Boot, xTaskCreate
    <2> QED BY <1>3, <2>1 DEF CurrentIsTop
  <1> QED BY <1>4, <1>5
-----------------------------------------------------------------------------
(* Outside the loop over a tick's tasks a task finds no switch required,    *)
(* and leaves none.                                                         *)
LEMMA OwnFlags ==
    ASSUME FlagFits, AppStep \/ CallStep \/ Resumed
    PROVE  FlagFits' /\ ~section.xSwitchRequired /\ ~section'.xSwitchRequired
  <1>1. section.at \in {"none", "ticks"}
        BY SectionFacts
        DEF AppStep, Call, xQueueTakeMutexRecursive, xQueueGiveMutexRecursive, AppYield,
            xQueueGenericReset, EmptyQueue, CallStep, TryStep, WaitStep, prvUnlockQueue, Commit, Notify,
            CountFirstTake, NotAvailable, Suspend, prvLockQueue, xTaskCheckForTimeOut, Test, Inherit,
            Place, UnlockTx, WakeReceivers, UnlockRx, WakeSenders, Resume, portYIELD_WITHIN_API,
            Recheck, Disinherit, At, TaskRuns, Resumed, ResumeEnd
  <1>2. section' \in {section, NoSection, [NoSection EXCEPT !.at = "pending"]}
    <2>1. CASE AppStep
          BY <2>1
          DEF AppStep, Call, xQueueTakeMutexRecursive, xQueueGiveMutexRecursive, AppYield,
              xQueueGenericReset, EmptyQueue, portYIELD
    <2>2. CASE TryStep
          BY <2>2
          DEF TryStep, Commit, Notify, CountFirstTake, NotAvailable, portYIELD,
              xTaskRemoveFromEventList, xTaskPriorityDisinherit, pvTaskIncrementMutexHeldCount
    <2>3. CASE WaitStep
          BY <2>3
          DEF WaitStep, prvUnlockQueue, Suspend, prvLockQueue, xTaskCheckForTimeOut, Test, Inherit,
              Place, UnlockTx, WakeReceivers, UnlockRx, WakeSenders, Resume, portYIELD_WITHIN_API,
              Recheck, Disinherit, vTaskSuspendAll, xTaskResumeAll, vTaskPlaceOnEventList, portYIELD,
              xTaskRemoveFromEventList, xTaskPriorityInherit, vTaskPriorityDisinheritAfterTimeout
    <2>4. CASE Resumed BY <2>4 DEF Resumed, ResumeEnd
    <2> QED BY <2>1, <2>2, <2>3, <2>4 DEF CallStep
  <1>3. ~section.xSwitchRequired BY <1>1 DEF FlagFits
  <1>4. ~section'.xSwitchRequired BY <1>2, <1>3 DEF NoSection
  <1> QED BY <1>3, <1>4 DEF FlagFits

(* A step after which no switch is asked for, and before which none was,    *)
(* when nobody becomes ready and priorities stay.                           *)
LEMMA StaysTop ==
    ASSUME CurrentIsTop, xSchedulerRunning, UNCHANGED <<pxCurrentTCB, uxPriority>>,
           Calm' => Calm, \A u \in Task : Ready(u)' => Ready(u)
    PROVE  CurrentIsTop'
  <1>1. CASE ~Calm' BY <1>1 DEF CurrentIsTop
  <1>2. CASE Calm'
    <2>1. \A u \in Task : Ready(u) => uxPriority[u] <= uxPriority[pxCurrentTCB]
          BY <1>2 DEF CurrentIsTop
    <2>2. \A u \in Task : Ready(u)' => uxPriority'[u] <= uxPriority'[pxCurrentTCB'] BY <2>1
    <2> QED BY <2>2 DEF CurrentIsTop
  <1> QED BY <1>1, <1>2

(* A give that loses an inherited priority.                                 *)
GivesBack == Commit /\ Self.q \in Mutex /\ Sends(Self.fn)

(* The steps of a task that wake nobody and change no priority, and those   *)
(* that wake tasks while the scheduler is suspended.                        *)
LEMMA PlainTops ==
    ASSUME QInv, TopInv, AppStep \/ CallStep \/ Resumed,
           ~Notify, ~Inherit, ~Disinherit, ~GivesBack
    PROVE  CurrentIsTop'
  <1>1. QInv /\ FlagFits /\ CurrentIsTop BY DEF TopInv
  <1>2. OwnMove /\ Self.pc # "notify"
    <2>1. CASE AppStep BY <1>1, <2>1, AppMoves, FrameFacts
    <2>2. CASE CallStep \/ Resumed
      <3>1. Self.pc # "notify" BY <1>1, <2>2, WhichStep
      <3> QED BY <1>1, <2>2, <3>1, TryMoves, WaitMoves, ResumedMoves DEF CallStep
    <2> QED BY <2>1, <2>2
  <1>3. ~section.xSwitchRequired /\ ~section'.xSwitchRequired BY <1>1, OwnFlags
  <1>4. /\ UNCHANGED uxPriority
        /\ xYieldPending => xYieldPending'
        /\ PENDING_SOFT_SV => PENDING_SOFT_SV'
        /\ \A u \in Task : Ready(u)' => Ready(u)
    <2>1. CASE UNCHANGED <<pxReadyTasksLists, uxPriority, xYieldPending>>
               /\ (PENDING_SOFT_SV => PENDING_SOFT_SV')
          BY <2>1 DEF Ready
    <2>2. CASE AppStep
      <3>1. UNCHANGED kernelVars \/ portYIELD BY <1>1, <2>2, AppMoves
      <3> QED BY <2>1, <3>1 DEF portYIELD
    <2>3. CASE Resumed
      <3>1. ResumeEnd BY <2>3 DEF Resumed
      <3> QED BY <2>1, <3>1 DEF ResumeEnd
    <2>4. CASE Commit
      <3>1. UNCHANGED kernelVars \/ pvTaskIncrementMutexHeldCount BY <2>4 DEF Commit, GivesBack
      <3> QED BY <2>1, <3>1 DEF pvTaskIncrementMutexHeldCount
    <2>5. CASE Place
      <3>1. \A u \in Task : Ready(u)' => Ready(u) BY <2>5, PlaceMoves
      <3>2. UNCHANGED <<uxPriority, xYieldPending, PENDING_SOFT_SV>>
            BY <2>5 DEF Place, vTaskPlaceOnEventList
      <3> QED BY <3>1, <3>2
    <2>6. CASE WakeReceivers \/ WakeSenders
      <3>1. /\ TaskRuns /\ Self.pc \in {"wakeReceivers", "wakeSenders"}
            BY <2>6 DEF WakeReceivers, WakeSenders, At
      <3>2. /\ Self.q \in QueueHandle /\ uxSchedulerSuspended = 1 /\ KInv
            /\ section = NoSection /\ xSchedulerRunning
            BY <1>1, <3>1, OwnFacts, WaitingFacts DEF Suspended, Unlocking
      <3>3. CASE UNCHANGED kernelVars BY <2>1, <3>3
      <3>4. CASE ~UNCHANGED kernelVars
        <4>1. PICK e \in EventList, yields \in BOOLEAN :
                  /\ xTaskRemoveFromEventList(e, yields)
                  /\ UNCHANGED uxCriticalNesting
              BY <2>6, <3>2, <3>4, QueueAssumption
              DEF WakeReceivers, WakeSenders, xTasksWaitingToReceive, xTasksWaitingToSend, Unmasked
        <4>2. uxCriticalNesting' \in 0 .. MaxCritical BY <3>2, <4>1 DEF KInv, TypeOK
        <4>3. \A u \in Task : Ready(u)' => Ready(u)
              BY <3>2, <4>1, <4>2, xTaskRemoveFromEventList_Inv
        <4> QED BY <4>1, <4>3 DEF xTaskRemoveFromEventList
      <3> QED BY <3>3, <3>4
    <2>7. CASE \/ CountFirstTake \/ NotAvailable \/ Suspend \/ prvLockQueue \/ xTaskCheckForTimeOut
               \/ Test \/ UnlockTx \/ UnlockRx \/ Resume \/ portYIELD_WITHIN_API \/ Recheck
      <3>1. UNCHANGED kernelVars \/ vTaskSuspendAll \/ xTaskResumeAll \/ portYIELD
            BY <2>7
            DEF CountFirstTake, NotAvailable, Suspend, prvLockQueue, xTaskCheckForTimeOut, Test,
                UnlockTx, UnlockRx, Resume, portYIELD_WITHIN_API, Recheck
      <3> QED BY <2>1, <3>1 DEF vTaskSuspendAll, xTaskResumeAll, portYIELD
    <2> QED BY <2>2, <2>3, <2>4, <2>5, <2>6, <2>7 DEF CallStep, TryStep, WaitStep, prvUnlockQueue
  <1>5. Calm' => Calm BY <1>2, <1>3, <1>4 DEF Calm, NoneAsked, AboutToYield
  <1> QED BY <1>1, <1>2, <1>4, <1>5, StaysTop DEF OwnMove

(* The notification: a giver without a waiter yields itself if it must, and *)
(* the waiter it wakes is above it.                                         *)
LEMMA NotifyTops == ASSUME QInv, TopInv, Notify, ~YieldIsDropped PROVE CurrentIsTop'
  <1> DEFINE c == pxCurrentTCB
             e == WakeList(Self.fn, Self.q)
  <1>1. QInv /\ FlagFits /\ CurrentIsTop BY DEF TopInv
  <1>2. /\ TaskRuns /\ Self.pc = "notify"
        /\ IF xEventLists[e] # << >> THEN xTaskRemoveFromEventList(e, TRUE)
           ELSE IF Self.xYieldRequired THEN portYIELD
           ELSE UNCHANGED kernelVars
        /\ uxCriticalNesting' = uxCriticalNesting - 1
        BY DEF Notify, At, ExitCritical
  <1>3. /\ c \in Task /\ KInv /\ section = NoSection /\ xSchedulerRunning
        /\ FrameFits(Self) /\ Self \in Frame
        /\ uxCriticalNesting' \in 0 .. MaxCritical
    <2>1. /\ uxCriticalNesting \in 0 .. MaxCritical /\ MaxCritical \in Nat
          /\ uxCriticalNesting >= 1
          BY <1>1, <1>2, OwnFacts DEF Nested, Critical
    <2> QED BY <1>1, <1>2, <2>1, OwnFacts
  <1>4. e \in EventList
    <2>1. Self.q \in QueueHandle BY <1>2, <1>3 DEF FrameFits
    <2> QED BY <2>1, QueueAssumption DEF WakeList, xTasksWaitingToSend, xTasksWaitingToReceive
  <1>5. ~section.xSwitchRequired BY <1>3 DEF NoSection
  <1>6. OwnMove BY <1>1, TryMoves DEF TryStep
  <1>7. CASE xEventLists[e] = << >>
    <2>1. CASE Self.xYieldRequired
      <3>1. PENDING_SOFT_SV' BY <1>2, <1>7, <2>1 DEF portYIELD
      <3> QED BY <3>1 DEF CurrentIsTop, Calm, NoneAsked
    <2>2. CASE ~Self.xYieldRequired
      <3>1. UNCHANGED kernelVars BY <1>2, <1>7, <2>2
      <3>2. Calm' => Calm BY <2>2, <3>1 DEF Calm, NoneAsked, AboutToYield
      <3>3. UNCHANGED <<pxCurrentTCB, uxPriority>> /\ \A u \in Task : Ready(u)' => Ready(u)
            BY <3>1 DEF Ready
      <3> QED BY <1>1, <1>3, <3>2, <3>3, StaysTop
    <2> QED BY <2>1, <2>2
  <1>8. CASE xEventLists[e] # << >>
    <2> DEFINE x == xEventLists[e][1]
    <2>1. PICK yields \in BOOLEAN : xTaskRemoveFromEventList(e, yields) BY <1>2, <1>8
    <2>2. /\ xYieldPending' = (xYieldPending \/ uxPriority[x] > uxPriority[c])
          /\ PENDING_SOFT_SV => PENDING_SOFT_SV'
          /\ UNCHANGED <<pxCurrentTCB, uxPriority>>
          BY <2>1 DEF xTaskRemoveFromEventList
    <2>3. /\ x \in WaitingTasks(e) /\ \A u \in Task : Ready(u)' => Ready(u) \/ u = x
      <3> QED BY <1>3, <1>4, <2>1, xTaskRemoveFromEventList_Inv
    <2>4. SUFFICES ASSUME Calm'
                   PROVE  \A u \in Task : Ready(u)' => uxPriority[u] <= uxPriority[c]
          BY <2>2 DEF CurrentIsTop
    <2>5. ~(uxPriority[x] > uxPriority[c]) /\ NoneAsked
          BY <1>5, <2>2, <2>4 DEF Calm, NoneAsked, AboutToYield
    <2>6. ~Self.xYieldRequired BY <2>4 DEF YieldIsDropped, Calm, NoneAsked, AboutToYield
    <2>7. Calm BY <2>5, <2>6 DEF Calm, AboutToYield
    <2>8. \A u \in Task : Ready(u) => uxPriority[u] <= uxPriority[c]
          BY <1>1, <1>3, <2>7 DEF CurrentIsTop
    <2> QED BY <1>1, <1>3, <2>3, <2>5, <2>8, PriorityTypes
  <1> QED BY <1>7, <1>8

(* A task that waits lends its priority and no more.                        *)
LEMMA InheritTops == ASSUME QInv, TopInv, Inherit PROVE CurrentIsTop'
  <1> DEFINE c == pxCurrentTCB
             h == xMutexHolder[Self.q]
  <1>1. QInv /\ FlagFits /\ CurrentIsTop BY DEF TopInv
  <1>2. TaskRuns /\ Self.pc = "inherit" /\ xTaskPriorityInherit(h) BY DEF Inherit, At
  <1>3. c \in Task /\ KInv /\ xSchedulerRunning /\ FrameFits(Self) BY <1>1, <1>2, OwnFacts
  <1>4. h \in Task
    <2>1. Self.q \in Mutex BY <1>2, <1>3 DEF FrameFits
    <2>2. h # NULL BY <1>2, <1>3, <2>1 DEF QInv, HoldersFit, HolderFits, Self
    <2> QED BY <1>1, <2>1, <2>2, HolderCounts
  <1>5. ~section.xSwitchRequired /\ ~section'.xSwitchRequired
    <2>1. CallStep BY DEF CallStep, WaitStep
    <2> QED BY <1>1, <2>1, OwnFlags
  <1>6. Calm' => Calm
        BY <1>2, <1>5 DEF Calm, NoneAsked, AboutToYield, xTaskPriorityInherit
  <1>7. pxCurrentTCB' = c BY <1>2 DEF xTaskPriorityInherit
  <1>8. CASE UNCHANGED <<uxPriority, readyVars>>
    <2>1. \A u \in Task : Ready(u)' => Ready(u) BY <1>8 DEF Ready
    <2> QED BY <1>1, <1>3, <1>6, <1>7, <1>8, <2>1, StaysTop
  <1>9. CASE ~UNCHANGED <<uxPriority, readyVars>>
    <2>1. uxPriority[h] < uxPriority[c] /\ SetPriority(h, uxPriority[c])
          BY <1>2, <1>9 DEF xTaskPriorityInherit
    <2>2. h # c BY <1>1, <1>3, <2>1, PriorityTypes
    <2>3. uxPriority \in [Task -> Priority] BY <1>3 DEF KInv, TypeOK
    <2>4. /\ uxPriority'[h] = uxPriority[c] /\ uxPriority'[c] = uxPriority[c]
          /\ \A u \in Task : u # h => uxPriority'[u] = uxPriority[u]
          BY <1>3, <1>4, <2>1, <2>2, <2>3 DEF SetPriority
    <2>5. \A u \in Task : Ready(u)' <=> Ready(u)
      <3>1. UNCHANGED <<pxCurrentTCB, xTickCount, xSchedulerRunning, delayVars>>
            BY <1>2 DEF xTaskPriorityInherit
      <3>2. uxPriority[c] \in Priority BY <1>3, <2>3
      <3> QED BY <1>3, <1>4, <2>1, <3>1, <3>2, SetPriorityReady
    <2>6. SUFFICES ASSUME Calm', NEW u \in Task, Ready(u)'
                   PROVE  uxPriority'[u] <= uxPriority'[c]
          BY <1>7 DEF CurrentIsTop
    <2>7. Ready(u) => uxPriority[u] <= uxPriority[c]
          BY <1>1, <1>3, <1>6, <2>6 DEF CurrentIsTop
    <2> QED BY <1>1, <1>3, <2>4, <2>5, <2>6, <2>7, PriorityTypes
  <1> QED BY <1>8, <1>9

(* A task that gave up waiting takes back what the holder no longer needs;  *)
(* the holder does not rise above it, if HolderIsRaised is left out.        *)
LEMMA TakeBackTops ==
    ASSUME QInv, TopInv, Disinherit, ~HolderIsRaised PROVE CurrentIsTop'
  <1> DEFINE c == pxCurrentTCB
             m == Self.q
             h == xMutexHolder[m]
             high == prvGetDisinheritPriorityAfterTimeout(m)
             p == Higher(uxBasePriority[h], high)
  <1>1. QInv /\ FlagFits /\ CurrentIsTop BY DEF TopInv
  <1>2. TaskRuns /\ Self.pc = "disinherit" /\ vTaskPriorityDisinheritAfterTimeout(h, high)
        BY DEF Disinherit, At
  <1>3. c \in Task /\ KInv /\ xSchedulerRunning /\ FrameFits(Self) BY <1>1, <1>2, OwnFacts
  <1>4. m \in Mutex /\ h # c
    <2>1. m \in Mutex /\ Self.fn \in {"take", "takeRecursive"}
          BY <1>2, <1>3 DEF FrameFits, Sends
    <2>2. HolderFits(Self, c) BY <1>1, <1>3 DEF QInv, HoldersFit, Self
    <2> QED BY <1>2, <2>1, <2>2 DEF HolderFits
  <1>5. ~section.xSwitchRequired /\ ~section'.xSwitchRequired
    <2>1. CallStep BY DEF CallStep, WaitStep
    <2> QED BY <1>1, <2>1, OwnFlags
  <1>6. Calm' => Calm
        BY <1>2, <1>5 DEF Calm, NoneAsked, AboutToYield, vTaskPriorityDisinheritAfterTimeout
  <1>7. pxCurrentTCB' = c BY <1>2 DEF vTaskPriorityDisinheritAfterTimeout
  <1>8. CASE UNCHANGED <<uxPriority, readyVars>>
    <2>1. \A u \in Task : Ready(u)' => Ready(u) BY <1>8 DEF Ready
    <2> QED BY <1>1, <1>3, <1>6, <1>7, <1>8, <2>1, StaysTop
  <1>9. CASE ~UNCHANGED <<uxPriority, readyVars>>
    <2>1. h # NULL /\ SetPriority(h, p)
          BY <1>2, <1>9 DEF vTaskPriorityDisinheritAfterTimeout
    <2>2. h \in Task BY <1>1, <1>4, <2>1, HolderCounts
    <2>3. high \in Priority
      <3> DEFINE s == xEventLists[<<m, "receive">>]
      <3>1. <<m, "receive">> \in EventList BY <1>4, FrameFacts, QueueAssumption
      <3>2. s \in Seq(Task) BY <1>3, <3>1 DEF KInv, TypeOK
      <3>3. 0 \in Priority BY KernelAssumption DEF Priority
      <3>4. high = IF s = << >> THEN 0 ELSE configMAX_PRIORITIES - EventItemValue[s[1]]
            BY DEF prvGetDisinheritPriorityAfterTimeout, xTasksWaitingToReceive
      <3> HIDE DEF s, high
      <3>5. CASE s = << >> BY <3>3, <3>4, <3>5
      <3>6. CASE s # << >>
        <4>1. s[1] \in Task BY <3>2, <3>6, ElementsOf
        <4>2. uxPriority[s[1]] \in Nat /\ uxPriority[s[1]] \in Priority /\ configMAX_PRIORITIES \in Nat
              BY <1>1, <4>1, PriorityTypes, KernelAssumption
        <4>3. high = configMAX_PRIORITIES - (configMAX_PRIORITIES - uxPriority[s[1]])
              BY <3>4, <3>6, <4>1 DEF EventItemValue
        <4>4. high = uxPriority[s[1]] BY <4>2, <4>3
        <4> QED BY <4>2, <4>4
      <3> QED BY <3>5, <3>6
    <2>4. p \in Priority
      <3>1. uxBasePriority[h] \in Priority BY <1>3, <2>2 DEF KInv, TypeOK
      <3> QED BY <2>3, <3>1 DEF Higher
    <2> HIDE DEF p
    <2>5. uxPriority \in [Task -> Priority] BY <1>3 DEF KInv, TypeOK
    <2>6. /\ uxPriority'[h] = p /\ \A u \in Task : u # h => uxPriority'[u] = uxPriority[u]
          BY <2>1, <2>2, <2>5 DEF SetPriority
    <2>7. \A u \in Task : Ready(u)' <=> Ready(u)
      <3>1. UNCHANGED <<pxCurrentTCB, xTickCount, xSchedulerRunning, delayVars>>
            BY <1>2 DEF vTaskPriorityDisinheritAfterTimeout
      <3> QED BY <1>3, <2>1, <2>2, <2>4, <3>1, SetPriorityReady
    <2>8. SUFFICES ASSUME Calm', NEW u \in Task, Ready(u)'
                   PROVE  uxPriority'[u] <= uxPriority'[c]
          BY <1>7 DEF CurrentIsTop
    <2>9. uxPriority[u] <= uxPriority[c] BY <1>1, <1>3, <1>6, <2>7, <2>8 DEF CurrentIsTop
    <2>10. uxPriority'[c] = uxPriority[c] BY <1>3, <1>4, <2>6
    <2>11. p \in Nat BY <2>4, KernelAssumption DEF Priority
    <2>12. u # h => uxPriority'[u] <= uxPriority'[c] BY <2>6, <2>9, <2>10
    <2>13. u = h => uxPriority'[u] <= uxPriority'[c]
      <3> SUFFICES ASSUME u = h PROVE p <= uxPriority[c] BY <2>6, <2>10
      <3>1. uxPriority[c] \in Nat /\ uxPriority[h] \in Nat BY <1>1, <1>3, <2>2, PriorityTypes
      <3>2. ~(p > uxPriority[h] /\ p > uxPriority[c])
            BY <2>2, <2>6 DEF HolderIsRaised
      <3> QED BY <2>9, <2>11, <3>1, <3>2
    <2> QED BY <2>12, <2>13
  <1> QED BY <1>8, <1>9

-----------------------------------------------------------------------------
(* A step of a task.                                                        *)
LEMMA OwnTops ==
    ASSUME QInv, TopInv, ~YieldIsDropped, ~HolderIsRaised,
           AppStep \/ CallStep \/ Resumed
    PROVE  FlagFits' /\ CurrentIsTop'
  <1>1. QInv /\ FlagFits /\ CurrentIsTop BY DEF TopInv
  <1>2. FlagFits' BY <1>1, OwnFlags
  <1>3. CurrentIsTop'
    <2>1. CASE Notify BY <2>1, NotifyTops
    <2>2. CASE Inherit BY <2>2, InheritTops
    <2>3. CASE Disinherit BY <2>3, TakeBackTops
    <2>4. CASE GivesBack
      <3>1. Commit /\ Self.q \in Mutex /\ Sends(Self.fn) BY <2>4 DEF GivesBack
      <3>2. TaskRuns /\ xTaskPriorityDisinherit BY <3>1 DEF Commit, At
      <3>3. OwnMove /\ Self \in Frame /\ xSchedulerRunning
            BY <1>1, <3>1, <3>2, TryMoves, OwnFacts DEF TryStep
      <3>4. CASE xYieldRequired
        <4> DEFINE y == Self.q \in Mutex /\ Sends(Self.fn) /\ xYieldRequired
        <4>1. Becomes([Self EXCEPT !.pc = "notify", !.xYieldRequired = y]) BY <3>1 DEF Commit
        <4>2. Self' = [Self EXCEPT !.pc = "notify", !.xYieldRequired = y]
              BY <1>1, <3>3, <4>1, BecomesMove DEF OwnMove
        <4>3. Self'.pc = "notify" /\ Self'.xYieldRequired BY <3>1, <3>3, <3>4, <4>2 DEF Frame
        <4> QED BY <4>3 DEF CurrentIsTop, Calm, AboutToYield
      <3>5. CASE ~xYieldRequired
        <4>1. UNCHANGED <<uxPriority, readyVars, switchVars, section, pxCurrentTCB>>
              BY <3>2, <3>5 DEF xTaskPriorityDisinherit
        <4>2. Self.pc # "notify" BY <3>1 DEF Commit, At
        <4>3. Calm' => Calm BY <4>1, <4>2 DEF Calm, NoneAsked, AboutToYield
        <4>4. \A u \in Task : Ready(u)' => Ready(u) BY <4>1 DEF Ready
        <4> QED BY <1>1, <3>3, <4>1, <4>3, <4>4, StaysTop
      <3> QED BY <3>4, <3>5
    <2> QED BY <2>1, <2>2, <2>3, <2>4, PlainTops
  <1> QED BY <1>2, <1>3

(* A step that changes nothing.                                             *)
LEMMA TopStutter == ASSUME TopInv, UNCHANGED qvars PROVE TopInv'
  <1>1. /\ UNCHANGED <<pxCurrentTCB, uxPriority, pxReadyTasksLists, xSchedulerRunning, section,
                       xYieldPending, PENDING_SOFT_SV, frame>>
        BY DEF qvars, vars, queueVars
  <1> QED BY <1>1 DEF TopInv, FlagFits, CurrentIsTop, Calm, NoneAsked, AboutToYield, Self, Ready

(* Every step keeps the current task on top.                                *)
LEMMA TopStep ==
    ASSUME QInv, TopInv, [QNext]_qvars, ~YieldIsDropped, ~HolderIsRaised
    PROVE  TopInv'
  <1>1. FlagFits' /\ CurrentIsTop'
    <2>1. CASE UNCHANGED qvars BY <2>1, TopStutter DEF TopInv
    <2>2. CASE SystemNext
      <3>1. CASE xSchedulerRunning BY <2>2, <3>1, SystemTops
      <3>2. CASE ~xSchedulerRunning
        <4>1. QInv OBVIOUS
        <4>2. ~InterruptsOn /\ section.at = "none"
              BY <3>2, <4>1 DEF QInv, KInv, SectionsAreInStep, InterruptsOn
        <4>3. Boot
              BY <2>2, <4>2
              DEF SystemNext, HandlerStep, xQueueGenericSendFromISR, xQueueReceiveFromISR, Switch,
                  SV_ISR, Tick, xPortSysTickHandle, ResumeTick, Unblock, TickUnblock, TickReturn,
                  ResumeTickReturn, ResumePending, ResumePendingDone
        <4> QED BY <3>2, <4>3, BootTops DEF TopInv
      <3> QED BY <3>1, <3>2
    <2>3. CASE AppStep \/ CallStep \/ Resumed BY <2>3, OwnTops
    <2> QED BY <2>1, <2>2, <2>3 DEF QNext, SystemNext
  <1> QED BY <1>1 DEF TopInv

(* Before the scheduler runs nobody is ready.                               *)
LEMMA TopInit == ASSUME QInit PROVE TopInv
  <1>1. /\ ~xSchedulerRunning /\ section = NoSection
        /\ pxReadyTasksLists = [p \in Priority |-> <<xListEnd>>] /\ uxPriority = [t \in Task |-> 0]
        BY DEF QInit, Init
  <1>2. \A t \in Task : ~Ready(t)
    <2>1. 0 \in Priority BY KernelAssumption DEF Priority
    <2>2. Elements(<<xListEnd>>) = {xListEnd}
          BY DEF Elements
    <2> QED BY <1>1, <2>1, <2>2, KernelAssumption DEF Ready
  <1> QED BY <1>1, <1>2, KernelAssumption
          DEF TopInv, FlagFits, CurrentIsTop, NoSection

(* Preemption, HighestPriorityRuns, for any tasks, queues and programs and  *)
(* any nesting of mutexes, also while priorities are lent and taken back,   *)
(* and whether or not critical sections keep interrupts out: until one of   *)
(* the two slips happens, no ready task has a higher priority than the      *)
(* current one when no switch is on its way - but for a giver that lost     *)
(* what it inherited and is about to yield, in its critical section.        *)
THEOREM HighestPriorityAlwaysRuns ==
    QSpec /\ [][~YieldIsDropped /\ ~HolderIsRaised]_qvars =>
        [](AboutToYield \/ HighestPriorityRuns)
  <1>1. QInit => TopInv BY TopInit
  <1>2. QInv /\ TopInv /\ [QNext]_qvars /\ [~YieldIsDropped /\ ~HolderIsRaised]_qvars => TopInv'
    <2> SUFFICES ASSUME QInv, TopInv, [QNext]_qvars,
                        [~YieldIsDropped /\ ~HolderIsRaised]_qvars
                 PROVE  TopInv'
          OBVIOUS
    <2>1. CASE ~YieldIsDropped /\ ~HolderIsRaised BY <2>1, TopStep
    <2>2. CASE UNCHANGED qvars BY <2>2, TopStutter
    <2> QED BY <2>1, <2>2
  <1>3. TopInv => AboutToYield \/ HighestPriorityRuns
    <2> SUFFICES ASSUME TopInv, ~AboutToYield, NoSwitchOnItsWay
                 PROVE  \A t \in Task : Ready(t) => uxPriority[t] <= uxPriority[pxCurrentTCB]
          BY DEF HighestPriorityRuns
    <2>1. xSchedulerRunning /\ section = NoSection /\ ~xYieldPending /\ ~PENDING_SOFT_SV
          BY DEF NoSwitchOnItsWay, InterruptsOn
    <2>2. Calm BY <2>1 DEF Calm, NoneAsked, NoSection
    <2> QED BY <2>1, <2>2 DEF TopInv, CurrentIsTop
  <1>4. QSpec => []QInv BY QInvHolds
  <1> QED BY <1>1, <1>2, <1>3, <1>4, PTL DEF QSpec
===============================================================================
