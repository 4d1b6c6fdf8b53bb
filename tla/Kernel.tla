-------------------------------- MODULE Kernel --------------------------------
(***************************************************************************)
(* The scheduler of os/task.c with the context switch requests of os/port.c.*)
(*                                                                         *)
(* A task is current, ready, delayed or pending-ready; it waits for an event*)
(* in an event list.  Interrupts do not nest: an interrupt handler, or a    *)
(* critical section, runs to its end before anything else does.  Where such *)
(* a section loops over a list the model takes one step per iteration, and  *)
(* the variable section says which loop runs.  task.c and queue.c rely on   *)
(* critical sections that keep interrupts out (CriticalMasks).  The calls   *)
(* of portDISABLE_INTERRUPTS in port.c are commented out, so what holds for *)
(* CriticalMasks = FALSE is what this build does between two steps.         *)
(*                                                                         *)
(* xNumOfOverflows is only ever compared with a copy of itself, in          *)
(* xTaskCheckForTimeOut; Queue keeps with each copy whether it is still     *)
(* equal.                                                                   *)
(*                                                                         *)
(* Who calls the scheduler, and when, is left open here as far as the       *)
(* callers of task.c leave it open; Queue is the caller the firmware has.   *)
(***************************************************************************)
EXTENDS ListOps, FiniteSets

CONSTANTS
    Task, IdleTask,        \* TCBs, and the one of prvIdleTask
    EventList,             \* xTasksWaitingToSend and ...ToReceive of all queues
    configMAX_PRIORITIES,
    TickMod,               \* a TickType counts modulo this
    MaxPendedTicks,        \* bound: ticks that come while the scheduler is suspended
    MaxSuspended,          \* bound: nesting of vTaskSuspendAll
    MaxCritical,           \* bound: nesting of critical sections
    MaxMutexesHeld,        \* bound: mutexes one task holds
    CriticalMasks,         \* vPortEnterCritical disables interrupts
    NULL, xListEnd

Priority == 0 .. configMAX_PRIORITIES - 1
TickType == 0 .. TickMod - 1
portMAX_DELAY == TickMod - 1

ASSUME KernelAssumption ==
    /\ IdleTask \in Task /\ NULL \notin Task /\ xListEnd \notin Task
    /\ configMAX_PRIORITIES \in Nat \ {0}
    /\ TickMod \in Nat \ {0, 1}
    /\ {MaxPendedTicks, MaxSuspended, MaxCritical, MaxMutexesHeld} \subseteq Nat
    /\ CriticalMasks \in BOOLEAN

VARIABLES
    pxCurrentTCB,
    pxReadyTasksLists, uxTopReadyPriority,
    pxDelayedTaskList, pxOverflowDelayedTaskList, xPendingReadyList,
    xEventLists,               \* the tasks in every event list
    xStateItemValue,           \* xStateListItem.xItemValue: when to wake
    xTickCount, uxPendedTicks, xNextTaskUnblockTime,
    xSchedulerRunning, uxSchedulerSuspended, xYieldPending,
    uxPriority, uxBasePriority, uxMutexesHeld,
    PENDING_SOFT_SV,           \* port.c: a context switch was requested
    section,                   \* the loop that runs, and its locals
    uxCriticalNesting          \* port.c

readyVars == <<pxReadyTasksLists, uxTopReadyPriority>>
delayVars == <<pxDelayedTaskList, pxOverflowDelayedTaskList, xStateItemValue,
               xNextTaskUnblockTime>>
eventVars == <<xPendingReadyList, xEventLists>>
tickVars == <<xTickCount, uxPendedTicks>>
prioVars == <<uxPriority, uxBasePriority, uxMutexesHeld>>
switchVars == <<xYieldPending, PENDING_SOFT_SV>>

(* Everything but the critical nesting, which a task may change in the same *)
(* step as it calls the scheduler.                                          *)
kernelVars == <<pxCurrentTCB, readyVars, delayVars, eventVars, tickVars, prioVars,
                switchVars, xSchedulerRunning, uxSchedulerSuspended, section>>
-----------------------------------------------------------------------------
(* The value of a task's xEventListItem: xTaskCreate and everything that    *)
(* changes uxPriority set it, in or out of an event list.                   *)
EventItemValue == [t \in Task |-> configMAX_PRIORITIES - uxPriority[t]]

Ready(t) == t \in Elements(pxReadyTasksLists[uxPriority[t]])
Delayed(t) ==
    t \in Elements(pxDelayedTaskList) \cup Elements(pxOverflowDelayedTaskList)
Created(t) == Ready(t) \/ Delayed(t)

(* uxListRemove of an item that may be in the list s.                       *)
NotRemoved(s, t) == s    \* mutant

Removed(s, t) == IF t \in Elements(s) THEN Without(s, t) ELSE s

(* What runs next may be: the current task, an interrupt, or neither.       *)
NoSection == [at |-> "none", xSwitchRequired |-> FALSE, moved |-> FALSE, left |-> 0]
Masked == CriticalMasks /\ uxCriticalNesting > 0
InterruptsOn == xSchedulerRunning /\ section = NoSection /\ ~Masked
TaskRuns == xSchedulerRunning /\ section = NoSection /\ (PENDING_SOFT_SV => Masked)

(* A task that left the ready lists stops at the first switch; until then   *)
(* it keeps the scheduler suspended, or yields.                             *)
MustYield == uxSchedulerSuspended = 0 /\ ~Ready(pxCurrentTCB)
-----------------------------------------------------------------------------
(* prvAddTaskToReadyList of a task with priority p, with the recording of   *)
(* the highest ready priority.                                              *)
AddToReady(lists, t, p) == [lists EXCEPT ![p] = InsertEnd(@, t)]
Higher(p, q) == IF p > q THEN p ELSE q

NotRecorded(p) == uxTopReadyPriority    \* mutant

taskRECORD_READY_PRIORITY(p) == Higher(p, uxTopReadyPriority)

prvAddTaskToReadyList(t) ==
    /\ pxReadyTasksLists' = AddToReady(pxReadyTasksLists, t, uxPriority[t])
    /\ uxTopReadyPriority' = taskRECORD_READY_PRIORITY(uxPriority[t])

(* A task moves to the ready list of another priority.                      *)
Requeued(t, p) ==
    AddToReady([pxReadyTasksLists EXCEPT ![uxPriority[t]] = Without(@, t)], t, p)

(* prvResetNextTaskUnblockTime, for the delayed list d.                     *)
HeadWakeTime(d) == IF d = << >> THEN portMAX_DELAY ELSE xStateItemValue[d[1]]

(* taskSELECT_HIGHEST_PRIORITY_TASK searches down from uxTopReadyPriority.  *)
NonEmpty(p) == Len(pxReadyTasksLists[p]) > 1
TopPriority ==
    CHOOSE p \in 0 .. uxTopReadyPriority :
        NonEmpty(p) /\ \A q \in p + 1 .. uxTopReadyPriority : ~NonEmpty(q)

taskSELECT_HIGHEST_PRIORITY_TASK ==
    LET round == NextRound(pxReadyTasksLists[TopPriority], xListEnd)
    IN /\ pxReadyTasksLists' = [pxReadyTasksLists EXCEPT ![TopPriority] = round]
       /\ pxCurrentTCB' = round[Len(round)]
       /\ uxTopReadyPriority' = TopPriority

(* Mutant: the switch does not look at uxSchedulerSuspended.                *)
SwitchAlways == xYieldPending' = FALSE /\ taskSELECT_HIGHEST_PRIORITY_TASK

vTaskSwitchContext ==
    IF uxSchedulerSuspended > 0
    THEN xYieldPending' = TRUE /\ UNCHANGED <<pxCurrentTCB, readyVars>>
    ELSE xYieldPending' = FALSE /\ taskSELECT_HIGHEST_PRIORITY_TASK
-----------------------------------------------------------------------------
(* prvInitialiseTaskLists, and the initial values of the statics.           *)
Init ==
    /\ pxCurrentTCB = NULL
    /\ pxReadyTasksLists = [p \in Priority |-> <<xListEnd>>]
    /\ uxTopReadyPriority = 0
    /\ pxDelayedTaskList = << >> /\ pxOverflowDelayedTaskList = << >>
    /\ xPendingReadyList = << >>
    /\ xEventLists = [e \in EventList |-> << >>]
    /\ xStateItemValue = [t \in Task |-> 0]
    /\ xTickCount = 0 /\ uxPendedTicks = 0
    /\ xNextTaskUnblockTime = 0
    /\ xSchedulerRunning = FALSE /\ uxSchedulerSuspended = 0
    /\ xYieldPending = FALSE /\ PENDING_SOFT_SV = FALSE
    /\ uxPriority = [t \in Task |-> 0] /\ uxBasePriority = [t \in Task |-> 0]
    /\ uxMutexesHeld = [t \in Task |-> 0]
    /\ section = NoSection
    /\ uxCriticalNesting = 0

(* prvInitialiseNewTask cuts too high a priority.                           *)
CutTooLate(priority) ==    \* mutant
    IF priority > configMAX_PRIORITIES THEN configMAX_PRIORITIES - 1 ELSE priority

Cut(priority) ==
    IF priority >= configMAX_PRIORITIES THEN configMAX_PRIORITIES - 1 ELSE priority

prvInitialiseNewTask(t, p) ==
    /\ uxPriority' = [uxPriority EXCEPT ![t] = p]
    /\ uxBasePriority' = [uxBasePriority EXCEPT ![t] = p]
    /\ uxMutexesHeld' = [uxMutexesHeld EXCEPT ![t] = 0]

(* prvAddNewTaskToReadyList: the first task is current; before the start so *)
(* is the last one of the highest priority; after it a switch is asked for. *)
prvAddNewTaskToReadyList(t, p) ==
    /\ pxReadyTasksLists' = AddToReady(pxReadyTasksLists, t, p)
    /\ uxTopReadyPriority' = taskRECORD_READY_PRIORITY(p)
    /\ IF pxCurrentTCB = NULL
       THEN pxCurrentTCB' = t /\ UNCHANGED PENDING_SOFT_SV
       ELSE IF xSchedulerRunning
       THEN /\ PENDING_SOFT_SV' = (PENDING_SOFT_SV \/ uxPriority[pxCurrentTCB] < p)
            /\ UNCHANGED pxCurrentTCB
       ELSE /\ pxCurrentTCB' = IF uxPriority[pxCurrentTCB] <= p THEN t
                               ELSE pxCurrentTCB
            /\ UNCHANGED PENDING_SOFT_SV

(* xTaskCreate, by main before the scheduler starts or by a task.           *)
xTaskCreate(t, priority) ==
    /\ ~Created(t)
    /\ prvInitialiseNewTask(t, Cut(priority))
    /\ prvAddNewTaskToReadyList(t, Cut(priority))
    /\ UNCHANGED <<delayVars, eventVars, tickVars, xYieldPending,
                   xSchedulerRunning, uxSchedulerSuspended, section>>

(* vTaskStartScheduler after it has created the idle task (an xTaskCreate   *)
(* with priority 0), and xPortStartScheduler up to the first switch.        *)
vTaskStartScheduler ==
    /\ ~xSchedulerRunning
    /\ Created(IdleTask)
    /\ xNextTaskUnblockTime' = portMAX_DELAY
    /\ xSchedulerRunning' = TRUE
    /\ xTickCount' = 0
    /\ vTaskSwitchContext
    /\ UNCHANGED <<pxDelayedTaskList, pxOverflowDelayedTaskList, xStateItemValue,
                   eventVars, uxPendedTicks, prioVars,
                   PENDING_SOFT_SV, uxSchedulerSuspended, section>>
-----------------------------------------------------------------------------
(* xTaskIncrementTick up to its loop, with taskSWITCH_DELAYED_LISTS when    *)
(* the count wraps.  The loop follows, even if no task is due.              *)
CountTick ==
    /\ xTickCount' = (xTickCount + 1) % TickMod
    /\ IF xTickCount' = 0
       THEN /\ pxDelayedTaskList' = pxOverflowDelayedTaskList
            /\ pxOverflowDelayedTaskList' = pxDelayedTaskList
            /\ xNextTaskUnblockTime' = HeadWakeTime(pxOverflowDelayedTaskList)
       ELSE UNCHANGED <<pxDelayedTaskList, pxOverflowDelayedTaskList,
                        xNextTaskUnblockTime>>
    /\ UNCHANGED xStateItemValue

(* xPortSysTickHandle: the tick interrupt.  A suspended scheduler only      *)
(* counts the tick, and a switch asked for stays asked for.                 *)
xPortSysTickHandle ==
    /\ InterruptsOn
    /\ IF uxSchedulerSuspended > 0
       THEN /\ uxPendedTicks < MaxPendedTicks
            /\ uxPendedTicks' = uxPendedTicks + 1
            /\ UNCHANGED <<xTickCount, delayVars, section>>
       ELSE /\ CountTick
            /\ section' = [NoSection EXCEPT !.at = "tick"]
            /\ UNCHANGED uxPendedTicks
    /\ UNCHANGED <<pxCurrentTCB, readyVars, eventVars, prioVars, switchVars,
                   xSchedulerRunning, uxSchedulerSuspended>>

(* The loop of xTaskIncrementTick: the head of the delayed list is due.     *)
TickDueLate ==    \* mutant
    /\ xTickCount >= xNextTaskUnblockTime
    /\ pxDelayedTaskList # << >>
    /\ xTickCount > xStateItemValue[pxDelayedTaskList[1]]

TickDue ==
    /\ xTickCount >= xNextTaskUnblockTime
    /\ pxDelayedTaskList # << >>
    /\ xTickCount >= xStateItemValue[pxDelayedTaskList[1]]

(* A task that becomes ready asks for a switch.                             *)
PreemptsIfLower(t) == uxPriority[t] < uxPriority[pxCurrentTCB]    \* mutant

Preempts(t) == uxPriority[t] >= uxPriority[pxCurrentTCB]

(* Its event list item leaves the event list, or the pending list.          *)
StayInEventLists(t) == UNCHANGED eventVars    \* mutant

LeaveEventLists(t) ==
    /\ xEventLists' = [e \in EventList |-> Removed(xEventLists[e], t)]
    /\ xPendingReadyList' = Removed(xPendingReadyList, t)

TickUnblock ==
    /\ section.at \in {"tick", "resumeTick"}
    /\ TickDue
    /\ LET t == pxDelayedTaskList[1]
       IN /\ pxDelayedTaskList' = Tail(pxDelayedTaskList)
          /\ LeaveEventLists(t)
          /\ prvAddTaskToReadyList(t)
          /\ section' = [section EXCEPT !.xSwitchRequired = @ \/ Preempts(t)]
    /\ UNCHANGED <<pxCurrentTCB, pxOverflowDelayedTaskList, xStateItemValue,
                   xNextTaskUnblockTime, tickVars, prioVars, switchVars,
                   xSchedulerRunning, uxSchedulerSuspended>>

(* The way out of the loop, or past it; then what the caller does with the  *)
(* result: the interrupt switches, xTaskResumeAll notes it.                 *)
LeaveTickLoop ==
    /\ ~TickDue
    /\ xNextTaskUnblockTime' = IF xTickCount >= xNextTaskUnblockTime
                               THEN HeadWakeTime(pxDelayedTaskList)
                               ELSE xNextTaskUnblockTime
    /\ UNCHANGED <<pxDelayedTaskList, pxOverflowDelayedTaskList, xStateItemValue,
                   eventVars, tickVars, prioVars, PENDING_SOFT_SV,
                   xSchedulerRunning, uxSchedulerSuspended>>

TickReturn ==
    /\ section.at = "tick"
    /\ LeaveTickLoop
    /\ IF section.xSwitchRequired \/ xYieldPending
       THEN vTaskSwitchContext
       ELSE UNCHANGED <<pxCurrentTCB, readyVars, xYieldPending>>
    /\ section' = NoSection

ResumeTickReturn ==
    /\ section.at = "resumeTick"
    /\ LeaveTickLoop
    /\ xYieldPending' = (xYieldPending \/ section.xSwitchRequired)
    /\ section' = [section EXCEPT !.at = "ticks", !.xSwitchRequired = FALSE,
                                  !.left = @ - 1]
    /\ UNCHANGED <<pxCurrentTCB, readyVars>>

(* SV_ISR on a software request: __xt_timer_int1 switches the context.      *)
SV_ISR ==
    /\ InterruptsOn
    /\ PENDING_SOFT_SV
    /\ vTaskSwitchContext
    /\ PENDING_SOFT_SV' = FALSE
    /\ UNCHANGED <<delayVars, eventVars, tickVars, prioVars, xSchedulerRunning,
                   uxSchedulerSuspended, section>>

(* portYIELD: PendSV(SVCSoftware).                                          *)
portYIELD ==
    /\ PENDING_SOFT_SV' = TRUE
    /\ UNCHANGED <<pxCurrentTCB, readyVars, delayVars, eventVars, tickVars,
                   prioVars, xYieldPending, xSchedulerRunning,
                   uxSchedulerSuspended, section>>
-----------------------------------------------------------------------------
vTaskSuspendAll ==
    /\ uxSchedulerSuspended < MaxSuspended
    /\ uxSchedulerSuspended' = uxSchedulerSuspended + 1
    /\ UNCHANGED <<pxCurrentTCB, readyVars, delayVars, eventVars, tickVars,
                   prioVars, switchVars, xSchedulerRunning, section>>

(* xTaskResumeAll: the outermost one works off what was held back.          *)
xTaskResumeAll ==
    /\ uxSchedulerSuspended > 0
    /\ uxSchedulerSuspended' = uxSchedulerSuspended - 1
    /\ section' = IF uxSchedulerSuspended = 1
                  THEN [NoSection EXCEPT !.at = "pending"] ELSE NoSection
    /\ UNCHANGED <<pxCurrentTCB, readyVars, delayVars, eventVars, tickVars,
                   prioVars, switchVars, xSchedulerRunning>>

(* Its loop over xPendingReadyList.                                         *)
ResumePending ==
    /\ section.at = "pending"
    /\ xPendingReadyList # << >>
    /\ LET t == xPendingReadyList[1]
       IN /\ xPendingReadyList' = Tail(xPendingReadyList)
          /\ pxDelayedTaskList' = Removed(pxDelayedTaskList, t)
          /\ pxOverflowDelayedTaskList' = Removed(pxOverflowDelayedTaskList, t)
          /\ prvAddTaskToReadyList(t)
          /\ xYieldPending' = (xYieldPending \/ Preempts(t))
    /\ section' = [section EXCEPT !.moved = TRUE]
    /\ UNCHANGED <<pxCurrentTCB, xStateItemValue, xNextTaskUnblockTime,
                   xEventLists, tickVars, prioVars, PENDING_SOFT_SV,
                   xSchedulerRunning, uxSchedulerSuspended>>

ResumePendingDone ==
    /\ section.at = "pending"
    /\ xPendingReadyList = << >>
    /\ xNextTaskUnblockTime' = IF section.moved THEN HeadWakeTime(pxDelayedTaskList)
                               ELSE xNextTaskUnblockTime
    /\ section' = [NoSection EXCEPT !.at = "ticks", !.left = uxPendedTicks]
    /\ UNCHANGED <<pxCurrentTCB, readyVars, pxDelayedTaskList,
                   pxOverflowDelayedTaskList, xStateItemValue, eventVars,
                   tickVars, prioVars, switchVars, xSchedulerRunning,
                   uxSchedulerSuspended>>

(* Its loop over the ticks that were held back.                             *)
ResumeTick ==
    /\ section.at = "ticks"
    /\ section.left > 0
    /\ CountTick
    /\ section' = [section EXCEPT !.at = "resumeTick", !.xSwitchRequired = FALSE]
    /\ UNCHANGED <<pxCurrentTCB, readyVars, eventVars, uxPendedTicks, prioVars,
                   switchVars, xSchedulerRunning, uxSchedulerSuspended>>

(* Its end: a yield, if one is due; that it was done is the result.         *)
xAlreadyYielded == xYieldPending

ResumeEnd ==
    /\ section.at = "ticks"
    /\ section.left = 0
    /\ uxPendedTicks' = 0
    /\ PENDING_SOFT_SV' = (PENDING_SOFT_SV \/ xAlreadyYielded)
    /\ section' = NoSection
    /\ UNCHANGED <<pxCurrentTCB, readyVars, delayVars, eventVars, xTickCount,
                   prioVars, xYieldPending, xSchedulerRunning,
                   uxSchedulerSuspended>>
-----------------------------------------------------------------------------
(* prvAddCurrentTaskToDelayedList for n ticks: a time past the wrap of the  *)
(* count goes to the overflow list, and an earlier one moves the next look. *)
NeverWraps(time) == FALSE    \* mutant

WakesAfterWrap(time) == time < xTickCount

LookAsBefore(time) == xNextTaskUnblockTime    \* mutant

LookNoLater(time) ==
    IF time < xNextTaskUnblockTime THEN time ELSE xNextTaskUnblockTime

prvAddCurrentTaskToDelayedList(n) ==
    LET t == pxCurrentTCB
        xTimeToWake == (xTickCount + n) % TickMod
        times == [xStateItemValue EXCEPT ![t] = xTimeToWake]
    IN /\ pxReadyTasksLists' = [pxReadyTasksLists EXCEPT
                                  ![uxPriority[t]] = Without(@, t)]
       /\ xStateItemValue' = times
       /\ IF WakesAfterWrap(xTimeToWake)
          THEN /\ pxOverflowDelayedTaskList' =
                      InsertInOrder(pxOverflowDelayedTaskList, t, times)
               /\ UNCHANGED <<pxDelayedTaskList, xNextTaskUnblockTime>>
          ELSE /\ pxDelayedTaskList' = InsertInOrder(pxDelayedTaskList, t, times)
               /\ xNextTaskUnblockTime' = LookNoLater(xTimeToWake)
               /\ UNCHANGED pxOverflowDelayedTaskList

(* vTaskPlaceOnEventList, called with the scheduler suspended and the queue *)
(* locked: no interrupt touches the lists it changes.                       *)
vTaskPlaceOnEventList(e, n) ==
    /\ xEventLists' = [xEventLists EXCEPT
                         ![e] = InsertInOrder(@, pxCurrentTCB, EventItemValue)]
    /\ prvAddCurrentTaskToDelayedList(n)
    /\ UNCHANGED <<pxCurrentTCB, uxTopReadyPriority, xPendingReadyList, tickVars,
                   prioVars, switchVars, xSchedulerRunning, uxSchedulerSuspended,
                   section>>

(* xTaskRemoveFromEventList wakes the first task of an event list; a caller *)
(* that yields does so if the task it woke has a higher priority.           *)
xTaskRemoveFromEventList(e, yields) ==
    /\ xEventLists[e] # << >>
    /\ LET t == xEventLists[e][1]
           woken == uxPriority[t] > uxPriority[pxCurrentTCB]
       IN /\ xEventLists' = [xEventLists EXCEPT ![e] = Tail(@)]
          /\ IF uxSchedulerSuspended = 0
             THEN /\ pxDelayedTaskList' = Removed(pxDelayedTaskList, t)
                  /\ pxOverflowDelayedTaskList' = Removed(pxOverflowDelayedTaskList, t)
                  /\ prvAddTaskToReadyList(t)
                  /\ UNCHANGED xPendingReadyList
             ELSE /\ xPendingReadyList' = Append(xPendingReadyList, t)
                  /\ UNCHANGED <<pxDelayedTaskList, pxOverflowDelayedTaskList,
                                 readyVars>>
          /\ xYieldPending' = (xYieldPending \/ woken)
          /\ PENDING_SOFT_SV' = (PENDING_SOFT_SV \/ (yields /\ woken))
    /\ UNCHANGED <<pxCurrentTCB, xStateItemValue, xNextTaskUnblockTime, tickVars,
                   prioVars, xSchedulerRunning, uxSchedulerSuspended, section>>
-----------------------------------------------------------------------------
(* xTaskPriorityInherit: the holder runs with the waiter's priority.  The   *)
(* result says whether the waiter has to take it back on a timeout.         *)
xInheritanceOccurred(holder) ==
    /\ holder # NULL
    /\ \/ uxPriority[holder] < uxPriority[pxCurrentTCB]
       \/ uxBasePriority[holder] < uxPriority[pxCurrentTCB]

(* A task gets priority p, in its ready list if it is in one.               *)
SetPriority(t, p) ==
    /\ uxPriority' = [uxPriority EXCEPT ![t] = p]
    /\ IF Ready(t)
       THEN /\ pxReadyTasksLists' = Requeued(t, p)
            /\ uxTopReadyPriority' = taskRECORD_READY_PRIORITY(p)
       ELSE UNCHANGED readyVars

xTaskPriorityInherit(holder) ==
    /\ IF holder # NULL /\ uxPriority[holder] < uxPriority[pxCurrentTCB]
       THEN SetPriority(holder, uxPriority[pxCurrentTCB])
       ELSE UNCHANGED <<uxPriority, readyVars>>
    /\ UNCHANGED <<pxCurrentTCB, delayVars, eventVars, tickVars, uxBasePriority,
                   uxMutexesHeld, switchVars, xSchedulerRunning,
                   uxSchedulerSuspended, section>>

(* xTaskPriorityDisinherit: the current task gives back a mutex; the last   *)
(* one takes the inherited priority away.  xYieldRequired is its result.    *)
PriorityIsKept == FALSE    \* mutant

xYieldRequired ==
    /\ uxPriority[pxCurrentTCB] # uxBasePriority[pxCurrentTCB]
    /\ uxMutexesHeld[pxCurrentTCB] = 1

xTaskPriorityDisinherit ==
    LET t == pxCurrentTCB
    IN /\ uxMutexesHeld[t] > 0
       /\ uxMutexesHeld' = [uxMutexesHeld EXCEPT ![t] = @ - 1]
       /\ IF xYieldRequired
          THEN SetPriority(t, uxBasePriority[t])
          ELSE UNCHANGED <<uxPriority, readyVars>>
       /\ UNCHANGED <<pxCurrentTCB, delayVars, eventVars, tickVars, uxBasePriority,
                      switchVars, xSchedulerRunning, uxSchedulerSuspended, section>>

(* vTaskPriorityDisinheritAfterTimeout: the current task gave up waiting;   *)
(* highest is the best priority that still waits.                           *)
vTaskPriorityDisinheritAfterTimeout(holder, highest) ==
    LET p == Higher(uxBasePriority[holder], highest)
    IN /\ IF holder # NULL /\ uxPriority[holder] # p /\ uxMutexesHeld[holder] = 1
          THEN SetPriority(holder, p)
          ELSE UNCHANGED <<uxPriority, readyVars>>
       /\ UNCHANGED <<pxCurrentTCB, delayVars, eventVars, tickVars, uxBasePriority,
                      uxMutexesHeld, switchVars, xSchedulerRunning,
                      uxSchedulerSuspended, section>>

pvTaskIncrementMutexHeldCount ==
    /\ uxMutexesHeld[pxCurrentTCB] < MaxMutexesHeld
    /\ uxMutexesHeld' = [uxMutexesHeld EXCEPT ![pxCurrentTCB] = @ + 1]
    /\ UNCHANGED <<pxCurrentTCB, readyVars, delayVars, eventVars, tickVars,
                   uxPriority, uxBasePriority, switchVars, xSchedulerRunning,
                   uxSchedulerSuspended, section>>
-----------------------------------------------------------------------------
(* The current task calls the scheduler, in the states in which the callers *)
(* in queue.c do, and may enter or leave a critical section as it does: not *)
(* while a switch is due, if sections mask it.  prvIdleTask calls nothing.  *)
TaskStep ==
    /\ TaskRuns
    /\ pxCurrentTCB # IdleTask
    /\ uxCriticalNesting' \in uxCriticalNesting - 1 .. uxCriticalNesting + 1
    /\ uxCriticalNesting' \in 0 .. MaxCritical
    /\ MustYield /\ CriticalMasks => uxCriticalNesting' = 0
    /\ \/ portYIELD
       \/ UNCHANGED kernelVars
       \/ /\ ~MustYield
          /\ \/ \E e \in EventList, yields \in BOOLEAN :
                    xTaskRemoveFromEventList(e, yields)
             \/ xTaskResumeAll
       \/ /\ Ready(pxCurrentTCB)
          /\ \/ \E t \in Task, p \in 0 .. configMAX_PRIORITIES : xTaskCreate(t, p)
             \/ vTaskSuspendAll
             \/ /\ uxSchedulerSuspended > 0
                /\ \E e \in EventList, n \in 1 .. portMAX_DELAY :
                       vTaskPlaceOnEventList(e, n)
             \/ pvTaskIncrementMutexHeldCount
             \/ xTaskPriorityDisinherit
             \/ \E h \in Task \ {pxCurrentTCB} :
                    /\ uxMutexesHeld[h] > 0
                    /\ \/ xTaskPriorityInherit(h)
                       \/ \E p \in Priority :
                             vTaskPriorityDisinheritAfterTimeout(h, p)

(* An interrupt handler wakes a task through one of the ...FromISR calls.   *)
InterruptWakes ==
    /\ InterruptsOn
    /\ \E e \in EventList, yields \in BOOLEAN : xTaskRemoveFromEventList(e, yields)

SectionStep ==
    \/ TickUnblock \/ TickReturn \/ ResumeTickReturn
    \/ ResumePending \/ ResumePendingDone \/ ResumeTick \/ ResumeEnd

(* main creates tasks and starts the scheduler.                             *)
Startup ==
    /\ ~xSchedulerRunning
    /\ \/ \E t \in Task \ {IdleTask}, p \in 0 .. configMAX_PRIORITIES : xTaskCreate(t, p)
       \/ xTaskCreate(IdleTask, 0)
       \/ vTaskStartScheduler

Next ==
    \/ TaskStep
    \/ /\ Startup \/ xPortSysTickHandle \/ SV_ISR \/ InterruptWakes \/ SectionStep
       /\ UNCHANGED uxCriticalNesting

vars == <<kernelVars, uxCriticalNesting>>

Spec == Init /\ [][Next]_vars
-----------------------------------------------------------------------------
TypeOK ==
    /\ pxCurrentTCB \in Task \cup {NULL}
    /\ pxReadyTasksLists \in [Priority -> Seq(Task \cup {xListEnd})]
    /\ uxTopReadyPriority \in Priority
    /\ {pxDelayedTaskList, pxOverflowDelayedTaskList, xPendingReadyList}
           \subseteq Seq(Task)
    /\ xEventLists \in [EventList -> Seq(Task)]
    /\ xStateItemValue \in [Task -> TickType]
    /\ xTickCount \in TickType /\ xNextTaskUnblockTime \in TickType
    /\ uxPendedTicks \in 0 .. MaxPendedTicks
    /\ uxSchedulerSuspended \in 0 .. MaxSuspended
    /\ {xSchedulerRunning, xYieldPending, PENDING_SOFT_SV} \subseteq BOOLEAN
    /\ uxPriority \in [Task -> Priority] /\ uxBasePriority \in [Task -> Priority]
    /\ uxMutexesHeld \in [Task -> 0 .. MaxMutexesHeld]
    /\ section \in [at : {"none", "tick", "pending", "ticks", "resumeTick"},
                     xSwitchRequired : BOOLEAN, moved : BOOLEAN,
                     left : 0 .. MaxPendedTicks]
    /\ uxCriticalNesting \in 0 .. MaxCritical

StateListsAreExclusive ==
    /\ \A p \in Priority :
        /\ NoDuplicates(pxReadyTasksLists[p])
        /\ xListEnd \in Elements(pxReadyTasksLists[p])
        /\ \A t \in Task \cap Elements(pxReadyTasksLists[p]) :
               uxPriority[t] = p /\ ~Delayed(t)
    /\ NoDuplicates(pxDelayedTaskList) /\ NoDuplicates(pxOverflowDelayedTaskList)
    /\ Elements(pxDelayedTaskList) \cap Elements(pxOverflowDelayedTaskList) = {}

WaitingTasks(e) == Elements(xEventLists[e])

EventListsAreExclusive ==
    /\ \A e \in EventList : NoDuplicates(xEventLists[e])
    /\ NoDuplicates(xPendingReadyList)
    /\ \A e, f \in EventList : e # f => WaitingTasks(e) \cap WaitingTasks(f) = {}
    /\ \A e \in EventList : WaitingTasks(e) \cap Elements(xPendingReadyList) = {}
    /\ \A t \in Elements(xPendingReadyList) : Delayed(t)
    /\ \A e \in EventList : \A t \in WaitingTasks(e) : Delayed(t)
    /\ xPendingReadyList # << >> => uxSchedulerSuspended > 0 \/ section.at = "pending"

(* Every xStateListItem is in one list: the ready list of its task's        *)
(* priority, with the end marker, or one of the two delayed lists.  Every   *)
(* xEventListItem is in at most one event list or in the pending list, and  *)
(* only a delayed task waits.  So uxListRemove in xTaskIncrementTick,       *)
(* xTaskRemoveFromEventList and xTaskResumeAll finds what it expects.       *)
ListsAreExclusive == StateListsAreExclusive /\ EventListsAreExclusive

(* Nobody oversleeps: what is left in the delayed list is due later than    *)
(* now, what is in the overflow list is due after the count has wrapped,    *)
(* and so the delayed list is empty when taskSWITCH_DELAYED_LISTS swaps the *)
(* two, as its assertion says.                                              *)
InTickLoop == section.at \in {"tick", "resumeTick"}

WakeTimesAreAhead ==
    /\ InOrder(pxDelayedTaskList, xStateItemValue)
    /\ InOrder(pxOverflowDelayedTaskList, xStateItemValue)
    /\ \A t \in Elements(pxDelayedTaskList) :
           \/ xStateItemValue[t] > xTickCount
           \/ InTickLoop /\ xStateItemValue[t] = xTickCount
    /\ \A t \in Elements(pxOverflowDelayedTaskList) : xStateItemValue[t] < xTickCount

(* xNextTaskUnblockTime, which spares xTaskIncrementTick the look at the    *)
(* list, is never later than the first wake time.                           *)
UnblockTimeIsNotLate == xNextTaskUnblockTime <= HeadWakeTime(pxDelayedTaskList)

(* taskSELECT_HIGHEST_PRIORITY_TASK starts high enough and always finds a   *)
(* task: the idle task never blocks.                                        *)
SelectionFindsHighest ==
    /\ \A p \in Priority : NonEmpty(p) => p <= uxTopReadyPriority
    /\ xSchedulerRunning => Ready(IdleTask)

(* Inheritance only raises, and ends with the last mutex.                   *)
PrioritiesComeBack ==
    \A t \in Task : /\ uxBasePriority[t] <= uxPriority[t]
                    /\ uxMutexesHeld[t] = 0 => uxPriority[t] = uxBasePriority[t]

(* Who runs: before the start nobody waits; from then on there is a current *)
(* task, and a loop of the tick or of xTaskResumeAll runs only when the     *)
(* scheduler is not suspended.                                              *)
SectionsAreInStep ==
    /\ xSchedulerRunning => pxCurrentTCB \in Task
    /\ ~xSchedulerRunning => /\ uxSchedulerSuspended = 0
                             /\ pxDelayedTaskList = << >>
                             /\ pxOverflowDelayedTaskList = << >>
    /\ section.at # "none" => xSchedulerRunning /\ uxSchedulerSuspended = 0
    /\ section.at = "resumeTick" => section.left > 0

(* Together they are preserved by every step.                               *)
KernelInv ==
    /\ TypeOK
    /\ SectionsAreInStep
    /\ ListsAreExclusive
    /\ WakeTimesAreAhead
    /\ UnblockTimeIsNotLate
    /\ SelectionFindsHighest
    /\ PrioritiesComeBack

(* Preemption: when no switch is on its way, no ready task has a higher     *)
(* priority than the current one.                                           *)
NoSwitchOnItsWay ==
    /\ InterruptsOn /\ uxSchedulerSuspended = 0
    /\ ~xYieldPending /\ ~PENDING_SOFT_SV

HighestPriorityRuns ==
    NoSwitchOnItsWay /\ ~MustYield =>
        \A t \in Task : Ready(t) => uxPriority[t] <= uxPriority[pxCurrentTCB]

(* What vTaskPlaceOnEventList relies on outside a critical section: while   *)
(* the scheduler is suspended, nothing but the current task itself switches *)
(* tasks, counts ticks or moves a task between the state lists.             *)
SuspensionHoldsStill ==
    [][uxSchedulerSuspended > 0 /\ uxSchedulerSuspended' > 0 =>
          /\ UNCHANGED <<pxCurrentTCB, xTickCount>>
          /\ \A t \in Task \ {pxCurrentTCB} :
                 Created(t) => Ready(t)' = Ready(t)]_vars
===============================================================================
