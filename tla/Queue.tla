--------------------------------- MODULE Queue ---------------------------------
(***************************************************************************)
(* The queues, semaphores and mutexes of os/queue.c, called by tasks and by *)
(* interrupt handlers, on top of the scheduler of Kernel.                   *)
(*                                                                         *)
(* A task inside a call has a frame: the place in the call and its local    *)
(* variables.  One step is one critical section, one call of the scheduler  *)
(* or one iteration of a loop in a critical section.  What a queue stores   *)
(* is the business of QueueStorage; here a queue is the number of its       *)
(* messages, its lock counts and its two event lists.                       *)
(***************************************************************************)
EXTENDS Kernel

CONSTANTS
    QueueHandle,
    uxLength,           \* [QueueHandle -> length]
    Mutex, Recursive,   \* the queues of type queueQUEUE_IS_MUTEX; those taken recursively
    TaskPriority,       \* [Task -> the priority it is created with]
    Program,            \* [Task -> the calls it makes: <<function, queue, ticks>>]
    Handler,            \* the ...FromISR calls handlers make: <<function, queue>>
    MaxLocked,          \* bound: calls from handlers while a queue is locked
    MaxRecursive        \* bound: uxRecursiveCallCount

ASSUME QueueAssumption ==
    /\ EventList = QueueHandle \X {"send", "receive"}
    /\ uxLength \in [QueueHandle -> Nat \ {0}]
    /\ Recursive \subseteq Mutex /\ Mutex \subseteq QueueHandle
    /\ \A q \in Mutex : uxLength[q] = 1
    /\ TaskPriority \in [Task -> 0 .. configMAX_PRIORITIES]
    /\ TaskPriority[IdleTask] = 0
    /\ {MaxLocked, MaxRecursive} \subseteq Nat

(* What semaphore.h asks of the callers: a recursive mutex is only taken    *)
(* and given recursively, another mutex is only taken and given, and        *)
(* handlers stay away from both.  prvIdleTask calls nothing.                *)
ASSUME ProgramAssumption ==
    /\ IsFiniteSet(Task) /\ IsFiniteSet(QueueHandle) /\ NULL \notin QueueHandle
    /\ \A t \in Task : Program[t] \subseteq
          {<<"yield", NULL, 0>>}
          \cup {"takeRecursive", "giveRecursive"} \X Recursive \X TickType
          \cup {"take", "send"} \X (Mutex \ Recursive) \X TickType
          \cup {"send", "overwrite", "receive", "peek", "take", "reset"}
               \X (QueueHandle \ Mutex) \X TickType
    /\ Program[IdleTask] = {}
    /\ Handler \subseteq {"send", "receive"} \X (QueueHandle \ Mutex)

VARIABLES
    uxMessagesWaiting, cRxLock, cTxLock,    \* of every queue
    xMutexHolder, uxRecursiveCallCount,     \* of every mutex
    frame                                   \* of every task

lockVars == <<cRxLock, cTxLock>>
mutexVars == <<xMutexHolder, uxRecursiveCallCount>>
queueVars == <<uxMessagesWaiting, lockVars, mutexVars, frame>>

queueUNLOCKED == -1
queueLOCKED_UNMODIFIED == 0

xTasksWaitingToSend(q) == <<q, "send">>
xTasksWaitingToReceive(q) == <<q, "receive">>
-----------------------------------------------------------------------------
(* A task outside the calls below, and one at the start of a call.          *)
(* xOverflowed stands for xOverflowCount # xNumOfOverflows; due is history: *)
(* the ticks the call may still wait, or LongAgo when it did not run while  *)
(* the count wrapped twice, 2^32 ticks, which the code cannot tell.         *)
LongAgo == -1

AppFrame ==
    [pc |-> "app", fn |-> "none", q |-> NULL, xTicksToWait |-> 0,
     xEntryTimeSet |-> FALSE, xTimeOnEntering |-> 0, xOverflowed |-> FALSE,
     xInheritanceOccurred |-> FALSE, xYieldRequired |-> FALSE, outcome |-> "none",
     cLock |-> 0, due |-> 0]

NewFrame(fn, q, n) ==
    [AppFrame EXCEPT !.pc = "try", !.fn = fn, !.q = q, !.xTicksToWait = n]

Self == frame[pxCurrentTCB]
At(pc) == TaskRuns /\ Self.pc = pc
Becomes(f) == frame' = [frame EXCEPT ![pxCurrentTCB] = f]
Goto(pc) == Becomes([Self EXCEPT !.pc = pc])

Unmasked == UNCHANGED uxCriticalNesting
EnterCritical ==
    /\ uxCriticalNesting < MaxCritical
    /\ uxCriticalNesting' = uxCriticalNesting + 1
ExitCritical == uxCriticalNesting' = uxCriticalNesting - 1

Sends(fn) == fn \in {"send", "overwrite"}

(* Can the call proceed: the tests at the top of the loops of               *)
(* xQueueGenericSend, xQueueReceive, xQueueSemaphoreTake and xQueuePeek.    *)
Available(fn, q) ==
    IF Sends(fn) THEN fn = "overwrite" \/ uxMessagesWaiting[q] < uxLength[q]
    ELSE uxMessagesWaiting[q] > 0

(* The list a call waits in, and the one whose first task it wakes.         *)
WaitList(fn, q) ==
    IF Sends(fn) THEN xTasksWaitingToSend(q) ELSE xTasksWaitingToReceive(q)
WakeList(fn, q) ==
    IF fn \in {"receive", "take", "takeRecursive", "reset"}
    THEN xTasksWaitingToSend(q) ELSE xTasksWaitingToReceive(q)
-----------------------------------------------------------------------------
QInit ==
    /\ Init
    /\ uxMessagesWaiting = [q \in QueueHandle |-> IF q \in Mutex THEN 1 ELSE 0]
    /\ cRxLock = [q \in QueueHandle |-> queueUNLOCKED]
    /\ cTxLock = [q \in QueueHandle |-> queueUNLOCKED]
    /\ xMutexHolder = [q \in Mutex |-> NULL]
    /\ uxRecursiveCallCount = [q \in Mutex |-> 0]
    /\ frame = [t \in Task |-> AppFrame]

(* A task calls a function of queue.c.  A mutex is given by its holder, and *)
(* a mutex that is not recursive is not taken again by its holder.          *)
Call(fn, q, n) ==
    /\ At("app")
    /\ <<fn, q, n>> \in Program[pxCurrentTCB]
    /\ fn \in {"send", "overwrite", "receive", "peek", "take"}
    /\ q \in Mutex => fn = IF xMutexHolder[q] = pxCurrentTCB THEN "send" ELSE "take"
    /\ Becomes(NewFrame(fn, q, n))
    /\ UNCHANGED <<kernelVars, uxMessagesWaiting, lockVars, mutexVars>>
    /\ Unmasked

(* xQueueTakeMutexRecursive and xQueueGiveMutexRecursive, up to the call of *)
(* xQueueSemaphoreTake or xQueueGenericSend, or without one.                *)
xQueueTakeMutexRecursive(q, n) ==
    /\ At("app")
    /\ <<"takeRecursive", q, n>> \in Program[pxCurrentTCB]
    /\ IF xMutexHolder[q] = pxCurrentTCB
       THEN /\ uxRecursiveCallCount[q] < MaxRecursive
            /\ uxRecursiveCallCount' = [uxRecursiveCallCount EXCEPT ![q] = @ + 1]
            /\ UNCHANGED frame
       ELSE /\ Becomes(NewFrame("takeRecursive", q, n))
            /\ UNCHANGED uxRecursiveCallCount
    /\ UNCHANGED <<kernelVars, uxMessagesWaiting, lockVars, xMutexHolder>>
    /\ Unmasked

xQueueGiveMutexRecursive(q) ==
    /\ At("app")
    /\ <<"giveRecursive", q, 0>> \in Program[pxCurrentTCB]
    /\ xMutexHolder[q] = pxCurrentTCB
    /\ uxRecursiveCallCount' = [uxRecursiveCallCount EXCEPT ![q] = @ - 1]
    /\ IF uxRecursiveCallCount[q] = 1 THEN Becomes(NewFrame("send", q, 0))
       ELSE UNCHANGED frame
    /\ UNCHANGED <<kernelVars, uxMessagesWaiting, lockVars, xMutexHolder>>
    /\ Unmasked

(* taskYIELD from a task.                                                   *)
AppYield ==
    /\ At("app")
    /\ <<"yield", NULL, 0>> \in Program[pxCurrentTCB]
    /\ portYIELD
    /\ UNCHANGED queueVars
    /\ Unmasked
-----------------------------------------------------------------------------
(* prvCopyDataToQueue gives a mutex back, xQueueSemaphoreTake takes it.     *)
HolderIsKept(fn) == pxCurrentTCB    \* mutant

NewHolder(fn) == IF Sends(fn) THEN NULL ELSE pxCurrentTCB

(* The critical section at the top of a call's loop, up to the copy.  A     *)
(* give takes the inherited priority away, a take counts the mutex.         *)
Commit ==
    LET q == Self.q  fn == Self.fn
    IN /\ At("try")
       /\ Available(fn, q)
       /\ uxMessagesWaiting' = [uxMessagesWaiting EXCEPT ![q] =
              IF fn = "peek" \/ (fn = "overwrite" /\ @ > 0) THEN @
              ELSE IF Sends(fn) THEN @ + 1 ELSE @ - 1]
       /\ IF q \in Mutex
          THEN /\ IF Sends(fn) THEN xTaskPriorityDisinherit
                  ELSE pvTaskIncrementMutexHeldCount
               /\ xMutexHolder' = [xMutexHolder EXCEPT ![q] = NewHolder(fn)]
          ELSE UNCHANGED <<kernelVars, xMutexHolder>>
       /\ Becomes([Self EXCEPT !.pc = "notify",
                      !.xYieldRequired = q \in Mutex /\ Sends(fn) /\ xYieldRequired])
       /\ EnterCritical
       /\ UNCHANGED <<lockVars, uxRecursiveCallCount>>

(* xQueueGenericReset of a queue in use: it empties the queue, then wakes   *)
(* one task that waits to send.                                             *)
EmptyQueue(q) ==
    /\ At("app")
    /\ <<"reset", q, 0>> \in Program[pxCurrentTCB]
    /\ uxMessagesWaiting' = [uxMessagesWaiting EXCEPT ![q] = 0]
    /\ cRxLock' = [cRxLock EXCEPT ![q] = queueUNLOCKED]
    /\ cTxLock' = [cTxLock EXCEPT ![q] = queueUNLOCKED]
    /\ UNCHANGED <<kernelVars, mutexVars>>

xQueueGenericReset(q) ==
    /\ EmptyQueue(q)
    /\ Becomes([NewFrame("reset", q, 0) EXCEPT !.pc = "notify"])
    /\ EnterCritical

(* The rest of that section: wake one task of the other side, or yield if   *)
(* giving the mutex back asked for it and nobody waits; the call succeeds.  *)
Notify ==
    LET e == WakeList(Self.fn, Self.q)
    IN /\ At("notify")
       /\ IF xEventLists[e] # << >> THEN xTaskRemoveFromEventList(e, TRUE)
          ELSE IF Self.xYieldRequired THEN portYIELD
          ELSE UNCHANGED kernelVars
       /\ Becomes(IF Self.fn = "takeRecursive" THEN [Self EXCEPT !.pc = "count"]
                  ELSE AppFrame)
       /\ ExitCritical
       /\ UNCHANGED <<uxMessagesWaiting, lockVars, mutexVars>>

(* xQueueTakeMutexRecursive counts the first take.                          *)
CountFirstTake ==
    /\ At("count")
    /\ uxRecursiveCallCount' = [uxRecursiveCallCount EXCEPT ![Self.q] = @ + 1]
    /\ Becomes(AppFrame)
    /\ UNCHANGED <<kernelVars, uxMessagesWaiting, lockVars, xMutexHolder>>
    /\ Unmasked

(* The other branch of that section: give up at once, or wait, counting     *)
(* from the first time round (vTaskInternalSetTimeOutState).                *)
NotAvailable ==
    /\ At("try")
    /\ ~Available(Self.fn, Self.q)
    /\ Becomes(IF Self.xTicksToWait = 0 THEN AppFrame
               ELSE IF Self.xEntryTimeSet THEN [Self EXCEPT !.pc = "suspend"]
               ELSE [Self EXCEPT !.pc = "suspend", !.xEntryTimeSet = TRUE,
                                 !.xTimeOnEntering = xTickCount,
                                 !.due = Self.xTicksToWait])
    /\ UNCHANGED <<kernelVars, uxMessagesWaiting, lockVars, mutexVars>>
    /\ Unmasked
-----------------------------------------------------------------------------
Suspend ==
    /\ At("suspend")
    /\ vTaskSuspendAll
    /\ Goto("lock")
    /\ UNCHANGED <<uxMessagesWaiting, lockVars, mutexVars>>
    /\ Unmasked

prvLockQueue ==
    LET Locked(c) == IF c = queueUNLOCKED THEN queueLOCKED_UNMODIFIED ELSE c
    IN /\ At("lock")
       /\ cRxLock' = [cRxLock EXCEPT ![Self.q] = Locked(@)]
       /\ cTxLock' = [cTxLock EXCEPT ![Self.q] = Locked(@)]
       /\ Goto("check")
       /\ UNCHANGED <<kernelVars, uxMessagesWaiting, mutexVars>>
       /\ Unmasked

(* xTaskCheckForTimeOut, with the subtraction modulo the tick width.        *)
xElapsedTime == (xTickCount - Self.xTimeOnEntering) % TickMod

TimedOut == [Self EXCEPT !.pc = "unlockTx", !.outcome = "timeout"]

(* Mutants: the entry time, or the time that is left, is not brought up to  *)
(* date; a wait of no ticks is left.                                        *)
CountFromEntry ==
    [Self EXCEPT !.pc = "test", !.xTicksToWait = @ - xElapsedTime, !.xOverflowed = FALSE]
WaitInFullAgain ==
    [Self EXCEPT !.pc = "test", !.xTimeOnEntering = xTickCount, !.xOverflowed = FALSE]

StillWaits ==
    [Self EXCEPT !.pc = "test", !.xTicksToWait = @ - xElapsedTime,
                 !.xTimeOnEntering = xTickCount, !.xOverflowed = FALSE]

WaitNotOver == xElapsedTime <= Self.xTicksToWait    \* mutant

TimeIsLeft == xElapsedTime < Self.xTicksToWait

xTaskCheckForTimeOut ==
    /\ At("check")
    /\ Becomes(IF Self.xOverflowed /\ xTickCount >= Self.xTimeOnEntering THEN TimedOut
               ELSE IF TimeIsLeft THEN StillWaits
               ELSE [TimedOut EXCEPT !.xTicksToWait = 0])
    /\ UNCHANGED <<kernelVars, uxMessagesWaiting, lockVars, mutexVars>>
    /\ Unmasked

(* prvIsQueueFull or prvIsQueueEmpty: is there still a reason to block?     *)
prvIsQueueFull(q) == uxMessagesWaiting[q] = uxLength[q]
prvIsQueueEmpty(q) == uxMessagesWaiting[q] = 0

Test ==
    /\ At("test")
    /\ Becomes(IF ~(IF Sends(Self.fn) THEN prvIsQueueFull(Self.q) ELSE prvIsQueueEmpty(Self.q))
               THEN [Self EXCEPT !.pc = "unlockTx", !.outcome = "retry"]
               ELSE IF Self.q \in Mutex THEN [Self EXCEPT !.pc = "inherit"]
               ELSE [Self EXCEPT !.pc = "place"])
    /\ UNCHANGED <<kernelVars, uxMessagesWaiting, lockVars, mutexVars>>
    /\ Unmasked

Inherit ==
    LET holder == xMutexHolder[Self.q]
    IN /\ At("inherit")
       /\ xTaskPriorityInherit(holder)
       /\ Becomes([Self EXCEPT !.pc = "place",
                     !.xInheritanceOccurred = xInheritanceOccurred(holder)])
       /\ UNCHANGED <<uxMessagesWaiting, lockVars, mutexVars>>
       /\ Unmasked

Place ==
    /\ At("place")
    /\ vTaskPlaceOnEventList(WaitList(Self.fn, Self.q), Self.xTicksToWait)
    /\ Becomes([Self EXCEPT !.pc = "unlockTx", !.outcome = "block"])
    /\ UNCHANGED <<uxMessagesWaiting, lockVars, mutexVars>>
    /\ Unmasked

(* prvUnlockQueue: one task is woken for every message that handlers sent,  *)
(* then for every one they received, while tasks wait.                      *)
UnlockTxUncounted ==    \* mutant
    /\ At("unlockTx")
    /\ Becomes([Self EXCEPT !.pc = "wakeReceivers", !.cLock = 0])
    /\ EnterCritical
    /\ UNCHANGED <<kernelVars, uxMessagesWaiting, lockVars, mutexVars>>

UnlockTx ==
    /\ At("unlockTx")
    /\ Becomes([Self EXCEPT !.pc = "wakeReceivers", !.cLock = cTxLock[Self.q]])
    /\ EnterCritical
    /\ UNCHANGED <<kernelVars, uxMessagesWaiting, lockVars, mutexVars>>

WakeReceivers ==
    LET q == Self.q  e == xTasksWaitingToReceive(q)
    IN /\ At("wakeReceivers")
       /\ IF Self.cLock > queueLOCKED_UNMODIFIED /\ xEventLists[e] # << >>
          THEN /\ xTaskRemoveFromEventList(e, FALSE)
               /\ Becomes([Self EXCEPT !.cLock = @ - 1])
               /\ Unmasked
               /\ UNCHANGED cTxLock
          ELSE /\ cTxLock' = [cTxLock EXCEPT ![q] = queueUNLOCKED]
               /\ Becomes([Self EXCEPT !.pc = "unlockRx", !.cLock = 0])
               /\ ExitCritical
               /\ UNCHANGED kernelVars
       /\ UNCHANGED <<uxMessagesWaiting, cRxLock, mutexVars>>

(* Mutants: the count of what handlers received is lost, or stays.          *)
UnlockRxUncounted ==
    /\ At("unlockRx")
    /\ Becomes([Self EXCEPT !.pc = "wakeSenders", !.cLock = 0])
    /\ EnterCritical
    /\ UNCHANGED <<kernelVars, uxMessagesWaiting, lockVars, mutexVars>>
SkipUnlockRx ==
    /\ At("unlockRx")
    /\ Goto("resume")
    /\ UNCHANGED <<kernelVars, uxMessagesWaiting, lockVars, mutexVars>>
    /\ Unmasked

UnlockRx ==
    /\ At("unlockRx")
    /\ Becomes([Self EXCEPT !.pc = "wakeSenders", !.cLock = cRxLock[Self.q]])
    /\ EnterCritical
    /\ UNCHANGED <<kernelVars, uxMessagesWaiting, lockVars, mutexVars>>

WakeSenders ==
    LET q == Self.q  e == xTasksWaitingToSend(q)
    IN /\ At("wakeSenders")
       /\ IF Self.cLock > queueLOCKED_UNMODIFIED /\ xEventLists[e] # << >>
          THEN /\ xTaskRemoveFromEventList(e, FALSE)
               /\ Becomes([Self EXCEPT !.cLock = @ - 1])
               /\ Unmasked
               /\ UNCHANGED cRxLock
          ELSE /\ cRxLock' = [cRxLock EXCEPT ![q] = queueUNLOCKED]
               /\ Becomes([Self EXCEPT !.pc = "resume", !.cLock = 0])
               /\ ExitCritical
               /\ UNCHANGED kernelVars
       /\ UNCHANGED <<uxMessagesWaiting, cTxLock, mutexVars>>

Resume ==
    /\ At("resume")
    /\ xTaskResumeAll
    /\ Goto("resuming")
    /\ UNCHANGED <<uxMessagesWaiting, lockVars, mutexVars>>
    /\ Unmasked

(* xTaskResumeAll returns; what the caller does next.                       *)
Resumed ==
    /\ ResumeEnd
    /\ Becomes(
         IF Self.outcome = "timeout"
         THEN IF Sends(Self.fn) THEN AppFrame ELSE [Self EXCEPT !.pc = "recheck"]
         ELSE [Self EXCEPT !.outcome = "none",
                 !.pc = IF Self.outcome = "block" /\ ~xAlreadyYielded
                        THEN "yield" ELSE "try"])
    /\ UNCHANGED <<uxMessagesWaiting, lockVars, mutexVars>>
    /\ Unmasked

portYIELD_WITHIN_API ==
    /\ At("yield")
    /\ portYIELD
    /\ Goto("try")
    /\ UNCHANGED <<uxMessagesWaiting, lockVars, mutexVars>>
    /\ Unmasked

(* After a timeout: prvIsQueueEmpty.  A message that came late is taken.    *)
RecheckAndForget ==    \* mutant: the priority lent is not taken back
    /\ At("recheck")
    /\ Becomes(IF ~prvIsQueueEmpty(Self.q)
               THEN [Self EXCEPT !.pc = "try", !.outcome = "none"]
               ELSE AppFrame)
    /\ UNCHANGED <<kernelVars, uxMessagesWaiting, lockVars, mutexVars>>
    /\ Unmasked

Recheck ==
    /\ At("recheck")
    /\ Becomes(IF ~prvIsQueueEmpty(Self.q)
               THEN [Self EXCEPT !.pc = "try", !.outcome = "none"]
               ELSE IF Self.xInheritanceOccurred THEN [Self EXCEPT !.pc = "disinherit"]
               ELSE AppFrame)
    /\ UNCHANGED <<kernelVars, uxMessagesWaiting, lockVars, mutexVars>>
    /\ Unmasked

(* A take that timed out takes back the priority it lent.                   *)
NobodyElseWaits(q) == 0    \* mutant

prvGetDisinheritPriorityAfterTimeout(q) ==
    LET waiting == xEventLists[xTasksWaitingToReceive(q)]
    IN IF waiting = << >> THEN 0
       ELSE configMAX_PRIORITIES - EventItemValue[waiting[1]]

Disinherit ==
    /\ At("disinherit")
    /\ vTaskPriorityDisinheritAfterTimeout(
           xMutexHolder[Self.q], prvGetDisinheritPriorityAfterTimeout(Self.q))
    /\ Becomes(AppFrame)
    /\ UNCHANGED <<uxMessagesWaiting, lockVars, mutexVars>>
    /\ Unmasked
-----------------------------------------------------------------------------
(* The calls of interrupt handlers.  A locked queue only counts the call;   *)
(* otherwise a task is woken, and the handler may ask for a switch.         *)
FromISR(q, lock, lock2, e) ==
    /\ IF lock[q] # queueUNLOCKED
       THEN /\ lock[q] < MaxLocked
            /\ lock' = [lock EXCEPT ![q] = @ + 1]
            /\ UNCHANGED kernelVars
       ELSE /\ UNCHANGED lock
            /\ IF xEventLists[e] # << >>
               THEN \E yields \in BOOLEAN : xTaskRemoveFromEventList(e, yields)
               ELSE UNCHANGED kernelVars
    /\ UNCHANGED <<lock2, mutexVars, frame>>
    /\ Unmasked

(* xQueueGenericSendFromISR, and xQueueGiveFromISR of a semaphore.          *)
xQueueGenericSendFromISR(q) ==
    /\ InterruptsOn
    /\ <<"send", q>> \in Handler
    /\ uxMessagesWaiting[q] < uxLength[q]
    /\ uxMessagesWaiting' = [uxMessagesWaiting EXCEPT ![q] = @ + 1]
    /\ FromISR(q, cTxLock, cRxLock, xTasksWaitingToReceive(q))

xQueueReceiveFromISR(q) ==
    /\ InterruptsOn
    /\ <<"receive", q>> \in Handler
    /\ uxMessagesWaiting[q] > 0
    /\ uxMessagesWaiting' = [uxMessagesWaiting EXCEPT ![q] = @ - 1]
    /\ FromISR(q, cRxLock, cTxLock, xTasksWaitingToSend(q))
-----------------------------------------------------------------------------
(* main: the tasks, then the scheduler, which creates the idle task.        *)
Boot ==
    /\ ~xSchedulerRunning
    /\ \/ \E t \in Task \ {IdleTask} : xTaskCreate(t, TaskPriority[t])
       \/ /\ \A t \in Task \ {IdleTask} : Created(t)
          /\ xTaskCreate(IdleTask, 0)
       \/ vTaskStartScheduler
    /\ UNCHANGED queueVars
    /\ Unmasked

(* A tick that is counted: calls have waited one tick longer, and           *)
(* xNumOfOverflows moves on when the count wraps.                           *)
Waited(f) ==
    IF ~f.xEntryTimeSet THEN f
    ELSE [f EXCEPT !.due = IF f.xOverflowed /\ xTickCount' = 0 THEN LongAgo
                           ELSE IF @ > 0 THEN @ - 1 ELSE @,
                   !.xOverflowed = @ \/ xTickCount' = 0]

Tick ==
    /\ xPortSysTickHandle \/ ResumeTick
    /\ frame' = IF xTickCount' = xTickCount THEN frame
                ELSE [t \in Task |-> Waited(frame[t])]
    /\ UNCHANGED <<uxMessagesWaiting, lockVars, mutexVars>>
    /\ Unmasked

Switch ==
    /\ SV_ISR
    /\ UNCHANGED queueVars
    /\ Unmasked

Unblock ==
    /\ \/ TickUnblock \/ TickReturn \/ ResumeTickReturn
       \/ ResumePending \/ ResumePendingDone
    /\ UNCHANGED queueVars
    /\ Unmasked

(* The loop that xQueueGenericSend, xQueueReceive, xQueuePeek and           *)
(* xQueueSemaphoreTake share: the critical section, then the wait.          *)
TryStep == Commit \/ Notify \/ CountFirstTake \/ NotAvailable
prvUnlockQueue == UnlockTx \/ WakeReceivers \/ UnlockRx \/ WakeSenders
WaitStep ==
    \/ Suspend \/ prvLockQueue \/ xTaskCheckForTimeOut \/ Test \/ Inherit \/ Place
    \/ prvUnlockQueue \/ Resume \/ portYIELD_WITHIN_API \/ Recheck \/ Disinherit
CallStep == TryStep \/ WaitStep

AppStep ==
    \/ \E t \in Task : \E c \in Program[t] : Call(c[1], c[2], c[3])
    \/ \E q \in Recursive :
          \/ \E n \in TickType : xQueueTakeMutexRecursive(q, n)
          \/ xQueueGiveMutexRecursive(q)
    \/ AppYield
    \/ \E q \in QueueHandle : xQueueGenericReset(q)

HandlerStep ==
    \E q \in QueueHandle : xQueueGenericSendFromISR(q) \/ xQueueReceiveFromISR(q)

QNext ==
    \/ Boot \/ AppStep \/ CallStep \/ HandlerStep
    \/ Tick \/ Switch \/ Unblock \/ Resumed

qvars == <<vars, queueVars>>

QSpec == QInit /\ [][QNext]_qvars

(* A critical section or a handler goes on to its end.  Interrupts leave    *)
(* the processor time to go on with the current task's call, and one that   *)
(* is requested stays so until it is taken.  Nothing obliges a task to call *)
(* or a handler to be invoked.                                              *)
FairSpec ==
    /\ QSpec
    /\ WF_qvars(Boot) /\ WF_qvars(Unblock \/ Resumed)
    /\ SF_qvars(CallStep) /\ SF_qvars(Tick) /\ SF_qvars(Switch)
-----------------------------------------------------------------------------
(* No wake-up is lost.  While a task waits to receive, there are at most as *)
(* many messages as tasks on their way to one, notifications that a locked  *)
(* queue owes (cTxLock), and senders about to notify; the same for senders  *)
(* and free places.  A handler may send between a task's look at the queue  *)
(* and its move to the event list, or while it times out.                   *)
OnItsWay(t, q, waits) ==
    /\ frame[t].q = q
    /\ t \notin WaitingTasks(waits)
    /\ \/ /\ frame[t].fn # "reset" /\ WaitList(frame[t].fn, q) = waits
          /\ frame[t].pc \notin {"notify", "count", "inherit", "place", "disinherit"}
       \/ frame[t].pc = "notify" /\ WakeList(frame[t].fn, q) = waits

Owed(q, pc, lock) ==
    LET owed == IF Self.q = q /\ Self.pc = pc THEN Self.cLock ELSE lock[q]
    IN IF owed > 0 THEN owed ELSE 0

ReceiversAreNotForgotten ==
    \A q \in QueueHandle :
        LET e == xTasksWaitingToReceive(q)
        IN xEventLists[e] # << >> =>
             uxMessagesWaiting[q] <=
                 Owed(q, "wakeReceivers", cTxLock)
                 + Cardinality({t \in Task : OnItsWay(t, q, e)})

SendersAreNotForgotten ==
    \A q \in QueueHandle :
        LET e == xTasksWaitingToSend(q)
        IN xEventLists[e] # << >> =>
             uxLength[q] - uxMessagesWaiting[q] <=
                 Owed(q, "wakeSenders", cRxLock)
                 + Cardinality({t \in Task : OnItsWay(t, q, e)})

(* A call times out only after the ticks it was given have passed, however  *)
(* often it was woken and blocked again and wherever the tick count wrapped.*)
NoEarlyTimeout ==
    \A t \in Task : frame[t].outcome = "timeout" => frame[t].due <= 0

(* A blocked task is woken when its ticks have passed and no later.         *)
DeadlineIsKept ==
    \A t \in Task :
        Delayed(t) /\ ~InTickLoop /\ frame[t].due # LongAgo =>
            (xStateItemValue[t] - xTickCount) % TickMod = frame[t].due

(* A queue is locked only while the scheduler is suspended, so the unlock   *)
(* of one task never cancels the lock of another.                           *)
LocksAreShort ==
    \A q \in QueueHandle :
        cRxLock[q] # queueUNLOCKED \/ cTxLock[q] # queueUNLOCKED =>
            uxSchedulerSuspended > 0 /\ Self.q = q

(* A mutex is taken exactly while it has a holder, and a task counts the    *)
(* mutexes it holds: that is what decides when it loses what it inherited.  *)
(* A recursive mutex is counted while it is held, but for the two moments   *)
(* before the first count and before the last give.                         *)
MutexesAreCounted ==
    /\ \A q \in Mutex : uxMessagesWaiting[q] = 0 <=> xMutexHolder[q] # NULL
    /\ \A t \in Task :
          uxMutexesHeld[t] = Cardinality({q \in Mutex : xMutexHolder[q] = t})
    /\ \A q \in Recursive :
          (uxRecursiveCallCount[q] > 0) =
              /\ xMutexHolder[q] # NULL
              /\ LET f == frame[xMutexHolder[q]]
                 IN ~(f.q = q /\ f.fn \in {"takeRecursive", "send"})

(* Priority inheritance: the holder of a mutex has at least the priority of *)
(* every task that waits for it, also after one of them gave up.  The code  *)
(* does not pass on what a waiter that holds a mutex itself inherits later. *)
HolderOutranksWaiters ==
    \A q \in Mutex : xMutexHolder[q] # NULL =>
        \A t \in WaitingTasks(xTasksWaitingToReceive(q)) :
            uxMutexesHeld[t] = 0 => uxPriority[t] <= uxPriority[xMutexHolder[q]]

(* What a task inherited, somebody still waits with: a holder above its     *)
(* base priority has a task of that priority or a higher one in a call for  *)
(* one of its mutexes, however takes time out and gives overlap.            *)
NoPriorityIsLeftOver ==
    \A h \in Task : uxPriority[h] > uxBasePriority[h] =>
        \E q \in Mutex, t \in Task \ {h} :
            /\ xMutexHolder[q] = h
            /\ frame[t].q = q /\ uxPriority[t] >= uxPriority[h]

(* task.c of vTaskPlaceOnEventList: "This is placed in the list in priority *)
(* order so the highest priority task is the first to be woken by the       *)
(* event."  The order does not survive an inheritance.                      *)
HighestWaiterIsFirst ==
    \A e \in EventList : \A t \in WaitingTasks(e) :
        uxPriority[t] <= uxPriority[xEventLists[e][1]]

(* task.c of xTaskIncrementTick: "Tasks of equal priority to the currently  *)
(* running task will share processing time (time slice) if preemption is    *)
(* on, and the application writer has not explicitly turned time slicing    *)
(* off."                                                                    *)
EqualPrioritiesShare ==
    \A t \in Task :
        xSchedulerRunning /\ Ready(t) /\ uxPriority[t] = uxPriority[pxCurrentTCB]
            ~> pxCurrentTCB = t \/ ~Ready(t)

(* What queue.c and its callers do is what Kernel allows its callers.       *)
ImplementsKernel == Spec

(* The call of a task with a priority of its own above all others returns,  *)
(* even if handlers fill and empty the queue for ever while it retries: a   *)
(* retry keeps the remaining time, and nothing starves the task.  A call    *)
(* that did not run for two wraps of the count is left aside.               *)
TopTaskReturns ==
    \A t \in Task :
        (\A u \in Task \ {t} : TaskPriority[u] < TaskPriority[t]) =>
            (frame[t].pc # "app" ~> frame[t].pc = "app" \/ frame[t].due = LongAgo)

(* Every task that blocks becomes ready again: each wait has a timeout, the *)
(* tick is counted in the end and no list forgets a task.                   *)
EveryWaitEnds == \A t \in Task : Delayed(t) ~> ~Delayed(t)
===============================================================================
