-------------------------------- MODULE MCQueue --------------------------------
(* Instances of Queue: who calls what.                                      *)
EXTENDS Queue

CONSTANTS low, high, third, q1, q2

MCEventList == QueueHandle \X {"send", "receive"}
Length1 == [q \in QueueHandle |-> 1]

(* low is at the idle priority, the others above it.                        *)
TwoLevels == [t \in Task |-> IF t \in {IdleTask, low} THEN 0 ELSE 1]
ThreeLevels == [t \in Task |-> IF t = IdleTask THEN 0 ELSE IF t = high THEN 2 ELSE 1]
Staircase ==
    [t \in Task |-> IF t = low THEN 1 ELSE IF t = third THEN 2 ELSE IF t = high THEN 3 ELSE 0]

CallsOf(ofLow, ofHigh, ofThird) ==
    [t \in Task |-> IF t = low THEN ofLow ELSE IF t = high THEN ofHigh
                    ELSE IF t = third THEN ofThird ELSE {}]

(* A sender and a receiver, both of which block; handlers do both.          *)
Transfer == CallsOf({<<"send", q1, 2>>}, {<<"receive", q1, 2>>}, {})
BothHandlers == {"send", "receive"} \X {q1}

(* A reader that blocks and retries, a writer that does not block, and that *)
(* yields, resets the queue and takes a recursive mutex as it likes.        *)
Yields == <<"yield", NULL, 0>>
TakesRecursively(n) == {<<"takeRecursive", q2, n>>, <<"giveRecursive", q2, 0>>}
Polling ==
    CallsOf({<<"send", q1, 0>>, <<"reset", q1, 0>>, Yields} \cup TakesRecursively(0),
            {<<"receive", q1, 2>>}, {})

(* A reader alone.                                                          *)
OneReader == CallsOf({}, {<<"receive", q1, 2>>}, {})

(* Two tasks that read and write one queue in every way there is.           *)
Sharing == CallsOf({<<"receive", q1, 1>>, <<"overwrite", q1, 0>>},
                   {<<"peek", q1, 1>>, <<"send", q1, 1>>, <<"reset", q1, 0>>}, {})
SendingHandler == {<<"send", q1>>}

(* A mutex that tasks take, and a queue that only a handler sends to:       *)
(* waiting for a message there is how a task sleeps.                        *)
Takes(m, n) == {<<"take", m, n>>, <<"send", m, 0>>}
Sleeps == {<<"receive", q2, 1>>}
NoHandler == {}
MutexAndSleep == CallsOf(Takes(q1, 0), Takes(q1, 1) \cup Sleeps, Takes(q1, 2) \cup Sleeps)
WakingHandler == {<<"send", q2>>}

(* Two tasks and a recursive mutex.                                         *)
RecursiveMutex == CallsOf(TakesRecursively(0), TakesRecursively(1) \cup {<<"receive", q1, 1>>}, {})

(* Tasks that only compute.                                                 *)
NoCalls == CallsOf({}, {}, {})
AllEqual == [t \in Task |-> IF t = IdleTask THEN 0 ELSE 1]

(* A task waits for a message with a mutex in its hands, another waits for  *)
(* the message before it, a third one for the mutex.                        *)
WaitWithMutex ==
    CallsOf({<<"receive", q2, 2>>}, {<<"take", q1, 1>>} \cup Sleeps,
            {<<"receive", q2, 2>>, <<"take", q1, 0>>})

(* One mutex, a holder that yields, a waiter of its own priority, and one   *)
(* of a higher priority that gives up.                                      *)
GiveWithWaiter ==
    CallsOf(Takes(q1, 0) \cup {Yields}, {<<"take", q1, 1>>} \cup Sleeps,
            {<<"take", q1, 3>>})

(* The wake time of a task that is not delayed is never read, so states     *)
(* that differ only in such times are taken for one.                        *)
LiveState ==
    <<[t \in Task |-> IF Delayed(t) THEN xStateItemValue[t] ELSE 0],
      pxCurrentTCB, readyVars, pxDelayedTaskList, pxOverflowDelayedTaskList,
      xNextTaskUnblockTime, eventVars, tickVars, prioVars, switchVars,
      xSchedulerRunning, uxSchedulerSuspended, section, uxCriticalNesting, queueVars>>
===============================================================================
