------------------------------- MODULE MCKernel -------------------------------
(***************************************************************************)
(* Model checking of Kernel, where a handler is one step, and of            *)
(* Interrupts, where handlers take many steps: a behaviour is a behaviour   *)
(* of one of the two, chosen at the start.                                  *)
(***************************************************************************)
EXTENDS Kernel, Interrupts, TLC

VARIABLE part

KernelOrInterruptInit ==
    /\ part \in {"kernel", "interrupts"}
    /\ Init
    /\ InterruptInit /\ (part = "kernel" => ccount = 0)

KernelOrInterruptNext ==
    \/ part = "kernel" /\ Next /\ UNCHANGED <<part, irqVars>>
    \/ part = "interrupts" /\ InterruptNext /\ UNCHANGED <<part, vars>>

KernelOrInterruptSpec ==
    KernelOrInterruptInit /\ [][KernelOrInterruptNext]_<<part, vars, irqVars>>

(* The tasks but the idle task are alike.                                   *)
Symmetry == Permutations(Task \ {IdleTask})

(* The wake time of a task that is not delayed is never read, so states     *)
(* that differ only in such times are taken for one.                        *)
LiveState ==
    <<[t \in Task |-> IF Delayed(t) THEN xStateItemValue[t] ELSE 0],
      pxCurrentTCB, readyVars, pxDelayedTaskList, pxOverflowDelayedTaskList,
      xNextTaskUnblockTime, eventVars, tickVars, prioVars, switchVars,
      xSchedulerRunning, uxSchedulerSuspended, section, uxCriticalNesting, part, irqVars>>
===============================================================================
