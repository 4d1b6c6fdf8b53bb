---------------------------- MODULE MCQueueTransfer ----------------------------
(* Instances of Queue in which tasks run one of three programs: a transfer  *)
(* between two tasks, two tasks that use one queue in every way there is,   *)
(* or two tasks with a recursive mutex.                                     *)
EXTENDS MCQueue

VARIABLE program

Transferring == INSTANCE Queue WITH Program <- Transfer, Handler <- BothHandlers,
                                     MaxLocked <- 2, MaxPendedTicks <- 1
Sharers == INSTANCE Queue WITH Program <- Sharing, Handler <- SendingHandler

TransferInit == program \in {"transfer", "sharing", "recursive"} /\ QInit

TransferNext ==
    \/ program = "transfer" /\ Transferring!QNext /\ UNCHANGED program
    \/ program = "sharing" /\ Sharers!QNext /\ UNCHANGED program
    \/ program = "recursive" /\ QNext /\ UNCHANGED program

TransferSpec == TransferInit /\ [][TransferNext]_<<qvars, program>>

LiveProgramState == <<program, LiveState>>
===============================================================================
