------------------------------- MODULE FifoQueue -------------------------------
(***************************************************************************)
(* What a queue of os/queue.c promises its callers: a bounded sequence of   *)
(* messages.  Messages leave from the front; they join at the back, at the  *)
(* front, or, in a queue of length one, in the place of the one waiting.    *)
(***************************************************************************)
EXTENDS Integers, Sequences

CONSTANTS Message, NoMessage, uxLength

VARIABLES
    contents,   \* the messages waiting, the oldest first
    buffer      \* the message last copied out to a caller

fifoVars == <<contents, buffer>>

FifoInit == contents = << >> /\ buffer = NoMessage

SendToBack(m) ==
    /\ Len(contents) < uxLength
    /\ contents' = Append(contents, m)
    /\ UNCHANGED buffer

SendToFront(m) ==
    /\ Len(contents) < uxLength
    /\ contents' = <<m>> \o contents
    /\ UNCHANGED buffer

Overwrite(m) ==
    /\ uxLength = 1
    /\ contents' = <<m>>
    /\ UNCHANGED buffer

Receive ==
    /\ contents # << >>
    /\ buffer' = Head(contents)
    /\ contents' = Tail(contents)

Peek ==
    /\ contents # << >>
    /\ buffer' = Head(contents)
    /\ UNCHANGED contents

Clear == contents' = << >> /\ UNCHANGED buffer

FifoNext ==
    \/ \E m \in Message : SendToBack(m) \/ SendToFront(m) \/ Overwrite(m)
    \/ Receive
    \/ Peek
    \/ Clear

FifoSpec == FifoInit /\ [][FifoNext]_fifoVars
===============================================================================
