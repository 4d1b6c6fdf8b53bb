------------------------------ MODULE ByteStream ------------------------------
(***************************************************************************)
(* What receiving on a TCP connection promises an application: the bytes of *)
(* the peer, in order, each once, and then how the connection ended.        *)
(* Bytes are named by their place in the stream, from 0.                    *)
(***************************************************************************)
EXTENDS Integers

CONSTANT NoData

VARIABLES
    sent,       \* how many bytes have arrived
    finished,   \* the peer has closed its side
    broken,     \* the connection is gone
    taken,      \* how many bytes the application has taken
    seen,       \* how many had arrived when the last call began
    ret         \* what the last call returned: [kind, data]

streamVars == <<sent, finished, broken, taken, seen, ret>>

StreamInit ==
    /\ sent = 0 /\ taken = 0 /\ seen = 0
    /\ finished = FALSE /\ broken = FALSE
    /\ ret = [kind |-> "none", data |-> NoData]

Arrive ==
    /\ ~finished /\ ~broken
    /\ sent' \in Nat /\ sent' > sent
    /\ UNCHANGED <<finished, broken, taken, seen, ret>>

Finish ==
    /\ ~finished /\ ~broken
    /\ finished' = TRUE
    /\ UNCHANGED <<sent, broken, taken, seen, ret>>

Break ==
    /\ ~broken
    /\ broken' = TRUE
    /\ UNCHANGED <<sent, finished, taken, seen, ret>>

(* A call that has not returned yet has no result.                          *)
Begin ==
    /\ ret' = [kind |-> "none", data |-> NoData]
    /\ seen' = sent
    /\ UNCHANGED <<sent, finished, broken, taken>>

(* The next n bytes, which a peek leaves to be taken again.                 *)
Give(n, peek) ==
    /\ ret' = [kind |-> "data", data |-> [i \in 0 .. n - 1 |-> taken + i]]
    /\ taken' = IF peek THEN taken ELSE taken + n
    /\ UNCHANGED <<sent, finished, broken, seen>>

(* Nothing yet; or no more bytes, for a reason.  Bytes that had arrived when *)
(* the call began come first; those that arrive in it may be overtaken by   *)
(* the news that the connection is gone, and are there for the next call.   *)
GiveNothing(kind) ==
    /\ taken >= seen
    /\ \/ kind = "again"
       \/ kind = "eof" /\ finished /\ taken = sent
       \/ kind = "fail" /\ broken
    /\ ret' = [kind |-> kind, data |-> NoData]
    /\ UNCHANGED <<sent, finished, broken, taken, seen>>

StreamNext ==
    \/ Arrive
    \/ Finish
    \/ Break
    \/ Begin
    \/ \E n \in 0 .. sent - taken, peek \in BOOLEAN : Give(n, peek)
    \/ \E kind \in {"again", "eof", "fail"} : GiveNothing(kind)

StreamSpec == StreamInit /\ [][StreamNext]_streamVars
===============================================================================
