-------------------------------- MODULE MCStack --------------------------------
(***************************************************************************)
(* Model checking of two structures of the network stack that several tasks *)
(* use at the same time: the socket table and packet buffers.  They share   *)
(* no state here, so a behaviour is a behaviour of one of them, chosen at   *)
(* the start; the other keeps its initial state.                            *)
(***************************************************************************)
EXTENDS MCSockets, Pbuf, TLC

VARIABLE part

StackInit ==
    /\ part \in {"sockets", "pbuf"}
    /\ Init
    /\ PbufInit

StackNext ==
    \/ part = "sockets" /\ Next /\ UNCHANGED <<part, allVars>>
    \/ part = "pbuf" /\ PbufNext /\ UNCHANGED <<part, vars>>

StackSpec == StackInit /\ [][StackNext]_<<part, vars, allVars>>

(* Buffers, and holders of packets, are alike.                              *)
Symmetry == Permutations(Buf \cup Holder)
===============================================================================
