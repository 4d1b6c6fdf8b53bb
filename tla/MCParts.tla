-------------------------------- MODULE MCParts --------------------------------
(***************************************************************************)
(* Model checking of the parts that do not share state: the lists, the      *)
(* message store (of two lengths, because xQueueOverwrite is for queues of  *)
(* length one), and the receive side of a TCP connection.  A behaviour is a *)
(* behaviour of one of them, chosen at the start; the others keep their     *)
(* initial state.                                                           *)
(***************************************************************************)
EXTENDS LinkedList, QueueStorage, TcpReceive

VARIABLES part, store1, pvBuffer1

One == INSTANCE QueueStorage WITH Length <- 1, store <- store1, pvBuffer <- pvBuffer1

stores == <<storeVars, store1, pvBuffer1>>

PartsInit ==
    /\ part \in {"list", "store", "tcp"}
    /\ Init
    /\ StoreInit /\ One!StoreInit
    /\ RxInit /\ (part # "tcp" => api = "lwip_recv")

PartsNext ==
    \/ part = "list" /\ Next /\ UNCHANGED <<part, stores, rxVars>>
    \/ /\ part = "store"
       /\ \/ StoreNext /\ UNCHANGED <<store1, pvBuffer1>>
          \/ One!StoreNext /\ UNCHANGED storeVars
       /\ UNCHANGED <<part, vars, rxVars>>
    \/ part = "tcp" /\ RxNext /\ UNCHANGED <<part, vars, stores>>

(* The fairness of FairSpec and of RxFair, each for its own part.           *)
PartsSpec ==
    /\ PartsInit
    /\ [][PartsNext]_<<part, vars, stores, rxVars>>
    /\ WF_vars(part = "list" /\ (vListInsertLoop \/ vListInsertLink))
    /\ WF_rxVars(part = "tcp" /\ ReadStep)
    /\ SF_rxVars(part = "tcp" /\ Reads)
-----------------------------------------------------------------------------
(* The search loop of vListInsert ends: the marker's key stops it.          *)
SearchEnds == search # NULL ~> search = NULL

(* The store of one slot, where head, tail and both pointers meet and       *)
(* prvCopyDataToQueue overwrites, implements the promised queue too.        *)
OneSlotImplementsFifo == One!ImplementsFifo
===============================================================================
