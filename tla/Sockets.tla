-------------------------------- MODULE Sockets --------------------------------
(***************************************************************************)
(* The socket table of lwip/sockets.c: descriptors that tasks open, use and *)
(* close at the same time.                                                  *)
(*                                                                         *)
(* One step is one section between sys_arch_protect and sys_arch_unprotect, *)
(* one unprotected access to a struct lwip_sock, or one half of a netconn_* *)
(* call: a task hands a netconn to the call, and the call returns.  What a  *)
(* call on a deleted netconn does is undefined; here it returns any result. *)
(***************************************************************************)
EXTENDS Integers, FiniteSets

CONSTANTS
    Task,
    NUM_SOCKETS,        \* the slots of the table are 0 .. NUM_SOCKETS - 1
    Conn, TcpConn,      \* struct netconn; those of type NETCONN_TCP
    Buf,                \* struct pbuf and struct netbuf, as received
    Program,            \* [Task -> the functions it calls]
    NULL

LWIP_SOCKET_OFFSET == 3
FILE_DESCRIPTOR_OFFSET == LWIP_SOCKET_OFFSET + NUM_SOCKETS
Slot == 0 .. NUM_SOCKETS - 1
Family == {"4", "6"}    \* IGMP and MLD memberships
Function == {"socket", "send", "sendto", "recv", "close", "setsockopt"}

ASSUME SocketAssumption ==
    /\ IsFiniteSet(Task)
    /\ NUM_SOCKETS \in Nat \ {0}
    /\ TcpConn \subseteq Conn
    /\ NULL \notin Conn \cup Buf
    /\ Program \in [Task -> SUBSET Function]

VARIABLES
    conn, fd_used, fd_free_pending, lastdata,   \* struct lwip_sock, of every slot
    known,              \* the slots whose descriptors the application may use
    memberships,        \* the registered memberships: <<slot, family>>
    open,               \* the netconns that exist
    kind,               \* of every buffer: "none", "pbuf" or "netbuf"
    pc, fn, sock, is_tcp, on, p     \* of every task: the local variables

tableVars == <<conn, fd_used, fd_free_pending, lastdata>>
taskVars == <<pc, fn, sock, is_tcp, on, p>>
vars == <<tableVars, known, memberships, open, kind, taskVars>>

LWIP_SOCK_FD_FREE_TCP == 1
LWIP_SOCK_FD_FREE_FREE == 2

(* The name of a buffer that belongs to a TCP socket, or to another.        *)
KindOf(tcp) == IF tcp THEN "pbuf" ELSE "netbuf"

Init ==
    /\ conn = [s \in Slot |-> NULL]
    /\ fd_used = [s \in Slot |-> 0]
    /\ fd_free_pending = [s \in Slot |-> 0]
    /\ lastdata = [s \in Slot |-> NULL]
    /\ known = {}
    /\ memberships = {}
    /\ open = {}
    /\ kind = [b \in Buf |-> "none"]
    /\ pc = [t \in Task |-> "app"]
    /\ fn = [t \in Task |-> "none"]
    /\ sock = [t \in Task |-> 0]
    /\ is_tcp = [t \in Task |-> FALSE]
    /\ on = [t \in Task |-> NULL]
    /\ p = [t \in Task |-> NULL]

Goto(t, l) == pc' = [pc EXCEPT ![t] = l]
Keep(x) == UNCHANGED x

(* A call returns, and its local variables are gone.                        *)
Return(t) ==
    /\ Goto(t, "app")
    /\ fn' = [fn EXCEPT ![t] = "none"]
    /\ sock' = [sock EXCEPT ![t] = 0]
    /\ is_tcp' = [is_tcp EXCEPT ![t] = FALSE]
-----------------------------------------------------------------------------
(* _read_r, _write_r and _close_r of newlib/syscalls.c: which descriptors   *)
(* are sockets, and the slot tryget_socket_unconn_nouse finds for one.      *)
IsSocket(fd) == LWIP_SOCKET_OFFSET <= fd /\ fd < FILE_DESCRIPTOR_OFFSET
SlotOf(fd) == fd - LWIP_SOCKET_OFFSET

(* A task calls a function on a descriptor, and tryget_socket_unconn counts *)
(* it as a user of the slot.  Other descriptors are files, the console or   *)
(* EBADF, and change nothing here.  The application uses a descriptor from  *)
(* the return of lwip_socket to the return of lwip_close: alloc_socket      *)
(* relies on nobody knowing one earlier.                                    *)
Call(t, f, fd) ==
    LET s == SlotOf(fd)
    IN  /\ pc[t] = "app" /\ f \in Program[t] \ {"socket"}
        /\ IsSocket(fd) /\ s \in known
        /\ fd_used' = [fd_used EXCEPT ![s] = @ + 1]
        /\ fn' = [fn EXCEPT ![t] = f]
        /\ sock' = [sock EXCEPT ![t] = s]
        /\ Goto(t, "got")
        /\ Keep(<<conn, fd_free_pending, lastdata, known, memberships, open, kind,
                  is_tcp, on, p>>)

(* lwip_send and lwip_sendto look the descriptor up again for each other.   *)
sock_inc_used(t) ==
    /\ pc[t] = "get"
    /\ fd_used' = [fd_used EXCEPT ![sock[t]] = @ + 1]
    /\ Goto(t, "got")
    /\ Keep(<<conn, fd_free_pending, lastdata, known, memberships, open, kind,
              fn, sock, is_tcp, on, p>>)

(* Where a call goes on when get_socket has found a connection: lwip_send   *)
(* and lwip_sendto leave a connection of the other type to each other.      *)
AfterGet(f, tcp) ==
    CASE f = "recv" -> "recv"
      [] f = "close" -> "get4"
      [] f = "setsockopt" -> "netconn"
      [] OTHER -> IF tcp = (f = "send") THEN "netconn" ELSE "other"

(* The second half of tryget_socket, and the test of the type that follows. *)
tryget_socket(t) ==
    LET c == conn[sock[t]]
    IN  /\ pc[t] = "got"
        /\ Goto(t, IF c = NULL THEN "done" ELSE AfterGet(fn[t], c \in TcpConn))
        /\ is_tcp' = [is_tcp EXCEPT ![t] = c \in TcpConn]
        /\ Keep(<<tableVars, known, memberships, open, kind, fn, sock, on, p>>)
-----------------------------------------------------------------------------
(* What the protected section of free_socket leaves of slot s: the last     *)
(* user takes what lastdata holds out of the slot, an earlier one only      *)
(* notes that the slot is to be freed.                                      *)
FreeFlags(tcp) == LWIP_SOCK_FD_FREE_FREE + IF tcp THEN LWIP_SOCK_FD_FREE_TCP ELSE 0

FreedAtOnce(s, uses, tcp) ==    \* mutant
    /\ fd_used' = [fd_used EXCEPT ![s] = uses - 1]
    /\ conn' = [conn EXCEPT ![s] = NULL]
    /\ lastdata' = [lastdata EXCEPT ![s] = NULL]
    /\ UNCHANGED fd_free_pending

FreeSlot(s, uses, tcp) ==
    /\ fd_used' = [fd_used EXCEPT ![s] = uses - 1]
    /\ IF uses > 1
       THEN /\ fd_free_pending' = [fd_free_pending EXCEPT ![s] = FreeFlags(tcp)]
            /\ UNCHANGED <<conn, lastdata>>
       ELSE /\ conn' = [conn EXCEPT ![s] = NULL]
            /\ lastdata' = [lastdata EXCEPT ![s] = NULL]
            /\ UNCHANGED fd_free_pending

(* pbuf_free or netbuf_delete of buffer b, which may be NULL.               *)
Release(b) == kind' = [x \in Buf |-> IF x = b THEN "none" ELSE kind[x]]

(* free_socket, called by lwip_close: the buffer is freed after the section. *)
free_socket(t) ==
    LET s == sock[t]
    IN  /\ pc[t] = "free"
        /\ FreeSlot(s, fd_used[s], is_tcp[t])
        /\ p' = [p EXCEPT ![t] = IF fd_used[s] > 1 THEN NULL ELSE lastdata[s]]
        /\ Goto(t, "freed")
        /\ Keep(<<known, memberships, open, kind, fn, sock, is_tcp, on>>)

free_socket_lastdata(t) ==
    /\ pc[t] = "freed"
    /\ Release(p[t])
    /\ p' = [p EXCEPT ![t] = NULL]
    /\ known' = known \ {sock[t]}
    /\ Return(t)
    /\ Keep(<<tableVars, memberships, open, on>>)

(* done_socket_locked: the last user frees a slot that waits for it, buffer *)
(* and all, in the same protected section.                                  *)
DoneSlot(s) ==
    IF fd_used[s] = 1 /\ fd_free_pending[s] # 0
    THEN /\ FreeSlot(s, 1, fd_free_pending[s] % 2 = 1)
         /\ Release(lastdata[s])
    ELSE /\ fd_used' = [fd_used EXCEPT ![s] = @ - 1]
         /\ UNCHANGED <<conn, fd_free_pending, lastdata, kind>>

(* done_socket at the end of a call, and before lwip_send and lwip_sendto   *)
(* look the descriptor up again for each other.                             *)
done_socket(t) ==
    /\ pc[t] = "done"
    /\ DoneSlot(sock[t])
    /\ known' = IF fn[t] = "socket" THEN known \cup {sock[t]} ELSE known
    /\ Return(t)
    /\ Keep(<<memberships, open, on, p>>)

OtherSend(f) == IF f = "send" THEN "sendto" ELSE "send"

done_socket_other(t) ==
    /\ pc[t] = "other"
    /\ DoneSlot(sock[t])
    /\ fn' = [fn EXCEPT ![t] = OtherSend(@)]
    /\ Goto(t, "get")
    /\ Keep(<<known, memberships, open, sock, is_tcp, on, p>>)
-----------------------------------------------------------------------------
(* A netconn_* call on the connection of the socket: netconn_write_partly,  *)
(* netconn_send with the netbuf of lwip_sendto, for which there may be no   *)
(* memory, netconn_tcp_recvd, or the call of lwip_setsockopt.               *)
netconn_call(t) ==
    /\ pc[t] = "netconn"
    /\ \/ /\ fn[t] # "sendto"
          /\ Goto(t, "wait")
          /\ UNCHANGED <<kind, p>>
       \/ /\ fn[t] = "sendto"    \* netbuf_alloc
          /\ \E b \in Buf : /\ kind[b] = "none"
                            /\ kind' = [kind EXCEPT ![b] = "pbuf"]
                            /\ p' = [p EXCEPT ![t] = b]
          /\ Goto(t, "wait")
       \/ /\ fn[t] = "sendto"    \* ERR_MEM
          /\ Goto(t, "done")
          /\ UNCHANGED <<kind, p>>
    /\ on' = [on EXCEPT ![t] = conn[sock[t]]]
    /\ Keep(<<tableVars, known, memberships, open, fn, sock, is_tcp>>)

(* It returns; lwip_sendto frees its netbuf, lwip_setsockopt may have       *)
(* registered a membership.                                                 *)
netconn_return(t) ==
    /\ pc[t] = "wait"
    /\ Release(p[t])
    /\ p' = [p EXCEPT ![t] = NULL]
    /\ on' = [on EXCEPT ![t] = NULL]
    /\ \/ UNCHANGED memberships
       \/ /\ fn[t] = "setsockopt"
          /\ \E f \in Family : memberships' = memberships \cup {<<sock[t], f>>}
    /\ Goto(t, "done")
    /\ Keep(<<tableVars, known, open, fn, sock, is_tcp>>)
-----------------------------------------------------------------------------
(* lwip_recv_tcp and lwip_recvfrom_udp_raw: what the last call left, or     *)
(* something new from the netconn.                                          *)
lwip_recv(t) ==
    LET s == sock[t]
    IN  /\ pc[t] = "recv"
        /\ IF lastdata[s] # NULL
           THEN /\ p' = [p EXCEPT ![t] = lastdata[s]]
                /\ Goto(t, "copy")
                /\ UNCHANGED on
           ELSE /\ on' = [on EXCEPT ![t] = conn[s]]
                /\ Goto(t, "fetch")
                /\ UNCHANGED p
        /\ Keep(<<tableVars, known, memberships, open, kind, fn, sock, is_tcp>>)

(* netconn_recv_..._flags returns: with a buffer, which goes to lastdata,   *)
(* or with an error; a TCP call that has data already acknowledges it.      *)
lwip_recv_fetched(t) ==
    /\ pc[t] = "fetch"
    /\ on' = [on EXCEPT ![t] = NULL]
    /\ \/ \E b \in Buf :
             /\ kind[b] = "none"
             /\ kind' = [kind EXCEPT ![b] = KindOf(is_tcp[t])]
             /\ lastdata' = [lastdata EXCEPT ![sock[t]] = b]
             /\ p' = [p EXCEPT ![t] = b]
             /\ Goto(t, "copy")
       \/ /\ \/ Goto(t, "done")
             \/ is_tcp[t] /\ Goto(t, "netconn")
          /\ UNCHANGED <<kind, lastdata, p>>
    /\ Keep(<<conn, fd_used, fd_free_pending, known, memberships, open, fn, sock, is_tcp>>)

(* The data is copied.  A peek leaves the buffer, a TCP call leaves what    *)
(* there was no room for; otherwise it is freed, and a TCP call that has    *)
(* room left goes round its loop.                                           *)
KeepConsumed(t) == UNCHANGED lastdata    \* mutant: lastdata is not cleared

ClearConsumed(t) == lastdata' = [lastdata EXCEPT ![sock[t]] = NULL]

lwip_recv_copy(t) ==
    /\ pc[t] = "copy"
    /\ p' = [p EXCEPT ![t] = NULL]
    /\ \/ /\ \/ Goto(t, "done")
             \/ is_tcp[t] /\ Goto(t, "netconn")
          /\ UNCHANGED <<kind, lastdata>>
       \/ /\ ClearConsumed(t)
          /\ Release(p[t])
          /\ \/ ~is_tcp[t] /\ Goto(t, "done")
             \/ is_tcp[t] /\ \E l \in {"recv", "netconn"} : Goto(t, l)
    /\ Keep(<<conn, fd_used, fd_free_pending, known, memberships, open, fn, sock, is_tcp, on>>)
-----------------------------------------------------------------------------
(* lwip_close: both kinds of memberships are dropped, each in a function    *)
(* that gets the socket once more and is done with it again.                *)
drop_get(t, here, next) ==
    /\ pc[t] = here
    /\ fd_used' = [fd_used EXCEPT ![sock[t]] = @ + 1]
    /\ Goto(t, next)
    /\ Keep(<<conn, fd_free_pending, lastdata, known, memberships, open, kind,
              fn, sock, is_tcp, on, p>>)

DropSome(t, f, here, next) ==    \* mutant: one table is not searched
    /\ pc[t] = here
    /\ memberships' = IF f = "6" THEN memberships ELSE memberships \ {<<sock[t], f>>}
    /\ Goto(t, next)
    /\ Keep(<<tableVars, known, open, kind, fn, sock, is_tcp, on, p>>)

drop_memberships(t, f, here, next) ==
    /\ pc[t] = here
    /\ memberships' = IF conn[sock[t]] = NULL THEN memberships
                      ELSE memberships \ {<<sock[t], f>>}
    /\ Goto(t, next)
    /\ Keep(<<tableVars, known, open, kind, fn, sock, is_tcp, on, p>>)

drop_done(t, here, next) ==
    /\ pc[t] = here
    /\ DoneSlot(sock[t])
    /\ Goto(t, next)
    /\ Keep(<<known, memberships, open, fn, sock, is_tcp, on, p>>)

lwip_socket_drop_registered_memberships(t) ==
    \/ drop_get(t, "get4", "drop4")
    \/ drop_memberships(t, "4", "drop4", "done4")
    \/ drop_done(t, "done4", "get6")

lwip_socket_drop_registered_mld6_memberships(t) ==
    \/ drop_get(t, "get6", "drop6")
    \/ drop_memberships(t, "6", "drop6", "done6")
    \/ drop_done(t, "done6", "delete")

(* The rest of lwip_close: netconn_delete, which may fail, then free_socket. *)
lwip_close(t) ==
    /\ pc[t] = "delete"
    /\ on' = [on EXCEPT ![t] = conn[sock[t]]]
    /\ Goto(t, "deleting")
    /\ Keep(<<tableVars, known, memberships, open, kind, fn, sock, is_tcp, p>>)

DeleteFailsEarly(t) ==    \* mutant: lwip_close returns the error without done_socket
    /\ pc[t] = "deleting"
    /\ on' = [on EXCEPT ![t] = NULL]
    /\ \/ open' = open \ {on[t]} /\ Goto(t, "free") /\ UNCHANGED <<fn, sock, is_tcp>>
       \/ Return(t) /\ UNCHANGED open
    /\ Keep(<<tableVars, known, memberships, kind, p>>)

netconn_delete(t) ==
    /\ pc[t] = "deleting"
    /\ on' = [on EXCEPT ![t] = NULL]
    /\ \/ open' = open \ {on[t]} /\ Goto(t, "free")
       \/ Goto(t, "done") /\ UNCHANGED open
    /\ Keep(<<tableVars, known, memberships, kind, fn, sock, is_tcp, p>>)
-----------------------------------------------------------------------------
(* lwip_socket: a new netconn gets a slot from alloc_socket, which tests    *)
(* one slot after the other; it ends with done_socket.                      *)
lwip_socket(t) ==
    /\ pc[t] = "app" /\ "socket" \in Program[t]
    /\ \E c \in Conn \ open : /\ open' = open \cup {c}
                              /\ on' = [on EXCEPT ![t] = c]
    /\ fn' = [fn EXCEPT ![t] = "socket"]
    /\ sock' = [sock EXCEPT ![t] = 0]
    /\ Goto(t, "alloc")
    /\ Keep(<<tableVars, known, memberships, kind, is_tcp, p>>)

IsFree(s) == conn[s] = NULL /\ fd_used[s] = 0

alloc_socket(t) ==
    LET s == sock[t]
    IN  /\ pc[t] = "alloc"
        /\ \/ /\ IsFree(s)
              /\ conn' = [conn EXCEPT ![s] = on[t]]
              /\ fd_used' = [fd_used EXCEPT ![s] = 1]
              /\ fd_free_pending' = [fd_free_pending EXCEPT ![s] = 0]
              /\ Goto(t, "clear")
              /\ UNCHANGED <<sock, on>>
           \/ /\ ~IsFree(s)
              /\ IF s + 1 < NUM_SOCKETS
                 THEN sock' = [sock EXCEPT ![t] = s + 1] /\ Goto(t, "alloc")
                 ELSE UNCHANGED sock /\ Goto(t, "full")
              /\ UNCHANGED <<conn, fd_used, fd_free_pending, on>>
        /\ Keep(<<lastdata, known, memberships, open, kind, fn, is_tcp, p>>)

(* The part of alloc_socket behind the protected section.                   *)
alloc_socket_clear(t) ==
    /\ pc[t] = "clear"
    /\ lastdata' = [lastdata EXCEPT ![sock[t]] = NULL]
    /\ on' = [on EXCEPT ![t] = NULL]
    /\ Goto(t, "done")
    /\ Keep(<<conn, fd_used, fd_free_pending, known, memberships, open, kind,
              fn, sock, is_tcp, p>>)

(* No slot: lwip_socket deletes the netconn.                                *)
lwip_socket_full(t) ==
    /\ pc[t] = "full"
    /\ open' = open \ {on[t]}
    /\ on' = [on EXCEPT ![t] = NULL]
    /\ Return(t)
    /\ Keep(<<tableVars, known, memberships, kind, p>>)
-----------------------------------------------------------------------------
Get(t) == sock_inc_used(t) \/ tryget_socket(t)
Done(t) == done_socket(t) \/ done_socket_other(t)
Netconn(t) == netconn_call(t) \/ netconn_return(t)
Recv(t) == lwip_recv(t) \/ lwip_recv_fetched(t) \/ lwip_recv_copy(t)
Close(t) ==
    \/ lwip_socket_drop_registered_memberships(t)
    \/ lwip_socket_drop_registered_mld6_memberships(t)
    \/ lwip_close(t)
    \/ netconn_delete(t)
    \/ free_socket(t)
    \/ free_socket_lastdata(t)
Socket(t) ==
    \/ lwip_socket(t)
    \/ alloc_socket(t)
    \/ alloc_socket_clear(t)
    \/ lwip_socket_full(t)

Next ==
    \E t \in Task :
        \/ \E f \in Function, fd \in 0 .. FILE_DESCRIPTOR_OFFSET : Call(t, f, fd)
        \/ Get(t) \/ Done(t) \/ Netconn(t) \/ Recv(t) \/ Close(t) \/ Socket(t)

Spec == Init /\ [][Next]_vars
-----------------------------------------------------------------------------
Label ==
    {"app", "get", "got", "other", "done", "netconn", "wait", "recv", "fetch", "copy",
     "get4", "drop4", "done4", "get6", "drop6", "done6", "delete", "deleting",
     "free", "freed", "alloc", "clear", "full"}

(* Types of the table and of the local variables of sockets.c.              *)
SocketTypeOK ==
    /\ conn \in [Slot -> Conn \cup {NULL}]
    /\ fd_used \in [Slot -> Nat]
    /\ fd_free_pending \in [Slot -> 0 .. 3]
    /\ lastdata \in [Slot -> Buf \cup {NULL}]
    /\ known \subseteq Slot
    /\ memberships \subseteq Slot \X Family
    /\ open \subseteq Conn
    /\ kind \in [Buf -> {"none", "pbuf", "netbuf"}]
    /\ pc \in [Task -> Label]
    /\ fn \in [Task -> Function \cup {"none"}]
    /\ sock \in [Task -> Slot]
    /\ is_tcp \in [Task -> BOOLEAN]
    /\ on \in [Task -> Conn \cup {NULL}]
    /\ p \in [Task -> Buf \cup {NULL}]

(* How often a task at label l has counted itself as a user of its socket.  *)
UsesAt(l) ==
    IF l \in {"app", "get", "freed", "alloc", "full"} THEN 0
    ELSE IF l \in {"drop4", "done4", "drop6", "done6"} THEN 2 ELSE 1

Users(s) == {u \in Task \X {1, 2} : sock[u[1]] = s /\ u[2] <= UsesAt(pc[u[1]])}

(* fd_used is the number of get_socket calls that have no done_socket or    *)
(* free_socket yet, on every path of every function, error paths included:  *)
(* a count too low frees a slot in use, one too high never frees it.        *)
UsesAreCounted == \A s \in Slot : fd_used[s] = Cardinality(Users(s))

(* While a task is between get_socket and done_socket the slot keeps its    *)
(* connection: it is not freed and not given to another socket, also when   *)
(* it is closed meanwhile ("fd_used != 0 prevents a socket descriptor from  *)
(* being released (and possibly reused)").                                  *)
SlotIsKeptInCalls ==
    [][\A t \in Task :
          pc[t] \in Label \ {"app", "get", "got", "freed", "alloc", "full", "clear"}
          /\ UsesAt(pc'[t]) >= 1
          => conn'[sock[t]] = conn[sock[t]]]_vars

(* Every buffer has exactly one owner, a slot or a task: free_socket,       *)
(* done_socket, the receive functions and lwip_sendto neither lose one nor  *)
(* free one twice, and the free function fits the buffer's kind.            *)
Owners(b) ==
    {s \in Slot : lastdata[s] = b} \cup
    {t \in Task : p[t] = b /\ pc[t] # "copy"}

BuffersHaveOneOwner ==
    /\ \A b \in Buf : Cardinality(Owners(b)) = IF kind[b] = "none" THEN 0 ELSE 1
    /\ \A t \in Task : pc[t] = "freed" /\ p[t] # NULL => kind[p[t]] = KindOf(is_tcp[t])
    /\ \A s \in Slot : fd_free_pending[s] # 0 /\ lastdata[s] # NULL
           => kind[lastdata[s]] = KindOf(fd_free_pending[s] % 2 = 1)

(* A slot that alloc_socket may hand out has nothing of its former socket:  *)
(* no data and no multicast membership.                                     *)
FreeSlotsAreClean ==
    \A s \in Slot : IsFree(s) =>
        lastdata[s] = NULL /\ \A f \in Family : <<s, f>> \notin memberships

(* A netconn_* call works on a netconn that exists until it returns: what   *)
(* opt.h promises of LWIP_NETCONN_FULLDUPLEX, "reading from one thread,     *)
(* writing from a 2nd thread and closing from a 3rd thread".                *)
CallsUseOpenConns ==
    \A t \in Task : pc[t] \in {"wait", "fetch", "deleting"} => on[t] \in open
===============================================================================
