------------------------------ MODULE TcpReceive ------------------------------
(***************************************************************************)
(* Receiving on a TCP connection: lwip_recv_tcp of lwip/sockets.c on top of *)
(* netconn_recv_data_tcp and netconn_recv_data of lwip/api.c, or            *)
(* netconn_recv alone.                                                      *)
(*                                                                         *)
(* One task reads; beside it the TCP/IP thread, which is not part of the    *)
(* repository, posts packets, the end of the stream or an abort to recvmbox. *)
(* A step of the reader is one access to what both share: the mailbox, the  *)
(* flags and pending_err of the connection, or a message to that thread.    *)
(* A packet is the part of the stream it holds, from and upto; Pbuf says    *)
(* how a chain of pbufs is one.                                             *)
(***************************************************************************)
EXTENDS Integers, Sequences

CONSTANTS
    MaxBytes,       \* bound: the length of the stream
    RecvMboxSize,   \* DEFAULT_TCP_RECVMBOX_SIZE
    TcpWnd,         \* TCP_WND: how many bytes the peer may be ahead
    MaxLen,         \* bound: the largest len of a call
    NoPbuf

(* A packet, and a message to the reader.                                   *)
Pbufs == [from : Nat, upto : Nat]
Messages == [kind : {"data", "fin", "err"}, from : Nat, upto : Nat]

ASSUME ReceiveAssumption ==
    /\ MaxBytes \in Nat /\ RecvMboxSize \in Nat \ {0} /\ TcpWnd \in Nat
    /\ MaxLen \in Nat \ {0}
    /\ NoPbuf \notin Pbufs \cup Messages

VARIABLES
    posted, fin, pcb,       \* the TCP/IP thread: bytes and FIN posted; is there a pcb
    acked,                  \* what tcp_recved gave back to the window
    recvmbox,               \* the messages: [kind, from, upto]
    pending_err, MBOXCLOSED, FIN_RX_PENDING,   \* of struct netconn
    lastdata,               \* of struct lwip_sock
    api,                    \* how the application reads: "lwip_recv" or "netconn_recv"
    at, peek, apiflags, recvd, recv_left, mem, msg, err,    \* the call in progress
    taken, seen, ret        \* history: bytes taken, bytes there at the call, its result

connVars == <<posted, fin, pcb, acked, recvmbox, pending_err, MBOXCLOSED>>
callVars == <<peek, apiflags, recvd, recv_left, mem>>
rxVars == <<connVars, FIN_RX_PENDING, lastdata, api, at, callVars, msg, err, taken, seen, ret>>

Part(a, b) == [from |-> a, upto |-> b]
NoResult == [kind |-> "none", data |-> NoPbuf]

RxInit ==
    /\ posted = 0 /\ acked = 0 /\ taken = 0 /\ seen = 0
    /\ fin = FALSE /\ pcb = TRUE
    /\ recvmbox = << >>
    /\ pending_err = "OK" /\ MBOXCLOSED = FALSE /\ FIN_RX_PENDING = FALSE
    /\ lastdata = NoPbuf
    /\ api \in {"lwip_recv", "netconn_recv"}
    /\ at = "app" /\ peek = FALSE /\ apiflags = {}
    /\ recvd = 0 /\ recv_left = 0
    /\ mem = [i \in 0 .. MaxLen - 1 |-> 0]
    /\ msg = NoPbuf /\ err = "OK"
    /\ ret = NoResult
-----------------------------------------------------------------------------
(* The TCP/IP thread.  A packet or the FIN that finds the mailbox full is   *)
(* offered again later; an error does not wait.                             *)
Room == Len(recvmbox) < RecvMboxSize
Post(kind, n) ==
    recvmbox' = Append(recvmbox, [kind |-> kind, from |-> posted, upto |-> posted + n])

recv_tcp(n) ==
    /\ pcb /\ ~fin /\ Room
    /\ posted + n <= MaxBytes /\ posted + n - acked <= TcpWnd
    /\ Post("data", n)
    /\ posted' = posted + n
    /\ UNCHANGED <<fin, pcb, acked, pending_err, MBOXCLOSED, FIN_RX_PENDING, lastdata,
                   api, at, callVars, msg, err, taken, seen, ret>>

recv_fin ==
    /\ pcb /\ ~fin /\ Room
    /\ Post("fin", 0)
    /\ fin' = TRUE
    /\ UNCHANGED <<posted, pcb, acked, pending_err, MBOXCLOSED, FIN_RX_PENDING, lastdata,
                   api, at, callVars, msg, err, taken, seen, ret>>

err_tcp ==
    /\ pcb
    /\ pcb' = FALSE
    /\ pending_err' = "ABRT"
    /\ MBOXCLOSED' = TRUE
    /\ IF Room THEN Post("err", 0) ELSE UNCHANGED recvmbox
    /\ UNCHANGED <<posted, fin, acked, FIN_RX_PENDING, lastdata,
                   api, at, callVars, msg, err, taken, seen, ret>>

(* lwip_netconn_do_recv: tcp_recved, when there still is a pcb.             *)
tcp_recved(n) == acked' = IF pcb THEN acked + n ELSE acked
-----------------------------------------------------------------------------
Goto(l) == at' = l
Fail(e) == Goto("error") /\ err' = e

(* A call returns.                                                          *)
Return(result) ==
    /\ ret' = result
    /\ Goto("app")
    /\ peek' = FALSE /\ apiflags' = {}
    /\ recvd' = 0 /\ recv_left' = 0
    /\ err' = "OK"

(* The application calls lwip_recv or netconn_recv, again and again until   *)
(* it is told that the stream has ended.                                    *)
Call(len, peeks, flags) ==
    /\ at = "app" /\ ret.kind # "eof"
    /\ api = "netconn_recv" => len = 0 /\ ~peeks /\ flags = {}
    /\ recv_left' = len
    /\ peek' = peeks
    /\ apiflags' = flags
    /\ ret' = NoResult
    /\ seen' = posted
    /\ Goto("top")
    /\ UNCHANGED <<connVars, FIN_RX_PENDING, lastdata, api, recvd, mem, msg, err, taken>>

(* The top of the loop of lwip_recv_tcp, and the first tests of             *)
(* netconn_recv_data_tcp: what the last call left, or a FIN that an earlier *)
(* one set aside, or a message from the mailbox.                            *)
lwip_recv_tcp ==
    /\ at = "top"
    /\ FIN_RX_PENDING' = (FIN_RX_PENDING /\ lastdata # NoPbuf)
    /\ Goto(IF lastdata # NoPbuf THEN "copy"
            ELSE IF FIN_RX_PENDING THEN "fin" ELSE "recv")
    /\ UNCHANGED <<connVars, lastdata, api, callVars, msg, err, taken, seen, ret>>

(* netconn_recv_data: the test whether to wait, then tryfetch or fetch.     *)
netconn_recv_data ==
    /\ at = "recv"
    /\ Goto(IF "DONTBLOCK" \in apiflags \/ MBOXCLOSED \/ pending_err # "OK"
            THEN "tryfetch" ELSE "fetch")
    /\ UNCHANGED <<connVars, FIN_RX_PENDING, lastdata, api, callVars, msg, err, taken, seen, ret>>

fetch ==
    /\ at \in {"tryfetch", "fetch"} /\ recvmbox # << >>
    /\ msg' = Head(recvmbox)
    /\ recvmbox' = Tail(recvmbox)
    /\ Goto("fetched")
    /\ UNCHANGED <<posted, fin, pcb, acked, pending_err, MBOXCLOSED, FIN_RX_PENDING,
                   lastdata, api, callVars, err, taken, seen, ret>>

fetch_timeout ==
    /\ at = "fetch" /\ recvmbox = << >>
    /\ Fail("TIMEOUT")
    /\ UNCHANGED <<connVars, FIN_RX_PENDING, lastdata, api, callVars, msg, taken, seen, ret>>

tryfetch_empty ==
    /\ at = "tryfetch" /\ recvmbox = << >>
    /\ Goto("empty")
    /\ UNCHANGED <<connVars, FIN_RX_PENDING, lastdata, api, callVars, msg, err, taken, seen, ret>>

(* netconn_err, which forgets the error it returns; both callers have an    *)
(* answer of their own when there is none.                                  *)
netconn_err ==
    /\ at \in {"empty", "finerr"}
    /\ pending_err' = "OK"
    /\ \/ pending_err # "OK" /\ Fail(pending_err)
       \/ pending_err = "OK" /\ at = "finerr" /\ Fail("RST")
       \/ pending_err = "OK" /\ at = "empty" /\ Goto("closed") /\ UNCHANGED err
    /\ UNCHANGED <<posted, fin, pcb, acked, recvmbox, MBOXCLOSED, FIN_RX_PENDING,
                   lastdata, api, callVars, msg, taken, seen, ret>>

netconn_recv_closed ==
    /\ at = "closed"
    /\ Fail(IF MBOXCLOSED THEN "CONN" ELSE "WOULDBLOCK")
    /\ UNCHANGED <<connVars, FIN_RX_PENDING, lastdata, api, callVars, msg, taken, seen, ret>>

(* What netconn_recv_data_tcp makes of a message.  netconn_recv updates the *)
(* window at once (there is no NETCONN_NOAUTORCVD) and returns the packet   *)
(* in a netbuf; lwip_recv_tcp keeps it in lastdata.  With NETCONN_NOFIN a   *)
(* FIN is set aside for the next call.                                      *)
netconn_recv_data_tcp ==
    /\ at = "fetched"
    /\ msg' = NoPbuf
    /\ \/ /\ msg.kind = "err"
          /\ Fail("ABRT")
          /\ UNCHANGED <<FIN_RX_PENDING, acked, lastdata, callVars, taken, seen, ret>>
       \/ /\ msg.kind = "fin" /\ "NOFIN" \in apiflags
          /\ FIN_RX_PENDING' = TRUE
          /\ Fail("WOULDBLOCK")
          /\ UNCHANGED <<acked, lastdata, callVars, taken, seen, ret>>
       \/ /\ msg.kind = "fin" /\ "NOFIN" \notin apiflags
          /\ IF api = "netconn_recv" THEN tcp_recved(1) ELSE UNCHANGED acked
          /\ Goto("fin")
          /\ UNCHANGED <<FIN_RX_PENDING, lastdata, callVars, err, taken, seen, ret>>
       \/ /\ msg.kind = "data" /\ api = "lwip_recv"
          /\ lastdata' = Part(msg.from, msg.upto)
          /\ Goto("copy")
          /\ UNCHANGED <<FIN_RX_PENDING, acked, callVars, err, taken, seen, ret>>
       \/ /\ msg.kind = "data" /\ api = "netconn_recv"
          /\ tcp_recved(msg.upto - msg.from)
          /\ Return([kind |-> "data",
                     data |-> [i \in 0 .. msg.upto - msg.from - 1 |-> msg.from + i]])
          /\ taken' = taken + (msg.upto - msg.from)
          /\ UNCHANGED <<FIN_RX_PENDING, lastdata, mem, seen>>
    /\ UNCHANGED <<posted, fin, pcb, recvmbox, pending_err, MBOXCLOSED, api>>

(* handle_fin: netconn_close_shutdown(conn, NETCONN_SHUT_RD), unless the    *)
(* connection is gone already.                                              *)
handle_fin ==
    /\ at = "fin"
    /\ IF pcb THEN Fail("CLSD") ELSE Goto("finerr") /\ UNCHANGED err
    /\ UNCHANGED <<connVars, FIN_RX_PENDING, lastdata, api, callVars, msg, taken, seen, ret>>
-----------------------------------------------------------------------------
(* Mutants: a FIN is not set aside once there is data; the last byte of a   *)
(* packet is dropped.                                                       *)
FlagsWithoutNofin(flags) == flags \cup {"DONTBLOCK"}

RestButOne(n) ==
    IF lastdata.upto - lastdata.from - n > 1
    THEN Part(lastdata.from + n, lastdata.upto) ELSE NoPbuf

(* "Once we have some data to return, only add more if we don't need to     *)
(* wait."                                                                   *)
FlagsWithData(flags) == flags \cup {"DONTBLOCK", "NOFIN"}

(* lwip_recv_tcp has a packet: what fits is copied to mem behind what the   *)
(* call has already, and a read hides it from the next one.                 *)
CopyLen == IF recv_left > lastdata.upto - lastdata.from
           THEN lastdata.upto - lastdata.from ELSE recv_left

RestOfLastdata(n) ==
    IF lastdata.upto - lastdata.from - n > 0
    THEN Part(lastdata.from + n, lastdata.upto) ELSE NoPbuf

lwip_recv_tcp_copy ==
    LET copylen == CopyLen
    IN  /\ at = "copy"
        /\ mem' = [i \in 0 .. MaxLen - 1 |->
                      IF recvd <= i /\ i < recvd + copylen
                      THEN lastdata.from + (i - recvd) ELSE mem[i]]
        /\ recvd' = recvd + copylen
        /\ recv_left' = recv_left - copylen
        /\ lastdata' = IF peek THEN lastdata ELSE RestOfLastdata(copylen)
        /\ apiflags' = FlagsWithData(apiflags)
        /\ Goto(IF recv_left - copylen > 0 /\ ~peek THEN "top" ELSE "done")
        /\ UNCHANGED <<connVars, FIN_RX_PENDING, api, peek, msg, err, taken, seen, ret>>

(* An error is returned only when there is no data to return.               *)
Outcome(e) ==
    IF e = "CLSD" THEN "eof" ELSE IF e \in {"TIMEOUT", "WOULDBLOCK"} THEN "again" ELSE "fail"

ErrorWithoutUpdate ==    \* mutant: data beside an error is returned at once
    /\ at = "error"
    /\ IF recvd > 0
       THEN /\ Return([kind |-> "data", data |-> [i \in 0 .. recvd - 1 |-> mem[i]]])
            /\ taken' = taken + recvd
       ELSE Return([kind |-> Outcome(err), data |-> NoPbuf]) /\ UNCHANGED taken
    /\ UNCHANGED <<connVars, FIN_RX_PENDING, lastdata, api, mem, msg, seen>>

lwip_recv_tcp_error ==
    /\ at = "error"
    /\ IF recvd > 0
       THEN Goto("done") /\ err' = "OK" /\ UNCHANGED <<callVars, ret>>
       ELSE Return([kind |-> Outcome(err), data |-> NoPbuf]) /\ UNCHANGED mem
    /\ UNCHANGED <<connVars, FIN_RX_PENDING, lastdata, api, msg, taken, seen>>

(* lwip_recv_tcp_done: the window update, then the return.                  *)
lwip_recv_tcp_done ==
    /\ at = "done"
    /\ IF peek THEN UNCHANGED <<acked, taken>>
               ELSE tcp_recved(recvd) /\ taken' = taken + recvd
    /\ Return([kind |-> "data", data |-> [i \in 0 .. recvd - 1 |-> mem[i]]])
    /\ UNCHANGED <<posted, fin, pcb, recvmbox, pending_err, MBOXCLOSED, FIN_RX_PENDING,
                   lastdata, api, mem, msg, seen>>

(* The application has read to the end.                                     *)
Finished == at = "app" /\ ret.kind = "eof" /\ UNCHANGED rxVars
-----------------------------------------------------------------------------
ReadStep ==
    \/ lwip_recv_tcp
    \/ netconn_recv_data
    \/ fetch
    \/ tryfetch_empty
    \/ netconn_err
    \/ netconn_recv_closed
    \/ netconn_recv_data_tcp
    \/ handle_fin
    \/ lwip_recv_tcp_copy
    \/ lwip_recv_tcp_error
    \/ lwip_recv_tcp_done

Calls ==
    \E len \in 0 .. MaxLen, peeks \in BOOLEAN, flags \in SUBSET {"DONTBLOCK"} :
        Call(len, peeks, flags)

CoreStep == (\E n \in 1 .. MaxBytes : recv_tcp(n)) \/ recv_fin \/ err_tcp

RxNext == ReadStep \/ fetch_timeout \/ Calls \/ CoreStep \/ Finished

RxSpec == RxInit /\ [][RxNext]_rxVars

(* A call goes on while it can, and the application goes on reading: again  *)
(* and again it asks for bytes and not only for a look at them.             *)
Reads ==
    \E len \in 0 .. MaxLen, flags \in SUBSET {"DONTBLOCK"} :
        (api = "lwip_recv" => len > 0) /\ Call(len, FALSE, flags)

RxFair == WF_rxVars(ReadStep) /\ SF_rxVars(Reads)
-----------------------------------------------------------------------------
At == {"app", "top", "recv", "tryfetch", "fetch", "fetched", "empty", "closed",
       "fin", "finerr", "copy", "error", "done"}

RxTypeOK ==
    /\ posted \in Nat /\ acked \in Nat /\ taken \in Nat /\ seen \in Nat
    /\ fin \in BOOLEAN /\ pcb \in BOOLEAN
    /\ recvmbox \in Seq(Messages)
    /\ pending_err \in {"OK", "ABRT"}
    /\ MBOXCLOSED \in BOOLEAN /\ FIN_RX_PENDING \in BOOLEAN
    /\ lastdata \in Pbufs \cup {NoPbuf}
    /\ api \in {"lwip_recv", "netconn_recv"}
    /\ at \in At /\ peek \in BOOLEAN /\ apiflags \in SUBSET {"DONTBLOCK", "NOFIN"}
    /\ recvd \in 0 .. MaxLen /\ recv_left \in 0 .. MaxLen
    /\ recvd + recv_left <= MaxLen
    /\ mem \in [0 .. MaxLen - 1 -> Nat]
    /\ msg \in Messages \cup {NoPbuf}
    /\ err \in {"OK", "TIMEOUT", "WOULDBLOCK", "ABRT", "CONN", "RST", "CLSD"}

(* The place in the stream of the next byte the application has not got,    *)
(* and of the first one that is still in the mailbox.                       *)
NextByte == IF peek THEN taken ELSE taken + recvd
NextPost ==
    IF msg # NoPbuf THEN msg.upto
    ELSE IF lastdata # NoPbuf THEN lastdata.upto ELSE NextByte

(* The packet in hand, and the messages in the mailbox, are the rest of the *)
(* stream without gap or overlap; what is not data comes last.              *)
PacketsAreTheStream ==
    /\ lastdata # NoPbuf => lastdata.from = NextByte /\ lastdata.from < lastdata.upto
    /\ msg # NoPbuf => msg.from = NextByte /\ lastdata = NoPbuf
    /\ recvmbox = << >> => NextPost = posted
    /\ recvmbox # << >> => /\ recvmbox[1].from = NextPost
                           /\ recvmbox[Len(recvmbox)].upto = posted
    /\ \A i \in 1 .. Len(recvmbox) - 1 : recvmbox[i].upto = recvmbox[i + 1].from

IsTrue(m) ==
    /\ m.kind = "data" => m.from < m.upto /\ m.upto <= posted
    /\ m.kind # "data" => m.from = posted /\ m.upto = posted
    /\ m.kind = "fin" => fin
    /\ m.kind = "err" => ~pcb

MessagesAreTrue ==
    /\ \A i \in 1 .. Len(recvmbox) : IsTrue(recvmbox[i])
    /\ msg # NoPbuf => IsTrue(msg)

(* The bytes in mem are the next ones of the stream.                        *)
BytesAreInOrder ==
    /\ taken + recvd <= posted
    /\ \A i \in 0 .. recvd - 1 : mem[i] = taken + i

(* A FIN that was set aside, or is being handled, is the end of the stream, *)
(* and no call handles it that has bytes to return.                         *)
FinIsLast ==
    /\ FIN_RX_PENDING => at \in {"app", "top", "error", "done"} /\ lastdata = NoPbuf
    /\ FIN_RX_PENDING \/ at \in {"fin", "finerr"} \/ err = "CLSD" => fin /\ NextByte = posted
    /\ at \in {"fin", "finerr"} \/ err = "CLSD" \/ (FIN_RX_PENDING /\ at = "top") => recvd = 0
    /\ recvd > 0 /\ at # "done" => "NOFIN" \in apiflags

(* Where a call stands, and what it knows there.                            *)
CallsAreInStep ==
    /\ at = "fetched" <=> msg # NoPbuf
    /\ at = "copy" => lastdata # NoPbuf
    /\ at \in {"recv", "tryfetch", "fetch", "fetched", "empty", "closed", "fin", "finerr"}
          => lastdata = NoPbuf
    /\ at \in {"error", "done"} /\ peek = FALSE /\ recv_left > 0 => lastdata = NoPbuf
    /\ at = "app" => recvd = 0 /\ peek = FALSE
    /\ peek /\ recvd > 0 => at = "done"
    /\ at = "error" <=> err # "OK"
    /\ api = "netconn_recv" => /\ lastdata = NoPbuf /\ recvd = 0
                               /\ apiflags = {} /\ ~FIN_RX_PENDING /\ at # "done"
    /\ at # "app" => ret = NoResult
    /\ seen <= posted
    /\ at \in {"empty", "closed", "fin", "finerr", "error"} => NextByte >= seen
    /\ pending_err # "OK" \/ MBOXCLOSED \/ at = "finerr" \/ err \in {"ABRT", "CONN", "RST"}
          => ~pcb

(* What the window has got back.                                            *)
WindowInv ==
    pcb => acked = taken + IF /\ api = "netconn_recv"
                              /\ at = "fin" \/ err = "CLSD" \/ ret.kind = "eof"
                           THEN 1 ELSE 0

(* Together they are preserved by every step of the reader and of the       *)
(* TCP/IP thread.                                                           *)
RxInv ==
    /\ RxTypeOK
    /\ PacketsAreTheStream
    /\ MessagesAreTrue
    /\ BytesAreInOrder
    /\ FinIsLast
    /\ CallsAreInStep
    /\ WindowInv

Stream == INSTANCE ByteStream
            WITH NoData <- NoPbuf, sent <- posted, finished <- fin, broken <- ~pcb

(* What lwip_recv or netconn_recv returns is the stream of the peer: no     *)
(* byte is lost, repeated or out of order across packets, partial reads and *)
(* peeks; the end is told only when every byte was taken, and an error or a *)
(* timeout never before bytes that were there when the call began.          *)
ImplementsStream == Stream!StreamSpec

(* Between two calls the window has got back exactly the bytes taken, so    *)
(* that the peer can go on sending: netconn_tcp_recvd comes once for every  *)
(* byte, also when a call ends with an error, and never for a peek.  (For a *)
(* FIN, netconn_recv reports one more, which ends the stream.)              *)
WindowIsReturned ==
    at = "app" /\ pcb => acked = taken + IF api = "netconn_recv" /\ ret.kind = "eof" THEN 1 ELSE 0

(* An application that goes on reading is told when the peer has closed or  *)
(* the connection has broken, whatever of FIN_RX_PENDING, pending_err and   *)
(* the messages in recvmbox carries the news: also when the mailbox was     *)
(* full, and when a call that got bytes dropped the error it met.           *)
EndIsReported == fin \/ ~pcb ~> ret.kind \in {"eof", "fail"}
===============================================================================
