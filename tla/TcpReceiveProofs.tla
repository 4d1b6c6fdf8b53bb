--------------------------- MODULE TcpReceiveProofs ---------------------------
(***************************************************************************)
(* What TcpReceive promises, proved for every length of the stream, size of *)
(* the mailbox, window and length of a call.  RxInv is inductive: one lemma *)
(* per action of the reader and of the TCP/IP thread shows that the action  *)
(* preserves it.  The window and the refinement of ByteStream follow.       *)
(***************************************************************************)
EXTENDS TcpReceive, TLAPS

(* What Len, Head, Tail and Append make of a sequence.                      *)
LEMMA EmptyFacts == ASSUME NEW S, NEW s \in Seq(S) PROVE s = << >> <=> Len(s) = 0
  OBVIOUS

LEMMA TailFacts ==
    ASSUME NEW S, NEW s \in Seq(S), s # << >>
    PROVE  /\ Head(s) = s[1] /\ s[1] \in S
           /\ Tail(s) \in Seq(S) /\ Len(s) \in Nat \ {0} /\ Len(Tail(s)) = Len(s) - 1
           /\ Tail(s) = << >> <=> Len(s) = 1
           /\ \A i \in 1 .. Len(s) - 1 : Tail(s)[i] = s[i + 1]
  <1>1. Len(s) \in Nat \ {0} /\ Head(s) = s[1] /\ s[1] \in S OBVIOUS
  <1>2. Tail(s) \in Seq(S) /\ Len(Tail(s)) = Len(s) - 1 OBVIOUS
  <1>3. Tail(s) = << >> <=> Len(Tail(s)) = 0 BY <1>2, EmptyFacts
  <1>4. \A i \in 1 .. Len(s) - 1 : Tail(s)[i] = s[i + 1] BY <1>1
  <1> QED BY <1>1, <1>2, <1>3, <1>4

LEMMA AppendFacts ==
    ASSUME NEW S, NEW s \in Seq(S), NEW m \in S
    PROVE  /\ Append(s, m) \in Seq(S) /\ Len(s) \in Nat /\ Len(Append(s, m)) = Len(s) + 1
           /\ s = << >> <=> Len(s) = 0
           /\ Append(s, m) # << >>
           /\ Append(s, m)[Len(s) + 1] = m
           /\ \A i \in 1 .. Len(s) : Append(s, m)[i] = s[i]
  OBVIOUS

USE DEF Goto, Fail, Return, Part, NoResult, connVars, callVars

(* sys_arch_mbox_fetch and sys_arch_mbox_tryfetch take the first message:   *)
(* what it holds comes next in the stream, and the rest follows it.         *)
LEMMA fetch_Inv == ASSUME RxInv, fetch PROVE RxInv'
  <1> USE DEF RxInv
  <1>1. /\ recvmbox \in Seq(Messages) /\ recvmbox # << >>
        /\ msg' = recvmbox[1] /\ msg' \in Messages /\ msg' # NoPbuf
        /\ recvmbox' \in Seq(Messages)
        /\ Len(recvmbox) \in Nat \ {0} /\ Len(recvmbox') = Len(recvmbox) - 1
        /\ recvmbox' = << >> <=> Len(recvmbox) = 1
        /\ \A i \in 1 .. Len(recvmbox) - 1 : recvmbox'[i] = recvmbox[i + 1]
        /\ at' = "fetched"
    <2>1. recvmbox \in Seq(Messages) BY DEF RxTypeOK
    <2> QED BY <2>1, TailFacts, ReceiveAssumption DEF fetch
  <1>2. UNCHANGED <<posted, fin, pcb, acked, pending_err, MBOXCLOSED, FIN_RX_PENDING,
                    lastdata, api, callVars, err, taken, seen, ret>>
        BY DEF fetch
  <1>3. lastdata = NoPbuf /\ msg = NoPbuf /\ at \in {"tryfetch", "fetch"}
        BY DEF fetch, CallsAreInStep
  <1> HIDE DEF RxInv
  <1>a. RxInv BY DEF RxInv
  <1>4. RxTypeOK' BY <1>a, <1>1, <1>2 DEF RxInv, RxTypeOK, At
  <1>5. PacketsAreTheStream'
    <2>1. /\ recvmbox[1].from = NextByte
          /\ recvmbox[Len(recvmbox)].upto = posted
          /\ \A i \in 1 .. Len(recvmbox) - 1 : recvmbox[i].upto = recvmbox[i + 1].from
          BY <1>a, <1>1, <1>3 DEF RxInv, PacketsAreTheStream, NextPost
    <2>2. NextByte' = NextByte /\ NextPost' = recvmbox[1].upto
          BY <1>1, <1>2 DEF NextByte, NextPost, callVars
    <2>3. recvmbox' = << >> => NextPost' = posted'
          BY <1>1, <1>2, <2>1, <2>2
    <2>4. recvmbox' # << >> => recvmbox'[1].from = NextPost'
      <3> SUFFICES ASSUME recvmbox' # << >> PROVE recvmbox'[1].from = NextPost'
          OBVIOUS
      <3>1. 1 \in 1 .. Len(recvmbox) - 1 BY <1>1
      <3> QED BY <3>1, <1>1, <2>1, <2>2
    <2>5. recvmbox' # << >> => recvmbox'[Len(recvmbox')].upto = posted'
      <3> SUFFICES ASSUME recvmbox' # << >> PROVE recvmbox'[Len(recvmbox')].upto = posted'
          OBVIOUS
      <3>1. Len(recvmbox') \in 1 .. Len(recvmbox) - 1 /\ Len(recvmbox') + 1 = Len(recvmbox)
            BY <1>1
      <3> QED BY <3>1, <1>1, <1>2, <2>1
    <2>6. \A i \in 1 .. Len(recvmbox') - 1 : recvmbox'[i].upto = recvmbox'[i + 1].from
      <3> TAKE i \in 1 .. Len(recvmbox') - 1
      <3>1. {i, i + 1} \subseteq 1 .. Len(recvmbox) - 1 BY <1>1
      <3> QED BY <3>1, <1>1, <2>1
    <2> QED BY <1>1, <1>2, <1>3, <2>1, <2>2, <2>3, <2>4, <2>5, <2>6
            DEF PacketsAreTheStream
  <1>6. MessagesAreTrue' BY <1>a, <1>1, <1>2 DEF RxInv, MessagesAreTrue, IsTrue
  <1>7. BytesAreInOrder' BY <1>a, <1>2 DEF RxInv, BytesAreInOrder, callVars
  <1>8. FinIsLast' BY <1>a, <1>1, <1>2, <1>3 DEF RxInv, FinIsLast, NextByte
  <1>9. CallsAreInStep' BY <1>a, <1>1, <1>2, <1>3 DEF RxInv, CallsAreInStep, NextByte
  <1>10. WindowInv' BY <1>a, <1>1, <1>2, <1>3 DEF RxInv, WindowInv
  <1> QED BY <1>4, <1>5, <1>6, <1>7, <1>8, <1>9, <1>10 DEF RxInv

(* A message put at the end of the mailbox.                                 *)
LEMMA PostFacts ==
    ASSUME NEW kind \in {"data", "fin", "err"}, NEW n \in Nat, RxTypeOK, Post(kind, n)
    PROVE  LET m == [kind |-> kind, from |-> posted, upto |-> posted + n]
           IN /\ m \in Messages /\ m # NoPbuf
              /\ recvmbox' \in Seq(Messages)
              /\ Len(recvmbox) \in Nat /\ Len(recvmbox') = Len(recvmbox) + 1
              /\ recvmbox = << >> <=> Len(recvmbox) = 0
              /\ recvmbox' # << >>
              /\ recvmbox'[Len(recvmbox) + 1] = m
              /\ \A i \in 1 .. Len(recvmbox) : recvmbox'[i] = recvmbox[i]
  <1> DEFINE m == [kind |-> kind, from |-> posted, upto |-> posted + n]
  <1>1. m \in Messages BY DEF RxTypeOK, Messages
  <1>2. recvmbox \in Seq(Messages) BY DEF RxTypeOK
  <1>3. recvmbox' = Append(recvmbox, m) BY DEF Post
  <1> HIDE DEF m
  <1>4. m # NoPbuf BY <1>1, ReceiveAssumption
  <1>5. /\ m \in Messages /\ m # NoPbuf
        /\ recvmbox' \in Seq(Messages)
        /\ Len(recvmbox) \in Nat /\ Len(recvmbox') = Len(recvmbox) + 1
        /\ recvmbox = << >> <=> Len(recvmbox) = 0
        /\ recvmbox' # << >>
        /\ recvmbox'[Len(recvmbox) + 1] = m
        /\ \A i \in 1 .. Len(recvmbox) : recvmbox'[i] = recvmbox[i]
        BY <1>1, <1>2, <1>3, <1>4, AppendFacts
  <1> QED BY <1>5 DEF m

(* A packet is posted: it starts where the stream stood.                    *)
LEMMA recv_tcp_Inv == ASSUME NEW n \in 1 .. MaxBytes, RxInv, recv_tcp(n) PROVE RxInv'
  <1> DEFINE m == [kind |-> "data", from |-> posted, upto |-> posted + n]
  <1>1. /\ m \in Messages /\ m # NoPbuf
        /\ recvmbox' \in Seq(Messages)
        /\ Len(recvmbox) \in Nat /\ Len(recvmbox') = Len(recvmbox) + 1
        /\ recvmbox = << >> <=> Len(recvmbox) = 0
        /\ recvmbox' # << >>
        /\ recvmbox'[Len(recvmbox) + 1] = m
        /\ \A i \in 1 .. Len(recvmbox) : recvmbox'[i] = recvmbox[i]
    <2>1. Post("data", n) /\ RxTypeOK /\ n \in Nat BY DEF RxInv, recv_tcp
    <2> QED BY <2>1, PostFacts
  <1>2. pcb /\ ~fin /\ posted' = posted + n BY DEF recv_tcp
  <1>3. UNCHANGED <<fin, pcb, acked, pending_err, MBOXCLOSED, FIN_RX_PENDING,
                    lastdata, api, at, callVars, msg, err, taken, seen, ret>>
        BY DEF recv_tcp
  <1>4. posted \in Nat /\ m.kind = "data" /\ m.from = posted /\ m.upto = posted + n
        BY DEF RxInv, RxTypeOK
  <1> HIDE DEF m
  <1>5. RxTypeOK' BY <1>1, <1>2, <1>3, <1>4, ReceiveAssumption DEF RxInv, RxTypeOK
  <1>6. PacketsAreTheStream'
    <2>1. NextByte' = NextByte /\ NextPost' = NextPost
          BY <1>3 DEF NextByte, NextPost, callVars
    <2>2. recvmbox'[1].from = NextPost'
          BY <1>1, <1>4, <2>1 DEF RxInv, PacketsAreTheStream
    <2>3. recvmbox'[Len(recvmbox')].upto = posted' BY <1>1, <1>2, <1>3, <1>4
    <2>4. \A i \in 1 .. Len(recvmbox') - 1 : recvmbox'[i].upto = recvmbox'[i + 1].from
      <3> TAKE i \in 1 .. Len(recvmbox') - 1
      <3>1. CASE i = Len(recvmbox)
            BY <3>1, <1>1, <1>4 DEF RxInv, PacketsAreTheStream
      <3>2. CASE i # Len(recvmbox)
            BY <3>2, <1>1 DEF RxInv, PacketsAreTheStream
      <3> QED BY <3>1, <3>2
    <2> QED BY <1>1, <1>3, <2>1, <2>2, <2>3, <2>4 DEF RxInv, PacketsAreTheStream
  <1>7. MessagesAreTrue'
    <2>1. \A x \in Messages : IsTrue(x) => IsTrue(x)'
          BY <1>2, <1>3, <1>4 DEF IsTrue, Messages
    <2>2. IsTrue(recvmbox[Len(recvmbox)])' BY <1>1, <1>2, <1>3, <1>4 DEF IsTrue
    <2>3. \A i \in 1 .. Len(recvmbox) : IsTrue(recvmbox[i])'
      <3> TAKE i \in 1 .. Len(recvmbox)
      <3>1. recvmbox[i] \in Messages /\ IsTrue(recvmbox[i])
            BY DEF RxInv, RxTypeOK, MessagesAreTrue
      <3> QED BY <1>1, <2>1, <3>1 DEF IsTrue
    <2>4. msg # NoPbuf => IsTrue(msg)'
          BY <1>3, <2>1 DEF RxInv, RxTypeOK, MessagesAreTrue, IsTrue
    <2> QED BY <1>1, <1>3, <2>2, <2>3, <2>4 DEF MessagesAreTrue
  <1>8. BytesAreInOrder'
        BY <1>2, <1>3, <1>4 DEF RxInv, RxTypeOK, BytesAreInOrder, callVars
  <1>9. FinIsLast' BY <1>2, <1>3 DEF RxInv, FinIsLast, NextByte
  <1>10. CallsAreInStep' BY <1>2, <1>3 DEF RxInv, RxTypeOK, CallsAreInStep, NextByte
  <1>11. WindowInv' BY <1>2, <1>3 DEF RxInv, WindowInv
  <1> QED BY <1>5, <1>6, <1>7, <1>8, <1>9, <1>10, <1>11 DEF RxInv

(* The FIN is posted: nothing follows it.                                   *)
LEMMA recv_fin_Inv == ASSUME RxInv, recv_fin PROVE RxInv'
  <1> DEFINE m == [kind |-> "fin", from |-> posted, upto |-> posted + 0]
  <1>1. /\ m \in Messages /\ m # NoPbuf
        /\ recvmbox' \in Seq(Messages)
        /\ Len(recvmbox) \in Nat /\ Len(recvmbox') = Len(recvmbox) + 1
        /\ recvmbox = << >> <=> Len(recvmbox) = 0
        /\ recvmbox' # << >>
        /\ recvmbox'[Len(recvmbox) + 1] = m
        /\ \A i \in 1 .. Len(recvmbox) : recvmbox'[i] = recvmbox[i]
    <2>1. Post("fin", 0) /\ RxTypeOK /\ 0 \in Nat BY DEF RxInv, recv_fin
    <2> QED BY <2>1, PostFacts
  <1>2. pcb /\ ~fin /\ fin' = TRUE BY DEF recv_fin
  <1>3. UNCHANGED <<posted, pcb, acked, pending_err, MBOXCLOSED, FIN_RX_PENDING,
                    lastdata, api, at, callVars, msg, err, taken, seen, ret>>
        BY DEF recv_fin
  <1>4. posted \in Nat /\ m.kind = "fin" /\ m.from = posted /\ m.upto = posted + 0
        BY DEF RxInv, RxTypeOK
  <1> HIDE DEF m
  <1>5. RxTypeOK' BY <1>1, <1>2, <1>3, <1>4, ReceiveAssumption DEF RxInv, RxTypeOK
  <1>6. PacketsAreTheStream'
    <2>1. NextByte' = NextByte /\ NextPost' = NextPost
          BY <1>3 DEF NextByte, NextPost, callVars
    <2>2. recvmbox'[1].from = NextPost'
          BY <1>1, <1>4, <2>1 DEF RxInv, PacketsAreTheStream
    <2>3. recvmbox'[Len(recvmbox')].upto = posted' BY <1>1, <1>2, <1>3, <1>4
    <2>4. \A i \in 1 .. Len(recvmbox') - 1 : recvmbox'[i].upto = recvmbox'[i + 1].from
      <3> TAKE i \in 1 .. Len(recvmbox') - 1
      <3>1. CASE i = Len(recvmbox)
            BY <3>1, <1>1, <1>4 DEF RxInv, PacketsAreTheStream
      <3>2. CASE i # Len(recvmbox)
            BY <3>2, <1>1 DEF RxInv, PacketsAreTheStream
      <3> QED BY <3>1, <3>2
    <2> QED BY <1>1, <1>3, <2>1, <2>2, <2>3, <2>4 DEF RxInv, PacketsAreTheStream
  <1>7. MessagesAreTrue'
    <2>1. \A x \in Messages : IsTrue(x) => IsTrue(x)'
          BY <1>2, <1>3, <1>4 DEF IsTrue, Messages
    <2>2. IsTrue(recvmbox[Len(recvmbox)])' BY <1>1, <1>2, <1>3, <1>4 DEF IsTrue
    <2>3. \A i \in 1 .. Len(recvmbox) : IsTrue(recvmbox[i])'
      <3> TAKE i \in 1 .. Len(recvmbox)
      <3>1. recvmbox[i] \in Messages /\ IsTrue(recvmbox[i])
            BY DEF RxInv, RxTypeOK, MessagesAreTrue
      <3> QED BY <1>1, <2>1, <3>1 DEF IsTrue
    <2>4. msg # NoPbuf => IsTrue(msg)'
          BY <1>3, <2>1 DEF RxInv, RxTypeOK, MessagesAreTrue, IsTrue
    <2> QED BY <1>1, <1>3, <2>2, <2>3, <2>4 DEF MessagesAreTrue
  <1>8. BytesAreInOrder'
        BY <1>2, <1>3, <1>4 DEF RxInv, RxTypeOK, BytesAreInOrder, callVars
  <1>9. FinIsLast' BY <1>2, <1>3 DEF RxInv, FinIsLast, NextByte
  <1>10. CallsAreInStep' BY <1>2, <1>3 DEF RxInv, RxTypeOK, CallsAreInStep, NextByte
  <1>11. WindowInv' BY <1>2, <1>3 DEF RxInv, WindowInv
  <1> QED BY <1>5, <1>6, <1>7, <1>8, <1>9, <1>10, <1>11 DEF RxInv

(* The connection breaks and the mailbox takes the message.                 *)
LEMMA err_tcp_Inv == ASSUME RxInv, err_tcp, Room PROVE RxInv'
  <1> DEFINE m == [kind |-> "err", from |-> posted, upto |-> posted + 0]
  <1>1. /\ m \in Messages /\ m # NoPbuf
        /\ recvmbox' \in Seq(Messages)
        /\ Len(recvmbox) \in Nat /\ Len(recvmbox') = Len(recvmbox) + 1
        /\ recvmbox = << >> <=> Len(recvmbox) = 0
        /\ recvmbox' # << >>
        /\ recvmbox'[Len(recvmbox) + 1] = m
        /\ \A i \in 1 .. Len(recvmbox) : recvmbox'[i] = recvmbox[i]
    <2>1. Post("err", 0) /\ RxTypeOK /\ 0 \in Nat BY DEF RxInv, err_tcp
    <2> QED BY <2>1, PostFacts
  <1>2. pcb /\ pcb' = FALSE /\ pending_err' = "ABRT" /\ MBOXCLOSED' = TRUE
        BY DEF err_tcp
  <1>3. UNCHANGED <<posted, fin, acked, FIN_RX_PENDING,
                    lastdata, api, at, callVars, msg, err, taken, seen, ret>>
        BY DEF err_tcp
  <1>4. posted \in Nat /\ m.kind = "err" /\ m.from = posted /\ m.upto = posted + 0
        BY DEF RxInv, RxTypeOK
  <1> HIDE DEF m
  <1>5. RxTypeOK' BY <1>1, <1>2, <1>3, <1>4, ReceiveAssumption DEF RxInv, RxTypeOK
  <1>6. PacketsAreTheStream'
    <2>1. NextByte' = NextByte /\ NextPost' = NextPost
          BY <1>3 DEF NextByte, NextPost, callVars
    <2>2. recvmbox'[1].from = NextPost'
          BY <1>1, <1>4, <2>1 DEF RxInv, PacketsAreTheStream
    <2>3. recvmbox'[Len(recvmbox')].upto = posted' BY <1>1, <1>2, <1>3, <1>4
    <2>4. \A i \in 1 .. Len(recvmbox') - 1 : recvmbox'[i].upto = recvmbox'[i + 1].from
      <3> TAKE i \in 1 .. Len(recvmbox') - 1
      <3>1. CASE i = Len(recvmbox)
            BY <3>1, <1>1, <1>4 DEF RxInv, PacketsAreTheStream
      <3>2. CASE i # Len(recvmbox)
            BY <3>2, <1>1 DEF RxInv, PacketsAreTheStream
      <3> QED BY <3>1, <3>2
    <2> QED BY <1>1, <1>3, <2>1, <2>2, <2>3, <2>4 DEF RxInv, PacketsAreTheStream
  <1>7. MessagesAreTrue'
    <2>1. \A x \in Messages : IsTrue(x) => IsTrue(x)'
          BY <1>2, <1>3, <1>4 DEF IsTrue, Messages
    <2>2. IsTrue(recvmbox[Len(recvmbox)])' BY <1>1, <1>2, <1>3, <1>4 DEF IsTrue
    <2>3. \A i \in 1 .. Len(recvmbox) : IsTrue(recvmbox[i])'
      <3> TAKE i \in 1 .. Len(recvmbox)
      <3>1. recvmbox[i] \in Messages /\ IsTrue(recvmbox[i])
            BY DEF RxInv, RxTypeOK, MessagesAreTrue
      <3> QED BY <1>1, <2>1, <3>1 DEF IsTrue
    <2>4. msg # NoPbuf => IsTrue(msg)'
          BY <1>3, <2>1 DEF RxInv, RxTypeOK, MessagesAreTrue, IsTrue
    <2> QED BY <1>1, <1>3, <2>2, <2>3, <2>4 DEF MessagesAreTrue
  <1>8. BytesAreInOrder'
        BY <1>2, <1>3, <1>4 DEF RxInv, RxTypeOK, BytesAreInOrder, callVars
  <1>9. FinIsLast' BY <1>2, <1>3 DEF RxInv, FinIsLast, NextByte
  <1>10. CallsAreInStep' BY <1>2, <1>3 DEF RxInv, RxTypeOK, CallsAreInStep, NextByte
  <1>11. WindowInv' BY <1>2, <1>3 DEF RxInv, WindowInv
  <1> QED BY <1>5, <1>6, <1>7, <1>8, <1>9, <1>10, <1>11 DEF RxInv

(* The steps that read flags and choose where to go on.                     *)
LEMMA lwip_recv_tcp_Inv == ASSUME RxInv, lwip_recv_tcp PROVE RxInv'
  <1> USE DEF lwip_recv_tcp
  <1>1. RxTypeOK' BY DEF RxInv, RxTypeOK, At
  <1>2. PacketsAreTheStream' BY DEF RxInv, PacketsAreTheStream, NextByte, NextPost
  <1>3. MessagesAreTrue' BY DEF RxInv, MessagesAreTrue, IsTrue
  <1>4. BytesAreInOrder' BY DEF RxInv, BytesAreInOrder
  <1>5. FinIsLast' BY DEF RxInv, FinIsLast, NextByte, CallsAreInStep
  <1>6. CallsAreInStep'
        BY DEF RxInv, CallsAreInStep, NextByte, FinIsLast, PacketsAreTheStream,
           NextPost, RxTypeOK
  <1>7. WindowInv' BY DEF RxInv, WindowInv, CallsAreInStep
  <1> QED BY <1>1, <1>2, <1>3, <1>4, <1>5, <1>6, <1>7 DEF RxInv

LEMMA netconn_recv_data_Inv == ASSUME RxInv, netconn_recv_data PROVE RxInv'
  <1> USE DEF netconn_recv_data
  <1>1. RxTypeOK' BY DEF RxInv, RxTypeOK, At
  <1>2. PacketsAreTheStream' BY DEF RxInv, PacketsAreTheStream, NextByte, NextPost
  <1>3. MessagesAreTrue' BY DEF RxInv, MessagesAreTrue, IsTrue
  <1>4. BytesAreInOrder' BY DEF RxInv, BytesAreInOrder
  <1>5. FinIsLast' BY DEF RxInv, FinIsLast, NextByte, CallsAreInStep
  <1>6. CallsAreInStep'
        BY DEF RxInv, CallsAreInStep, NextByte, FinIsLast, PacketsAreTheStream,
           NextPost, RxTypeOK
  <1>7. WindowInv' BY DEF RxInv, WindowInv, CallsAreInStep
  <1> QED BY <1>1, <1>2, <1>3, <1>4, <1>5, <1>6, <1>7 DEF RxInv

LEMMA fetch_timeout_Inv == ASSUME RxInv, fetch_timeout PROVE RxInv'
  <1> USE DEF fetch_timeout
  <1>1. RxTypeOK' BY DEF RxInv, RxTypeOK, At
  <1>2. PacketsAreTheStream' BY DEF RxInv, PacketsAreTheStream, NextByte, NextPost
  <1>3. MessagesAreTrue' BY DEF RxInv, MessagesAreTrue, IsTrue
  <1>4. BytesAreInOrder' BY DEF RxInv, BytesAreInOrder
  <1>5. FinIsLast' BY DEF RxInv, FinIsLast, NextByte, CallsAreInStep
  <1>6. CallsAreInStep'
        BY DEF RxInv, CallsAreInStep, NextByte, FinIsLast, PacketsAreTheStream,
           NextPost, RxTypeOK
  <1>7. WindowInv' BY DEF RxInv, WindowInv, CallsAreInStep
  <1> QED BY <1>1, <1>2, <1>3, <1>4, <1>5, <1>6, <1>7 DEF RxInv

LEMMA tryfetch_empty_Inv == ASSUME RxInv, tryfetch_empty PROVE RxInv'
  <1> USE DEF tryfetch_empty
  <1>1. RxTypeOK' BY DEF RxInv, RxTypeOK, At
  <1>2. PacketsAreTheStream' BY DEF RxInv, PacketsAreTheStream, NextByte, NextPost
  <1>3. MessagesAreTrue' BY DEF RxInv, MessagesAreTrue, IsTrue
  <1>4. BytesAreInOrder' BY DEF RxInv, BytesAreInOrder
  <1>5. FinIsLast' BY DEF RxInv, FinIsLast, NextByte, CallsAreInStep
  <1>6. CallsAreInStep'
        BY DEF RxInv, CallsAreInStep, NextByte, FinIsLast, PacketsAreTheStream,
           NextPost, RxTypeOK
  <1>7. WindowInv' BY DEF RxInv, WindowInv, CallsAreInStep
  <1> QED BY <1>1, <1>2, <1>3, <1>4, <1>5, <1>6, <1>7 DEF RxInv

LEMMA netconn_err_Inv == ASSUME RxInv, netconn_err PROVE RxInv'
  <1> USE DEF netconn_err
  <1>1. RxTypeOK' BY DEF RxInv, RxTypeOK, At
  <1>2. PacketsAreTheStream' BY DEF RxInv, PacketsAreTheStream, NextByte, NextPost
  <1>3. MessagesAreTrue' BY DEF RxInv, MessagesAreTrue, IsTrue
  <1>4. BytesAreInOrder' BY DEF RxInv, BytesAreInOrder
  <1>5. FinIsLast' BY DEF RxInv, FinIsLast, NextByte, CallsAreInStep, RxTypeOK
  <1>6. CallsAreInStep'
        BY DEF RxInv, CallsAreInStep, NextByte, FinIsLast, PacketsAreTheStream,
           NextPost, RxTypeOK
  <1>7. WindowInv' BY DEF RxInv, WindowInv, CallsAreInStep
  <1> QED BY <1>1, <1>2, <1>3, <1>4, <1>5, <1>6, <1>7 DEF RxInv

LEMMA netconn_recv_closed_Inv == ASSUME RxInv, netconn_recv_closed PROVE RxInv'
  <1> USE DEF netconn_recv_closed
  <1>1. RxTypeOK' BY DEF RxInv, RxTypeOK, At
  <1>2. PacketsAreTheStream' BY DEF RxInv, PacketsAreTheStream, NextByte, NextPost
  <1>3. MessagesAreTrue' BY DEF RxInv, MessagesAreTrue, IsTrue
  <1>4. BytesAreInOrder' BY DEF RxInv, BytesAreInOrder
  <1>5. FinIsLast' BY DEF RxInv, FinIsLast, NextByte, CallsAreInStep
  <1>6. CallsAreInStep'
        BY DEF RxInv, CallsAreInStep, NextByte, FinIsLast, PacketsAreTheStream,
           NextPost, RxTypeOK
  <1>7. WindowInv' BY DEF RxInv, WindowInv, CallsAreInStep
  <1> QED BY <1>1, <1>2, <1>3, <1>4, <1>5, <1>6, <1>7 DEF RxInv

LEMMA handle_fin_Inv == ASSUME RxInv, handle_fin PROVE RxInv'
  <1> USE DEF handle_fin
  <1>1. RxTypeOK' BY DEF RxInv, RxTypeOK, At
  <1>2. PacketsAreTheStream' BY DEF RxInv, PacketsAreTheStream, NextByte, NextPost
  <1>3. MessagesAreTrue' BY DEF RxInv, MessagesAreTrue, IsTrue
  <1>4. BytesAreInOrder' BY DEF RxInv, BytesAreInOrder
  <1>5. FinIsLast' BY DEF RxInv, FinIsLast, NextByte, CallsAreInStep
  <1>6. CallsAreInStep'
        BY DEF RxInv, CallsAreInStep, NextByte, FinIsLast, PacketsAreTheStream,
           NextPost, RxTypeOK
  <1>7. WindowInv' BY DEF RxInv, WindowInv, CallsAreInStep
  <1> QED BY <1>1, <1>2, <1>3, <1>4, <1>5, <1>6, <1>7 DEF RxInv

(* The connection breaks and the mailbox is full.                           *)
LEMMA err_tcp_full_Inv == ASSUME RxInv, err_tcp, ~Room PROVE RxInv'
  <1>1. /\ pcb' = FALSE /\ pending_err' = "ABRT" /\ MBOXCLOSED' = TRUE
        /\ UNCHANGED <<recvmbox, posted, fin, acked, FIN_RX_PENDING, lastdata,
                       api, at, callVars, msg, err, taken, seen, ret>>
        BY DEF err_tcp
  <1>2. RxTypeOK'
    <2>1. /\ pcb' \in BOOLEAN /\ pending_err' \in {"OK", "ABRT"} /\ MBOXCLOSED' \in BOOLEAN
          BY <1>1
    <2>2. RxTypeOK BY DEF RxInv
    <2> QED BY ONLY <1>1, <2>1, <2>2 DEF RxTypeOK, callVars
  <1>3. PacketsAreTheStream' BY <1>1 DEF RxInv, PacketsAreTheStream, NextByte, NextPost
  <1>4. MessagesAreTrue' BY <1>1 DEF RxInv, MessagesAreTrue, IsTrue
  <1>5. BytesAreInOrder' BY <1>1 DEF RxInv, BytesAreInOrder
  <1>6. FinIsLast' BY <1>1 DEF RxInv, FinIsLast, NextByte
  <1>7. CallsAreInStep' BY <1>1 DEF RxInv, CallsAreInStep, NextByte
  <1>8. WindowInv' BY <1>1 DEF RxInv, WindowInv
  <1> QED BY <1>2, <1>3, <1>4, <1>5, <1>6, <1>7, <1>8 DEF RxInv

(* A message is interpreted, one case for each kind of message and caller.  *)
LEMMA netconn_recv_data_tcp_Inv == ASSUME RxInv, netconn_recv_data_tcp PROVE RxInv'
  <1>1. /\ at = "fetched" /\ msg \in Messages /\ msg # NoPbuf /\ lastdata = NoPbuf
        /\ ~FIN_RX_PENDING /\ err = "OK" /\ IsTrue(msg) /\ ret = NoResult /\ ~(peek /\ recvd > 0)
        BY DEF RxInv, RxTypeOK, CallsAreInStep, FinIsLast, MessagesAreTrue,
           netconn_recv_data_tcp
  <1>2. msg' = NoPbuf /\ UNCHANGED <<posted, fin, pcb, recvmbox, pending_err, MBOXCLOSED, api>>
        BY DEF netconn_recv_data_tcp
  <1>3. CASE /\ msg.kind = "err"
             /\ Fail("ABRT")
             /\ UNCHANGED <<FIN_RX_PENDING, acked, lastdata, callVars, taken, seen, ret>>
    <2>1. RxTypeOK'
          BY <1>1, <1>2, <1>3 DEF RxInv, RxTypeOK, At, Messages, Pbufs, FinIsLast,
             CallsAreInStep, PacketsAreTheStream, MessagesAreTrue, IsTrue
    <2>2. PacketsAreTheStream'
          BY <1>1, <1>2, <1>3 DEF RxInv, PacketsAreTheStream, NextByte, NextPost,
             MessagesAreTrue, IsTrue, CallsAreInStep, RxTypeOK, Messages, Pbufs
    <2>3. MessagesAreTrue' BY <1>1, <1>2, <1>3 DEF RxInv, MessagesAreTrue, IsTrue
    <2>4. BytesAreInOrder'
          BY <1>1, <1>2, <1>3 DEF RxInv, BytesAreInOrder, CallsAreInStep,
             PacketsAreTheStream, NextByte, RxTypeOK, IsTrue
    <2>5. FinIsLast'
          BY <1>1, <1>2, <1>3 DEF RxInv, FinIsLast, NextByte, CallsAreInStep,
             MessagesAreTrue, IsTrue, RxTypeOK, PacketsAreTheStream, Messages,
             NextPost
    <2>6. CallsAreInStep'
          BY <1>1, <1>2, <1>3 DEF RxInv, CallsAreInStep, NextByte, FinIsLast,
             PacketsAreTheStream, NextPost, RxTypeOK, MessagesAreTrue, IsTrue,
             Messages
    <2>7. WindowInv'
          BY <1>1, <1>2, <1>3 DEF RxInv, WindowInv, CallsAreInStep, FinIsLast,
             RxTypeOK, Messages
    <2> QED BY <2>1, <2>2, <2>3, <2>4, <2>5, <2>6, <2>7 DEF RxInv
  <1>4. CASE /\ msg.kind = "fin" /\ "NOFIN" \in apiflags
             /\ FIN_RX_PENDING' = TRUE
             /\ Fail("WOULDBLOCK")
             /\ UNCHANGED <<acked, lastdata, callVars, taken, seen, ret>>
    <2>1. RxTypeOK'
          BY <1>1, <1>2, <1>4 DEF RxInv, RxTypeOK, At, Messages, Pbufs, FinIsLast,
             CallsAreInStep, PacketsAreTheStream, MessagesAreTrue, IsTrue
    <2>2. PacketsAreTheStream'
          BY <1>1, <1>2, <1>4 DEF RxInv, PacketsAreTheStream, NextByte, NextPost,
             MessagesAreTrue, IsTrue, CallsAreInStep, RxTypeOK, Messages, Pbufs
    <2>3. MessagesAreTrue' BY <1>1, <1>2, <1>4 DEF RxInv, MessagesAreTrue, IsTrue
    <2>4. BytesAreInOrder'
          BY <1>1, <1>2, <1>4 DEF RxInv, BytesAreInOrder, CallsAreInStep,
             PacketsAreTheStream, NextByte, RxTypeOK, IsTrue
    <2>5. FinIsLast'
          BY <1>1, <1>2, <1>4 DEF RxInv, FinIsLast, NextByte, CallsAreInStep,
             MessagesAreTrue, IsTrue, RxTypeOK, PacketsAreTheStream, Messages,
             NextPost
    <2>6. CallsAreInStep'
          BY <1>1, <1>2, <1>4 DEF RxInv, CallsAreInStep, NextByte, FinIsLast,
             PacketsAreTheStream, NextPost, RxTypeOK, MessagesAreTrue, IsTrue,
             Messages
    <2>7. WindowInv'
          BY <1>1, <1>2, <1>4 DEF RxInv, WindowInv, CallsAreInStep, FinIsLast,
             RxTypeOK, Messages
    <2> QED BY <2>1, <2>2, <2>3, <2>4, <2>5, <2>6, <2>7 DEF RxInv
  <1>5. CASE /\ msg.kind = "fin" /\ "NOFIN" \notin apiflags
             /\ IF api = "netconn_recv" THEN tcp_recved(1) ELSE UNCHANGED acked
             /\ Goto("fin")
             /\ UNCHANGED <<FIN_RX_PENDING, lastdata, callVars, err, taken, seen, ret>>
    <2> USE DEF tcp_recved
    <2>1. RxTypeOK'
          BY <1>1, <1>2, <1>5 DEF RxInv, RxTypeOK, At, Messages, Pbufs, FinIsLast,
             CallsAreInStep, PacketsAreTheStream, MessagesAreTrue, IsTrue
    <2>2. PacketsAreTheStream'
          BY <1>1, <1>2, <1>5 DEF RxInv, PacketsAreTheStream, NextByte, NextPost,
             MessagesAreTrue, IsTrue, CallsAreInStep, RxTypeOK, Messages, Pbufs
    <2>3. MessagesAreTrue' BY <1>1, <1>2, <1>5 DEF RxInv, MessagesAreTrue, IsTrue
    <2>4. BytesAreInOrder'
          BY <1>1, <1>2, <1>5 DEF RxInv, BytesAreInOrder, CallsAreInStep,
             PacketsAreTheStream, NextByte, RxTypeOK, IsTrue
    <2>5. FinIsLast'
          BY <1>1, <1>2, <1>5 DEF RxInv, FinIsLast, NextByte, CallsAreInStep,
             MessagesAreTrue, IsTrue, RxTypeOK, PacketsAreTheStream, Messages,
             NextPost
    <2>6. CallsAreInStep'
          BY <1>1, <1>2, <1>5 DEF RxInv, CallsAreInStep, NextByte, FinIsLast,
             PacketsAreTheStream, NextPost, RxTypeOK, MessagesAreTrue, IsTrue,
             Messages
    <2>7. WindowInv'
          BY <1>1, <1>2, <1>5 DEF RxInv, WindowInv, CallsAreInStep, FinIsLast,
             RxTypeOK, Messages
    <2> QED BY <2>1, <2>2, <2>3, <2>4, <2>5, <2>6, <2>7 DEF RxInv
  <1>6. CASE /\ msg.kind = "data" /\ api = "lwip_recv"
             /\ lastdata' = Part(msg.from, msg.upto)
             /\ Goto("copy")
             /\ UNCHANGED <<FIN_RX_PENDING, acked, callVars, err, taken, seen, ret>>
    <2>a. /\ lastdata' \in Pbufs /\ lastdata' # NoPbuf
          /\ lastdata'.from = msg.from /\ lastdata'.upto = msg.upto
          BY <1>1, <1>6, ReceiveAssumption DEF Pbufs, Messages
    <2>b. at' = "copy" /\ UNCHANGED <<FIN_RX_PENDING, acked, callVars, err, taken, seen, ret>>
          BY <1>6
    <2>1. RxTypeOK'
          BY <1>1, <1>2, <2>a, <2>b DEF RxInv, RxTypeOK, At, Messages, Pbufs,
             FinIsLast, CallsAreInStep, PacketsAreTheStream, MessagesAreTrue, IsTrue
    <2>2. PacketsAreTheStream'
          BY <1>6, <1>1, <1>2, <2>a, <2>b DEF RxInv, PacketsAreTheStream, NextByte,
             NextPost, MessagesAreTrue, IsTrue, CallsAreInStep, RxTypeOK, Messages,
             Pbufs
    <2>3. MessagesAreTrue' BY <1>1, <1>2, <2>a, <2>b DEF RxInv, MessagesAreTrue, IsTrue
    <2>4. BytesAreInOrder'
          BY <1>1, <1>2, <2>a, <2>b DEF RxInv, BytesAreInOrder, CallsAreInStep,
             PacketsAreTheStream, NextByte, RxTypeOK, IsTrue
    <2>5. FinIsLast'
          BY <1>1, <1>2, <2>a, <2>b DEF RxInv, FinIsLast, NextByte, CallsAreInStep,
             MessagesAreTrue, IsTrue, RxTypeOK, PacketsAreTheStream, Messages,
             NextPost
    <2>6. CallsAreInStep'
          BY <1>6, <1>1, <1>2, <2>a, <2>b DEF RxInv, CallsAreInStep, NextByte,
             FinIsLast, PacketsAreTheStream, NextPost, RxTypeOK, MessagesAreTrue,
             IsTrue, Messages
    <2>7. WindowInv'
          BY <1>6, <1>1, <1>2, <2>a, <2>b DEF RxInv, WindowInv, CallsAreInStep,
             FinIsLast, RxTypeOK, Messages
    <2> QED BY <2>1, <2>2, <2>3, <2>4, <2>5, <2>6, <2>7 DEF RxInv
  <1>7. CASE /\ msg.kind = "data" /\ api = "netconn_recv"
             /\ tcp_recved(msg.upto - msg.from)
             /\ Return([kind |-> "data",
                        data |-> [i \in 0 .. msg.upto - msg.from - 1 |-> msg.from + i]])
             /\ taken' = taken + (msg.upto - msg.from)
             /\ UNCHANGED <<FIN_RX_PENDING, lastdata, mem, seen>>
    <2>a. /\ at' = "app" /\ peek' = FALSE /\ apiflags' = {} /\ recvd' = 0 /\ recv_left' = 0
          /\ err' = "OK" /\ ret'.kind = "data"
          /\ taken' = taken + (msg.upto - msg.from)
          /\ UNCHANGED <<FIN_RX_PENDING, lastdata, mem, seen>>
          /\ acked' = IF pcb THEN acked + (msg.upto - msg.from) ELSE acked
          BY <1>7 DEF tcp_recved
    <2>b. msg.from \in Nat /\ msg.upto \in Nat /\ msg.from < msg.upto /\ api = "netconn_recv"
          BY <1>1, <1>7 DEF Messages, IsTrue
    <2>c. taken' \in Nat /\ acked' \in Nat BY SMTT(40), <1>1, <2>a, <2>b DEF RxInv, RxTypeOK
    <2>d. /\ at' \in At /\ peek' \in BOOLEAN /\ apiflags' \in SUBSET {"DONTBLOCK", "NOFIN"}
          /\ recvd' \in 0 .. MaxLen /\ recv_left' \in 0 .. MaxLen
          /\ recvd' + recv_left' <= MaxLen
      <3>1. at' \in At BY <2>a DEF At
      <3>2. peek' \in BOOLEAN BY <2>a
      <3>3. apiflags' \in SUBSET {"DONTBLOCK", "NOFIN"} BY <2>a
      <3>4. /\ recvd' \in 0 .. MaxLen /\ recv_left' \in 0 .. MaxLen
            /\ recvd' + recv_left' <= MaxLen
            BY <2>a, ReceiveAssumption
      <3> QED BY <3>1, <3>2, <3>3, <3>4
    <2>e. RxTypeOK BY DEF RxInv
    <2>f. /\ msg' = NoPbuf
          /\ err' \in {"OK", "TIMEOUT", "WOULDBLOCK", "ABRT", "CONN", "RST", "CLSD"}
          BY <1>2, <2>a
    <2>1. RxTypeOK' BY ONLY <1>2, <2>a, <2>c, <2>d, <2>e, <2>f DEF RxTypeOK
    <2>2. PacketsAreTheStream'
          BY SMTT(40), <1>1, <1>2, <2>a, <2>b DEF RxInv, PacketsAreTheStream, NextByte,
             NextPost, MessagesAreTrue, IsTrue, CallsAreInStep, RxTypeOK, Messages,
             Pbufs
    <2>3. MessagesAreTrue' BY <1>1, <1>2, <2>a, <2>b DEF RxInv, MessagesAreTrue, IsTrue
    <2>4. BytesAreInOrder'
          BY <1>1, <1>2, <2>a, <2>b DEF RxInv, BytesAreInOrder, CallsAreInStep,
             PacketsAreTheStream, NextByte, RxTypeOK, IsTrue
    <2>5. FinIsLast'
          BY <1>1, <1>2, <2>a, <2>b DEF RxInv, FinIsLast, NextByte, CallsAreInStep,
             MessagesAreTrue, IsTrue, RxTypeOK, PacketsAreTheStream, Messages,
             NextPost
    <2>6. CallsAreInStep'
          BY <1>1, <1>2, <2>a, <2>b DEF RxInv, CallsAreInStep, NextByte, FinIsLast,
             PacketsAreTheStream, NextPost, RxTypeOK, MessagesAreTrue, IsTrue,
             Messages
    <2>7. WindowInv'
          BY <1>1, <1>2, <2>a, <2>b DEF RxInv, WindowInv, CallsAreInStep, FinIsLast,
             RxTypeOK, Messages
    <2> QED BY <2>1, <2>2, <2>3, <2>4, <2>5, <2>6, <2>7 DEF RxInv
  <1> QED BY <1>3, <1>4, <1>5, <1>6, <1>7, <1>1 DEF netconn_recv_data_tcp, Messages

(* A packet is copied, as far as it fits, behind what the call has already. *)
LEMMA lwip_recv_tcp_copy_Inv == ASSUME RxInv, lwip_recv_tcp_copy PROVE RxInv'
  <1> DEFINE n == CopyLen
  <1>1. /\ at = "copy" /\ lastdata \in Pbufs /\ lastdata # NoPbuf /\ msg = NoPbuf
        /\ lastdata.from \in Nat /\ lastdata.upto \in Nat /\ lastdata.from < lastdata.upto
        /\ lastdata.from = taken + recvd /\ (peek => recvd = 0)
        /\ taken \in Nat /\ recvd \in Nat /\ recv_left \in Nat /\ recvd + recv_left <= MaxLen
        /\ ~FIN_RX_PENDING /\ err = "OK" /\ ret = NoResult /\ api = "lwip_recv"
        BY DEF RxInv, RxTypeOK, Pbufs, CallsAreInStep, PacketsAreTheStream,
           NextByte, FinIsLast,
               lwip_recv_tcp_copy
  <1>0. lastdata.upto <= posted
    <2>1. lastdata.upto = NextPost BY <1>1 DEF NextPost
    <2>2. CASE recvmbox = << >>
          BY <1>1, <2>1, <2>2 DEF RxInv, RxTypeOK, PacketsAreTheStream
    <2>3. CASE recvmbox # << >>
      <3>1. recvmbox[1] \in Messages /\ IsTrue(recvmbox[1]) /\ recvmbox[1].from = NextPost
            BY <2>3 DEF RxInv, RxTypeOK, MessagesAreTrue, PacketsAreTheStream
      <3> QED BY <1>1, <2>1, <3>1 DEF IsTrue, Messages, RxInv, RxTypeOK
    <2> QED BY <2>2, <2>3
  <1>2. /\ n \in Nat /\ n <= recv_left /\ n <= lastdata.upto - lastdata.from
        /\ n < recv_left => n = lastdata.upto - lastdata.from
        BY <1>1 DEF CopyLen
  <1>3. /\ recvd' = recvd + n /\ recv_left' = recv_left - n
        /\ lastdata' = IF peek THEN lastdata ELSE RestOfLastdata(n)
        /\ apiflags' = apiflags \cup {"DONTBLOCK", "NOFIN"}
        /\ at' = IF recv_left - n > 0 /\ ~peek THEN "top" ELSE "done"
        /\ UNCHANGED <<posted, fin, pcb, acked, recvmbox, pending_err, MBOXCLOSED,
                       FIN_RX_PENDING, api, peek, msg, err, taken, seen, ret>>
        BY DEF lwip_recv_tcp_copy, FlagsWithData
  <1>4. mem' = [i \in 0 .. MaxLen - 1 |->
                  IF recvd <= i /\ i < recvd + n THEN lastdata.from + (i - recvd) ELSE mem[i]]
        BY DEF lwip_recv_tcp_copy
  <1> HIDE DEF n
  <1>5. /\ lastdata' \in Pbufs \cup {NoPbuf}
        /\ lastdata' # NoPbuf => /\ lastdata'.upto = lastdata.upto
                                 /\ lastdata'.from = NextByte'
                                 /\ lastdata'.from < lastdata.upto
                                 /\ ~peek => recv_left' = 0
        /\ lastdata' = NoPbuf => ~peek /\ NextByte' = lastdata.upto
    <2>1. CASE lastdata' = lastdata /\ peek
          BY <1>1, <1>3, <2>1 DEF NextByte
    <2>2. CASE lastdata' = Part(lastdata.from + n, lastdata.upto) /\ ~peek
               /\ lastdata.upto - lastdata.from - n > 0
      <3>1. /\ lastdata' \in Pbufs /\ lastdata'.upto = lastdata.upto
            /\ lastdata'.from = lastdata.from + n
            BY <1>1, <1>2, <2>2 DEF Pbufs
      <3>2. lastdata' # NoPbuf BY <3>1, ReceiveAssumption
      <3> QED BY <1>1, <1>2, <1>3, <2>2, <3>1, <3>2 DEF NextByte
    <2>3. CASE lastdata' = NoPbuf /\ ~peek /\ ~(lastdata.upto - lastdata.from - n > 0)
          BY <1>1, <1>2, <1>3, <2>3 DEF NextByte
    <2> QED BY <1>1, <1>3, <2>1, <2>2, <2>3 DEF RestOfLastdata
  <1>6. NextPost' = NextPost /\ NextPost = lastdata.upto
        BY <1>1, <1>3, <1>5 DEF NextPost
  <1>7. RxTypeOK'
    <2>1. mem' \in [0 .. MaxLen - 1 -> Nat]
          BY <1>1, <1>2, <1>4 DEF RxInv, RxTypeOK
    <2> QED BY <1>1, <1>2, <1>3, <1>5, <2>1, ReceiveAssumption DEF RxInv, RxTypeOK, At
  <1>8. PacketsAreTheStream'
        BY <1>1, <1>3, <1>5, <1>6 DEF RxInv, PacketsAreTheStream
  <1>9. MessagesAreTrue' BY <1>3 DEF RxInv, MessagesAreTrue, IsTrue
  <1>10. BytesAreInOrder'
    <2> SUFFICES ASSUME NEW i \in 0 .. recvd + n - 1 PROVE mem'[i] = taken + i
        BY <1>0, <1>1, <1>2, <1>3 DEF RxInv, RxTypeOK, BytesAreInOrder
    <2>1. i \in 0 .. MaxLen - 1 BY <1>1, <1>2, ReceiveAssumption
    <2>2. CASE i < recvd
          BY <1>1, <1>4, <2>1, <2>2 DEF RxInv, BytesAreInOrder
    <2>3. CASE recvd <= i
          BY <1>1, <1>2, <1>4, <2>1, <2>3
    <2> QED BY <1>1, <2>2, <2>3
  <1>11. FinIsLast' BY <1>1, <1>3 DEF FinIsLast
  <1>12. CallsAreInStep'
         BY <1>1, <1>2, <1>3, <1>5 DEF RxInv, RxTypeOK, CallsAreInStep, NextByte
  <1>13. WindowInv' BY <1>1, <1>3 DEF RxInv, WindowInv
  <1> QED BY <1>7, <1>8, <1>9, <1>10, <1>11, <1>12, <1>13 DEF RxInv

(* The call meets an error: bytes it has already are returned first.        *)
LEMMA lwip_recv_tcp_error_Inv == ASSUME RxInv, lwip_recv_tcp_error PROVE RxInv'
  <1>1. /\ at = "error" /\ err # "OK" /\ msg = NoPbuf /\ ret = NoResult
        /\ recvd \in Nat /\ peek \in BOOLEAN /\ taken \in Nat
        BY DEF RxInv, RxTypeOK, CallsAreInStep, lwip_recv_tcp_error
  <1>2. UNCHANGED <<posted, fin, pcb, acked, recvmbox, pending_err, MBOXCLOSED, mem,
                    FIN_RX_PENDING, lastdata, api, msg, taken, seen>>
        BY DEF lwip_recv_tcp_error
  <1>3. CASE recvd > 0
    <2>a. at' = "done" /\ err' = "OK" /\ UNCHANGED <<peek, apiflags, recvd, recv_left, mem, ret>>
          BY <1>3 DEF lwip_recv_tcp_error
    <2>1. RxTypeOK' BY <1>2, <2>a DEF RxInv, RxTypeOK, At
    <2>2. PacketsAreTheStream'
          BY <1>2, <2>a DEF RxInv, PacketsAreTheStream, NextByte, NextPost
    <2>3. MessagesAreTrue' BY <1>2 DEF RxInv, MessagesAreTrue, IsTrue
    <2>4. BytesAreInOrder' BY <1>2, <2>a DEF RxInv, BytesAreInOrder
    <2>5. FinIsLast' BY <1>1, <1>2, <2>a DEF RxInv, FinIsLast, NextByte
    <2>6. CallsAreInStep' BY <1>1, <1>2, <1>3, <2>a DEF RxInv, CallsAreInStep, NextByte
    <2>7. WindowInv' BY <1>1, <1>2, <1>3, <2>a DEF RxInv, WindowInv, CallsAreInStep
    <2> QED BY <2>1, <2>2, <2>3, <2>4, <2>5, <2>6, <2>7 DEF RxInv
  <1>4. CASE ~(recvd > 0)
    <2>a. /\ at' = "app" /\ peek' = FALSE /\ apiflags' = {} /\ recvd' = 0 /\ recv_left' = 0
          /\ err' = "OK" /\ ret'.kind = Outcome(err)
          BY <1>4 DEF lwip_recv_tcp_error
    <2>b. recvd = 0 /\ NextByte' = NextByte /\ NextPost' = NextPost
          BY <1>1, <1>2, <1>4, <2>a DEF NextByte, NextPost
    <2>1. RxTypeOK' BY <1>2, <2>a, ReceiveAssumption DEF RxInv, RxTypeOK, At
    <2>2. PacketsAreTheStream' BY <1>2, <2>b DEF RxInv, PacketsAreTheStream
    <2>3. MessagesAreTrue' BY <1>2 DEF RxInv, MessagesAreTrue, IsTrue
    <2>4. BytesAreInOrder' BY <1>2, <2>a, <2>b DEF RxInv, RxTypeOK, BytesAreInOrder
    <2>5. FinIsLast' BY <1>1, <1>2, <2>a, <2>b DEF RxInv, FinIsLast
    <2>6. CallsAreInStep' BY <1>1, <1>2, <2>a DEF RxInv, CallsAreInStep
    <2>7. WindowInv' BY <1>1, <1>2, <2>a DEF RxInv, WindowInv, Outcome
    <2> QED BY <2>1, <2>2, <2>3, <2>4, <2>5, <2>6, <2>7 DEF RxInv
  <1> QED BY <1>3, <1>4

(* The window is updated and the bytes are returned.                        *)
LEMMA lwip_recv_tcp_done_Inv == ASSUME RxInv, lwip_recv_tcp_done PROVE RxInv'
  <1>1. /\ at = "done" /\ err = "OK" /\ msg = NoPbuf /\ ret = NoResult /\ api = "lwip_recv"
        /\ recvd \in Nat /\ peek \in BOOLEAN /\ taken \in Nat /\ acked \in Nat
        BY DEF RxInv, RxTypeOK, CallsAreInStep, lwip_recv_tcp_done
  <1>2. UNCHANGED <<posted, fin, pcb, recvmbox, pending_err, MBOXCLOSED, FIN_RX_PENDING,
                    lastdata, api, mem, msg, seen>>
        BY DEF lwip_recv_tcp_done
  <1>3. /\ at' = "app" /\ peek' = FALSE /\ apiflags' = {} /\ recvd' = 0 /\ recv_left' = 0
        /\ err' = "OK" /\ ret'.kind = "data"
        BY DEF lwip_recv_tcp_done
  <1>4. /\ taken' = IF peek THEN taken ELSE taken + recvd
        /\ acked' = IF peek \/ ~pcb THEN acked ELSE acked + recvd
        BY DEF lwip_recv_tcp_done, tcp_recved
  <1>5. NextByte' = NextByte /\ NextPost' = NextPost
        BY <1>1, <1>2, <1>3, <1>4 DEF NextByte, NextPost
  <1>6. RxTypeOK'
    <2>1. taken' \in Nat /\ acked' \in Nat BY <1>1, <1>4
    <2>2. /\ at' \in At /\ peek' \in BOOLEAN /\ apiflags' \in SUBSET {"DONTBLOCK", "NOFIN"}
          /\ recvd' \in 0 .. MaxLen /\ recv_left' \in 0 .. MaxLen
          /\ recvd' + recv_left' <= MaxLen
      <3>1. at' \in At BY <1>3 DEF At
      <3>2. peek' \in BOOLEAN BY <1>3
      <3>3. apiflags' \in SUBSET {"DONTBLOCK", "NOFIN"} BY <1>3
      <3>4. /\ recvd' \in 0 .. MaxLen /\ recv_left' \in 0 .. MaxLen
            /\ recvd' + recv_left' <= MaxLen
            BY <1>3, ReceiveAssumption
      <3> QED BY <3>1, <3>2, <3>3, <3>4
    <2>3. err' \in {"OK", "TIMEOUT", "WOULDBLOCK", "ABRT", "CONN", "RST", "CLSD"}
          BY <1>3
    <2>4. RxTypeOK BY DEF RxInv
    <2> QED BY ONLY <1>2, <2>1, <2>2, <2>3, <2>4 DEF RxTypeOK
  <1>7. PacketsAreTheStream' BY <1>2, <1>5 DEF RxInv, PacketsAreTheStream
  <1>8. MessagesAreTrue' BY <1>2 DEF RxInv, MessagesAreTrue, IsTrue
  <1>9. BytesAreInOrder' BY <1>1, <1>2, <1>3, <1>4 DEF RxInv, RxTypeOK, BytesAreInOrder
  <1>10. FinIsLast' BY <1>1, <1>2, <1>3, <1>5 DEF RxInv, FinIsLast
  <1>11. CallsAreInStep' BY <1>1, <1>2, <1>3 DEF RxInv, CallsAreInStep
  <1>12. WindowInv' BY <1>1, <1>2, <1>3, <1>4 DEF RxInv, WindowInv
  <1> QED BY <1>6, <1>7, <1>8, <1>9, <1>10, <1>11, <1>12 DEF RxInv

(* The application calls.                                                   *)
LEMMA Call_Inv ==
    ASSUME NEW len \in 0 .. MaxLen, NEW peeks \in BOOLEAN, NEW flags \in SUBSET {"DONTBLOCK"},
           RxInv, Call(len, peeks, flags)
    PROVE  RxInv'
  <1>1. at = "app" /\ recvd = 0 /\ peek = FALSE /\ err = "OK" /\ msg = NoPbuf /\ taken \in Nat
        BY DEF RxInv, RxTypeOK, CallsAreInStep, Call
  <1>2. /\ at' = "top" /\ recv_left' = len /\ peek' = peeks /\ apiflags' = flags
        /\ ret' = NoResult /\ seen' = posted /\ ret.kind # "eof"
        /\ api = "netconn_recv" => flags = {} /\ ~peeks
        /\ UNCHANGED <<posted, fin, pcb, acked, recvmbox, pending_err, MBOXCLOSED,
                       FIN_RX_PENDING, lastdata, api, recvd, mem, msg, err, taken>>
        BY DEF Call
  <1>3. NextByte' = NextByte /\ NextPost' = NextPost
        BY <1>1, <1>2 DEF NextByte, NextPost
  <1>4. RxTypeOK' BY <1>1, <1>2, ReceiveAssumption DEF RxInv, RxTypeOK, At
  <1>5. PacketsAreTheStream' BY <1>2, <1>3 DEF RxInv, PacketsAreTheStream
  <1>6. MessagesAreTrue' BY <1>2 DEF RxInv, MessagesAreTrue, IsTrue
  <1>7. BytesAreInOrder' BY <1>1, <1>2 DEF RxInv, BytesAreInOrder
  <1>8. FinIsLast' BY <1>1, <1>2, <1>3 DEF RxInv, FinIsLast
  <1>9. CallsAreInStep' BY <1>1, <1>2 DEF RxInv, RxTypeOK, CallsAreInStep
  <1>10. WindowInv' BY <1>1, <1>2 DEF RxInv, WindowInv, NoResult
  <1> QED BY <1>4, <1>5, <1>6, <1>7, <1>8, <1>9, <1>10 DEF RxInv

(* RxInv is preserved by every step of the reader and of the TCP/IP thread. *)
(* Every step preserves the invariant.                                      *)
LEMMA NextInv == ASSUME RxInv, [RxNext]_rxVars PROVE RxInv'
  <1>1. CASE ReadStep
        BY <1>1, lwip_recv_tcp_Inv, netconn_recv_data_Inv, fetch_Inv,
           tryfetch_empty_Inv,
           netconn_err_Inv, netconn_recv_closed_Inv, netconn_recv_data_tcp_Inv, handle_fin_Inv,
           lwip_recv_tcp_copy_Inv, lwip_recv_tcp_error_Inv, lwip_recv_tcp_done_Inv
        DEF ReadStep
  <1>2. CASE fetch_timeout BY <1>2, fetch_timeout_Inv
  <1>3. CASE Calls BY <1>3, Call_Inv DEF Calls
  <1>4. CASE CoreStep
    <2>1. ASSUME err_tcp, ~Room PROVE RxInv'
          BY <2>1, err_tcp_full_Inv
    <2> QED BY <1>4, <2>1, recv_tcp_Inv, recv_fin_Inv, err_tcp_Inv DEF CoreStep
  <1>5. CASE Finished \/ UNCHANGED rxVars
    <2> USE DEF rxVars, Finished
    <2>u. UNCHANGED rxVars BY <1>5
    <2>t. RxTypeOK BY DEF RxInv
    <2>1. RxTypeOK' BY ONLY <2>u, <2>t DEF RxTypeOK, rxVars, connVars, callVars
    <2>2. PacketsAreTheStream'
          BY <1>5 DEF RxInv, PacketsAreTheStream, NextByte, NextPost
    <2>3. MessagesAreTrue' BY <1>5 DEF RxInv, MessagesAreTrue, IsTrue
    <2>4. BytesAreInOrder' BY <1>5 DEF RxInv, BytesAreInOrder
    <2>5. FinIsLast' BY <1>5 DEF RxInv, FinIsLast, NextByte
    <2>6. CallsAreInStep' BY <1>5 DEF RxInv, CallsAreInStep, NextByte
    <2>7. WindowInv' BY <1>5 DEF RxInv, WindowInv
    <2> QED BY <2>1, <2>2, <2>3, <2>4, <2>5, <2>6, <2>7 DEF RxInv
  <1> QED BY <1>1, <1>2, <1>3, <1>4, <1>5 DEF RxNext

(* It holds before the first call.                                          *)
LEMMA InitInv == RxInit => RxInv
  <1> SUFFICES ASSUME RxInit PROVE RxInv
      OBVIOUS
  <1> USE ReceiveAssumption DEF RxInit
  <1>1. RxTypeOK BY DEF RxTypeOK, At, Pbufs, Messages
  <1>2. PacketsAreTheStream BY DEF PacketsAreTheStream, NextByte, NextPost
  <1>3. MessagesAreTrue BY DEF MessagesAreTrue
  <1>4. BytesAreInOrder BY DEF BytesAreInOrder
  <1>5. FinIsLast BY DEF FinIsLast
  <1>6. CallsAreInStep BY DEF CallsAreInStep, NextByte
  <1>7. WindowInv BY DEF WindowInv
  <1> QED BY <1>1, <1>2, <1>3, <1>4, <1>5, <1>6, <1>7 DEF RxInv

LEMMA RxInvHolds == RxSpec => []RxInv
  BY InitInv, NextInv, PTL DEF RxSpec

(* Between two calls the window has got back exactly the bytes that were    *)
(* taken, for every window, mailbox size and length of read.                *)
THEOREM WindowStaysReturned == RxSpec => []WindowIsReturned
  <1>1. RxInv => WindowIsReturned
        BY DEF RxInv, WindowInv, CallsAreInStep, WindowIsReturned
  <1> QED BY <1>1, RxInvHolds, PTL
-----------------------------------------------------------------------------
(* Every step is one of the byte stream, or changes nothing of it.          *)
LEMMA ReadStepSimulates ==
    ASSUME RxInv, ReadStep \/ fetch_timeout
    PROVE  [Stream!StreamNext]_Stream!streamVars
  <1> USE DEF Stream!streamVars
  <1>1. CASE \/ lwip_recv_tcp \/ netconn_recv_data \/ fetch \/ tryfetch_empty \/ netconn_err
             \/ netconn_recv_closed \/ handle_fin \/ lwip_recv_tcp_copy \/ fetch_timeout
        BY <1>1 DEF lwip_recv_tcp, netconn_recv_data, fetch, tryfetch_empty,
           netconn_err, netconn_recv_closed, handle_fin, lwip_recv_tcp_copy, fetch_timeout
  <1>2. CASE netconn_recv_data_tcp
    <2>1. /\ msg \in Messages /\ IsTrue(msg) /\ msg # NoPbuf
          /\ posted \in Nat /\ taken \in Nat
          BY <1>2 DEF RxInv, RxTypeOK, MessagesAreTrue, CallsAreInStep,
             netconn_recv_data_tcp
    <2>2. CASE /\ msg.kind = "data" /\ api = "netconn_recv"
               /\ tcp_recved(msg.upto - msg.from)
               /\ Return([kind |-> "data",
                          data |-> [i \in 0 .. msg.upto - msg.from - 1 |-> msg.from + i]])
               /\ taken' = taken + (msg.upto - msg.from)
               /\ UNCHANGED <<FIN_RX_PENDING, lastdata, mem, seen>>
      <3> DEFINE n == msg.upto - msg.from
      <3>1. msg.from = taken
            BY <2>1, <2>2 DEF RxInv, PacketsAreTheStream, CallsAreInStep, NextByte
      <3>2. n \in 0 .. posted - taken
        <4>1. msg.upto \in Nat /\ msg.from < msg.upto /\ msg.upto <= posted
              BY <2>1, <2>2 DEF Messages, IsTrue
        <4> QED BY <2>1, <3>1, <4>1
      <3>3. ret' = [kind |-> "data", data |-> [i \in 0 .. n - 1 |-> taken + i]]
            BY <2>2, <3>1
      <3>4. taken' = taken + n /\ UNCHANGED <<posted, fin, pcb, seen>>
            BY <1>2, <2>2 DEF netconn_recv_data_tcp
      <3> HIDE DEF n
      <3>5. Stream!Give(n, FALSE) BY <3>3, <3>4 DEF Stream!Give
      <3> QED BY <3>2, <3>5 DEF Stream!StreamNext
    <2>3. CASE UNCHANGED <<taken, seen, ret>>
          BY <1>2, <2>3 DEF netconn_recv_data_tcp
    <2> QED BY <1>2, <2>2, <2>3 DEF netconn_recv_data_tcp
  <1>3. CASE lwip_recv_tcp_error
    <2>1. CASE recvd > 0 BY <1>3, <2>1 DEF lwip_recv_tcp_error
    <2>2. CASE ~(recvd > 0)
      <3>1. /\ at = "error" /\ NextByte >= seen /\ NextByte = taken
            /\ err \in {"TIMEOUT", "WOULDBLOCK", "ABRT", "CONN", "RST", "CLSD"}
            /\ err = "CLSD" => fin /\ NextByte = posted
            /\ err \in {"ABRT", "CONN", "RST"} => ~pcb
            BY <1>3, <2>2 DEF RxInv, RxTypeOK, CallsAreInStep, FinIsLast, NextByte,
                              lwip_recv_tcp_error
      <3>2. /\ ret' = [kind |-> Outcome(err), data |-> NoPbuf]
            /\ UNCHANGED <<posted, fin, pcb, taken, seen>>
            BY <1>3, <2>2 DEF lwip_recv_tcp_error
      <3>3. /\ Outcome(err) \in {"again", "eof", "fail"}
            /\ \/ Outcome(err) = "again"
               \/ Outcome(err) = "eof" /\ fin /\ taken = posted
               \/ Outcome(err) = "fail" /\ ~pcb
            BY <3>1 DEF Outcome
      <3>4. Stream!GiveNothing(Outcome(err))
            BY <3>1, <3>2, <3>3 DEF Stream!GiveNothing
      <3> QED BY <3>3, <3>4 DEF Stream!StreamNext
    <2> QED BY <2>1, <2>2
  <1>4. CASE lwip_recv_tcp_done
    <2>1. /\ recvd \in Nat /\ recvd <= MaxLen /\ taken \in Nat /\ posted \in Nat /\ peek \in BOOLEAN
          /\ mem \in [0 .. MaxLen - 1 -> Nat]
          BY DEF RxInv, RxTypeOK
    <2>2. \A i \in 0 .. recvd - 1 : mem[i] = taken + i
          BY DEF RxInv, BytesAreInOrder
    <2>3. recvd \in 0 .. posted - taken
          BY <2>1 DEF RxInv, BytesAreInOrder
    <2>4. ret' = [kind |-> "data", data |-> [i \in 0 .. recvd - 1 |-> taken + i]]
      <3>1. [i \in 0 .. recvd - 1 |-> mem[i]] = [i \in 0 .. recvd - 1 |-> taken + i]
            BY <2>2
      <3> QED BY <1>4, <3>1 DEF lwip_recv_tcp_done
    <2>5. /\ taken' = IF peek THEN taken ELSE taken + recvd
          /\ UNCHANGED <<posted, fin, pcb, seen>>
          BY <1>4 DEF lwip_recv_tcp_done
    <2>6. Stream!Give(recvd, peek) BY <2>4, <2>5 DEF Stream!Give
    <2> QED BY <2>1, <2>3, <2>6 DEF Stream!StreamNext
  <1> QED BY <1>1, <1>2, <1>3, <1>4 DEF ReadStep

(* A call, a post or a step of the application that is done is one of the   *)
(* byte stream too.                                                         *)
LEMMA OtherStepSimulates ==
    ASSUME RxInv, Calls \/ CoreStep \/ Finished \/ UNCHANGED rxVars
    PROVE  [Stream!StreamNext]_Stream!streamVars
  <1>1. CASE Calls
    <2>1. Stream!Begin BY <1>1 DEF Calls, Call, Stream!Begin
    <2> QED BY <2>1 DEF Stream!StreamNext
  <1>2. ASSUME NEW n \in 1 .. MaxBytes, recv_tcp(n)
        PROVE  [Stream!StreamNext]_Stream!streamVars
    <2>1. Stream!Arrive
          BY <1>2, ReceiveAssumption DEF RxInv, RxTypeOK, recv_tcp, Stream!Arrive
    <2> QED BY <2>1 DEF Stream!StreamNext
  <1>3. CASE recv_fin
    <2>1. Stream!Finish BY <1>3 DEF recv_fin, Stream!Finish
    <2> QED BY <2>1 DEF Stream!StreamNext
  <1>4. CASE err_tcp
    <2>1. Stream!Break BY <1>4 DEF err_tcp, Stream!Break
    <2> QED BY <2>1 DEF Stream!StreamNext
  <1>5. CASE Finished \/ UNCHANGED rxVars
        BY <1>5 DEF Finished, rxVars, Stream!streamVars
  <1> QED BY <1>1, <1>2, <1>3, <1>4, <1>5 DEF CoreStep

(* What lwip_recv and netconn_recv return is the stream of the peer, for    *)
(* any packets, mailbox, window and length of reads.                        *)
THEOREM ReceiveImplementsStream == RxSpec => ImplementsStream
  <1>1. RxInit => Stream!StreamInit BY DEF RxInit, Stream!StreamInit
  <1>2. RxInv /\ [RxNext]_rxVars => [Stream!StreamNext]_Stream!streamVars
        BY ReadStepSimulates, OtherStepSimulates DEF RxNext
  <1> QED BY <1>1, <1>2, RxInvHolds, PTL DEF RxSpec, ImplementsStream, Stream!StreamSpec
==============================================================================
