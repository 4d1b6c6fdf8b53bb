--------------------------------- MODULE Pbuf ---------------------------------
(***************************************************************************)
(* Packet buffers (lwip/pbuf.c) and the network buffers that own one        *)
(* (lwip/netbuf.c): chains of pbufs with reference counts, which tasks      *)
(* share and free at the same time.                                         *)
(*                                                                         *)
(* One step is one protected access to a count, or the release of one pbuf. *)
(* The core of the stack allocates and chains; it is not in the repository. *)
(***************************************************************************)
EXTENDS Integers, FiniteSets, Sequences

CONSTANTS
    Holder,         \* tasks, each with one netbuf or packet in hand
    PBUF,           \* the structures
    MaxPayload,     \* bound: the payload of one pbuf
    NoBuf           \* NULL

ASSUME PbufAssumption ==
    /\ IsFiniteSet(Holder) /\ IsFiniteSet(PBUF)
    /\ NoBuf \notin PBUF /\ MaxPayload \in Nat

VARIABLES
    next, ref, len, tot_len,     \* the fields of every pbuf
    payload,                     \* and how far its payload pointer has moved
    alloc_src,                   \* where its memory comes from, or "none"
    pp_rx_pool_usage,
    hand,           \* buf->p of every holder
    doing,          \* what it does: "app", "free", "release", "recycle", "alloc" or "header"
    cursor,         \* p, the pbuf that pbuf_free has reached
    then,           \* where pbuf_free returns to
    free_left       \* the local of pbuf_free_header

pbufVars == <<next, ref, len, tot_len, payload, alloc_src, pp_rx_pool_usage>>
holderVars == <<hand, doing, cursor, then, free_left>>
allVars == <<pbufVars, holderVars>>

AllocSrc == {"memp", "esp_rx"}    \* a pool or the heap; a buffer of the driver
Live(b) == alloc_src[b] # "none"

PbufInit ==
    /\ next = [b \in PBUF |-> NoBuf]
    /\ ref = [b \in PBUF |-> 0]
    /\ len = [b \in PBUF |-> 0]
    /\ tot_len = [b \in PBUF |-> 0]
    /\ payload = [b \in PBUF |-> 0]
    /\ alloc_src = [b \in PBUF |-> "none"]
    /\ pp_rx_pool_usage = 0
    /\ hand = [h \in Holder |-> NoBuf]
    /\ doing = [h \in Holder |-> "app"]
    /\ cursor = [h \in Holder |-> NoBuf]
    /\ then = [h \in Holder |-> "app"]
    /\ free_left = [h \in Holder |-> 0]
-----------------------------------------------------------------------------
(* A holder starts pbuf_free(b), which may be of NULL, and goes on with     *)
(* after when that returns.                                                 *)
StartFree(h, b, after) ==
    /\ cursor' = [cursor EXCEPT ![h] = b]
    /\ then' = [then EXCEPT ![h] = IF b = NoBuf THEN "app" ELSE after]
    /\ doing' = [doing EXCEPT ![h] = IF b = NoBuf THEN after ELSE "free"]

(* netbuf_free and netbuf_delete.                                           *)
netbuf_free(h) ==
    /\ doing[h] = "app" /\ hand[h] # NoBuf
    /\ hand' = [hand EXCEPT ![h] = NoBuf]
    /\ StartFree(h, hand[h], "app")
    /\ UNCHANGED <<pbufVars, free_left>>

(* netbuf_alloc and netbuf_ref free what the netbuf had, then allocate.     *)
netbuf_alloc(h) ==
    /\ doing[h] = "app"
    /\ hand' = [hand EXCEPT ![h] = NoBuf]
    /\ StartFree(h, hand[h], "alloc")
    /\ UNCHANGED <<pbufVars, free_left>>

(* pbuf_alloc, or a packet of the driver: one pbuf, or NULL.                *)
pbuf_alloc(h, src, n) ==
    /\ doing[h] = "alloc"
    /\ doing' = [doing EXCEPT ![h] = "app"]
    /\ \/ /\ \E b \in {b \in PBUF : ~Live(b)} :
                /\ alloc_src' = [alloc_src EXCEPT ![b] = src]
                /\ next' = [next EXCEPT ![b] = NoBuf]
                /\ ref' = [ref EXCEPT ![b] = 1]
                /\ len' = [len EXCEPT ![b] = n]
                /\ tot_len' = [tot_len EXCEPT ![b] = n]
                /\ payload' = [payload EXCEPT ![b] = 0]
                /\ hand' = [hand EXCEPT ![h] = b]
          /\ pp_rx_pool_usage' = pp_rx_pool_usage + IF src = "esp_rx" THEN 1 ELSE 0
       \/ UNCHANGED <<pbufVars, hand>>
    /\ UNCHANGED <<cursor, then, free_left>>

(* Where i - 1 steps along next lead from b.                                *)
Walk(b) ==
    LET at[i \in 1 .. Cardinality(PBUF)] ==
            IF i = 1 THEN b ELSE IF at[i - 1] = NoBuf THEN NoBuf ELSE next[at[i - 1]]
    IN  at

(* The pbufs of the chain that starts at b, as a sequence.                  *)
Chain(b) ==
    LET at == Walk(b)
        n == Cardinality({i \in 1 .. Cardinality(PBUF) : at[i] # NoBuf})
    IN  [i \in 1 .. n |-> at[i]]
InChain(b) == {Chain(b)[i] : i \in DOMAIN Chain(b)}

(* pbuf_chain: the packet of h gets that of g as its tail, which both then  *)
(* refer to.                                                                *)
pbuf_chain(h, g) ==
    LET head == hand[h]
        tail == hand[g]
    IN  /\ doing[h] = "app" /\ doing[g] = "app"
        /\ head # NoBuf /\ tail # NoBuf
        /\ InChain(head) \cap InChain(tail) = {}
        /\ next' = [b \in PBUF |-> IF b \in InChain(head) /\ next[b] = NoBuf THEN tail
                                   ELSE next[b]]
        /\ tot_len' = [b \in PBUF |-> IF b \in InChain(head) THEN tot_len[b] + tot_len[tail]
                                      ELSE tot_len[b]]
        /\ ref' = [ref EXCEPT ![tail] = @ + 1]
        /\ \A b \in InChain(head) : ref[b] = 1
        /\ UNCHANGED <<len, payload, alloc_src, pp_rx_pool_usage, holderVars>>

(* pbuf_ref: another holder gets the same packet.                           *)
pbuf_ref(h, g) ==
    /\ doing[h] = "app" /\ doing[g] = "app"
    /\ hand[h] # NoBuf /\ hand[g] = NoBuf
    /\ hand' = [hand EXCEPT ![g] = hand[h]]
    /\ ref' = [ref EXCEPT ![hand[h]] = @ + 1]
    /\ UNCHANGED <<next, len, tot_len, payload, alloc_src, pp_rx_pool_usage, doing, cursor,
                   then, free_left>>
-----------------------------------------------------------------------------
(* Where pbuf_free goes on: with the next pbuf, or back to its caller.      *)
FreeNext(h, b) ==
    /\ cursor' = [cursor EXCEPT ![h] = b]
    /\ doing' = [doing EXCEPT ![h] = IF b = NoBuf THEN then[h] ELSE "free"]
    /\ then' = [then EXCEPT ![h] = IF b = NoBuf THEN "app" ELSE @]

AlwaysReleased(count) == TRUE    \* mutant
LastReference(count) == count = 0

(* One iteration of pbuf_free: the count goes down; the last one releases   *)
(* the pbuf, and its reference to the next one is dropped in turn.          *)
pbuf_free(h) ==
    LET b == cursor[h]
    IN  /\ doing[h] = "free"
        /\ ref' = [ref EXCEPT ![b] = @ - 1]
        /\ IF LastReference(ref[b] - 1)
           THEN /\ doing' = [doing EXCEPT ![h] = IF alloc_src[b] = "esp_rx" THEN "recycle"
                                                 ELSE "release"]
                /\ UNCHANGED <<cursor, then>>
           ELSE FreeNext(h, NoBuf)
        /\ UNCHANGED <<next, len, tot_len, payload, alloc_src, pp_rx_pool_usage, hand,
                       free_left>>

(* pp_recycle_rx_pbuf gives the driver its buffer back.                     *)
pp_recycle_rx_pbuf(h) ==
    /\ doing[h] = "recycle"
    /\ pp_rx_pool_usage' = pp_rx_pool_usage - 1
    /\ doing' = [doing EXCEPT ![h] = "release"]
    /\ UNCHANGED <<next, ref, len, tot_len, payload, alloc_src, hand, cursor, then, free_left>>

AfterRelease(b) == next[b]

memp_free(h) ==
    /\ doing[h] = "release"
    /\ alloc_src' = [alloc_src EXCEPT ![cursor[h]] = "none"]
    /\ next' = [next EXCEPT ![cursor[h]] = NoBuf]    \* the contents are gone
    /\ len' = [len EXCEPT ![cursor[h]] = 0]
    /\ tot_len' = [tot_len EXCEPT ![cursor[h]] = 0]
    /\ payload' = [payload EXCEPT ![cursor[h]] = 0]
    /\ FreeNext(h, AfterRelease(cursor[h]))
    /\ UNCHANGED <<ref, pp_rx_pool_usage, hand, free_left>>
-----------------------------------------------------------------------------
(* pbuf_free_header(p, size), which lwip_recv_tcp calls on a packet that is *)
(* its own: a pbuf that is used up is cut off and freed, the next one is    *)
(* shortened.                                                               *)
Own(h) == \A b \in InChain(hand[h]) : ref[b] = 1

pbuf_free_header(h, size) ==
    /\ doing[h] = "app" /\ hand[h] # NoBuf /\ Own(h)
    /\ size <= tot_len[hand[h]]
    /\ free_left' = [free_left EXCEPT ![h] = size]
    /\ doing' = [doing EXCEPT ![h] = "header"]
    /\ UNCHANGED <<pbufVars, hand, cursor, then>>

CutOff(b) == [next EXCEPT ![b] = NoBuf]

pbuf_free_header_cut(h) ==
    LET b == hand[h]
    IN  /\ doing[h] = "header" /\ free_left[h] > 0 /\ b # NoBuf
        /\ free_left[h] >= len[b]
        /\ free_left' = [free_left EXCEPT ![h] = @ - len[b]]
        /\ hand' = [hand EXCEPT ![h] = next[b]]
        /\ next' = CutOff(b)
        /\ StartFree(h, b, "header")
        /\ UNCHANGED <<ref, len, tot_len, payload, alloc_src, pp_rx_pool_usage>>

ShortenTotal(b, n) == tot_len' = [tot_len EXCEPT ![b] = @ - n]

PayloadStays(b, n) == UNCHANGED payload    \* mutant
MovePayload(b, n) == payload' = [payload EXCEPT ![b] = @ + n]

pbuf_remove_header(h) ==
    LET b == hand[h]
    IN  /\ doing[h] = "header" /\ free_left[h] > 0 /\ b # NoBuf
        /\ free_left[h] < len[b]
        /\ len' = [len EXCEPT ![b] = @ - free_left[h]]
        /\ ShortenTotal(b, free_left[h])
        /\ MovePayload(b, free_left[h])
        /\ free_left' = [free_left EXCEPT ![h] = 0]
        /\ UNCHANGED <<next, ref, alloc_src, pp_rx_pool_usage, hand, doing, cursor, then>>

pbuf_free_header_done(h) ==
    /\ doing[h] = "header" /\ (free_left[h] = 0 \/ hand[h] = NoBuf)
    /\ free_left' = [free_left EXCEPT ![h] = 0]
    /\ doing' = [doing EXCEPT ![h] = "app"]
    /\ UNCHANGED <<pbufVars, hand, cursor, then>>
-----------------------------------------------------------------------------
(* The bytes of pbuf b that payload and len delimit; those of a whole chain. *)
Bytes(b) == [i \in 1 .. len[b] |-> <<b, payload[b] + i>>]

Concat(chain) ==
    LET upTo[i \in 0 .. Len(chain)] ==
            IF i = 0 THEN << >> ELSE upTo[i - 1] \o Bytes(chain[i])
    IN  upTo[Len(chain)]
Contents(b) == Concat(Chain(b))

KeepOffset(offset) == offset    \* mutant
OffsetAfterCopy(offset) == 0

(* pbuf_copy_partial(buf, dataptr, n, offset): what is at dataptr after the  *)
(* loop over the chain, which skips pbufs that end before the offset.       *)
pbuf_copy_partial(buf, n, offset) ==
    LET chain == Chain(buf)
        loop[i \in 0 .. Len(chain)] ==
            IF i = 0 THEN [data |-> << >>, left |-> n, offset |-> offset]
            ELSE LET s == loop[i - 1]
                     p == Bytes(chain[i])
                     got == SubSeq(p, s.offset + 1,
                                   IF s.left < Len(p) - s.offset THEN s.offset + s.left
                                   ELSE Len(p))
                 IN  IF s.left = 0 THEN s
                     ELSE IF s.offset # 0 /\ s.offset >= Len(p)
                     THEN [s EXCEPT !.offset = @ - Len(p)]
                     ELSE [data |-> s.data \o got, left |-> s.left - Len(got),
                           offset |-> OffsetAfterCopy(s.offset)]
    IN  loop[Len(chain)].data
-----------------------------------------------------------------------------
PbufNext ==
    \E h \in Holder :
        \/ netbuf_free(h)
        \/ netbuf_alloc(h)
        \/ \E src \in AllocSrc, n \in 1 .. MaxPayload : pbuf_alloc(h, src, n)
        \/ \E g \in Holder : pbuf_chain(h, g) \/ pbuf_ref(h, g)
        \/ pbuf_free(h)
        \/ pp_recycle_rx_pbuf(h)
        \/ memp_free(h)
        \/ \E size \in 0 .. MaxPayload * Cardinality(PBUF) : pbuf_free_header(h, size)
        \/ pbuf_free_header_cut(h)
        \/ pbuf_remove_header(h)
        \/ pbuf_free_header_done(h)

PbufSpec == PbufInit /\ [][PbufNext]_allVars
-----------------------------------------------------------------------------
(* Who refers to pbuf b: holders, those that free it, and the pbuf before   *)
(* it in a chain, as long as that one counts.                               *)
HeldBy(b) == {h \in Holder : hand[h] = b}
FreedBy(b) == {h \in Holder : cursor[h] = b /\ doing[h] = "free"}
Before(b) == {x \in PBUF : Live(x) /\ next[x] = b}
References(b) ==
    Cardinality(HeldBy(b)) + Cardinality(FreedBy(b)) + Cardinality(Before(b))

DriverBuffers ==
    {b \in PBUF : /\ alloc_src[b] = "esp_rx"
                  /\ ~ \E h \in Holder : cursor[h] = b /\ doing[h] = "release"}

(* The count of a pbuf is the number of references to it, while packets are *)
(* shared, chained, cut and freed by several tasks: a pbuf is released when *)
(* the last one goes, not before and not twice, and none is lost.  So each  *)
(* buffer of the driver goes back once: pp_rx_pool_usage is exact.          *)
RefsAreExact ==
    /\ \A b \in PBUF :
          IF Live(b) THEN ref[b] = References(b) ELSE References(b) = 0
    /\ pp_rx_pool_usage = Cardinality(DriverBuffers)

(* What pbuf_copy_partial reads is the part of the packet that was asked    *)
(* for, whatever way it is cut into pbufs, and tot_len, which lwip_recv_tcp *)
(* and netconn_recv trust for what is left to read, is its length.          *)
ReadsAreExact ==
    \A h \in Holder : hand[h] # NoBuf =>
        LET bytes == Contents(hand[h])
        IN  /\ tot_len[hand[h]] = Len(bytes)
            /\ \A n, offset \in 0 .. Len(bytes) :
                  pbuf_copy_partial(hand[h], n, offset) =
                  SubSeq(bytes, offset + 1,
                         IF offset + n < Len(bytes) THEN offset + n ELSE Len(bytes))

(* What pbuf_free_header leaves when it is done.                            *)
Remaining(h) ==
    IF hand[h] = NoBuf THEN << >>
    ELSE SubSeq(Contents(hand[h]), free_left[h] + 1, tot_len[hand[h]])

(* pbuf_free_header takes away the bytes it was told to and no other, in    *)
(* all its iterations over whole pbufs and the last one inside a pbuf, while *)
(* pbuf_free runs in between and other tasks go on with their packets.      *)
HeadersAreCutExactly ==
    [][\A h \in Holder : "header" \in {doing[h], then[h]} => Remaining(h)' = Remaining(h)]_allVars
===============================================================================
