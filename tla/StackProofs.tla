------------------------------ MODULE StackProofs ------------------------------
(***************************************************************************)
(* Proofs about the two structures of the network stack that MCStack        *)
(* explores: Pbuf for any number of holders and pbufs and any size, and     *)
(* Sockets for any number of tasks, slots, netconns and buffers.            *)
(***************************************************************************)
EXTENDS Sockets, Pbuf, WellFoundedInduction, FiniteSetTheorems, SequenceTheorems,
        TLAPS

(* A holder is inside pbuf_free, or has released a pbuf there and not gone  *)
(* on yet.                                                                  *)
Freeing(h) == doing[h] \in {"free", "release", "recycle"}
Releasing(h) == doing[h] \in {"release", "recycle"}

(* The types of what counts, links and places depend on.                    *)
PbufTypeOK ==
    /\ next \in [PBUF -> PBUF \cup {NoBuf}]
    /\ ref \in [PBUF -> Int]
    /\ alloc_src \in [PBUF -> AllocSrc \cup {"none"}]
    /\ pp_rx_pool_usage \in Int
    /\ hand \in [Holder -> PBUF \cup {NoBuf}]
    /\ cursor \in [Holder -> PBUF \cup {NoBuf}]
    /\ doing \in [Holder -> {"app", "free", "release", "recycle", "alloc", "header"}]
    /\ then \in [Holder -> {"app", "alloc", "header"}]

(* Where a holder stands tells what it has: a pbuf on its way out is in one *)
(* hand only and counted down to zero, and one that is recycled is of the   *)
(* driver.                                                                  *)
PlacesFit ==
    \A h \in Holder :
        /\ Freeing(h) => cursor[h] # NoBuf
        /\ doing[h] = "alloc" \/ (Freeing(h) /\ then[h] = "alloc") => hand[h] = NoBuf
        /\ Releasing(h) => /\ Live(cursor[h]) /\ ref[cursor[h]] = 0
                           /\ \A g \in Holder \ {h} :
                                 Releasing(g) => cursor[g] # cursor[h]
        /\ doing[h] = "recycle" => alloc_src[cursor[h]] = "esp_rx"

(* The inductive invariant.                                                 *)
PInv == PbufTypeOK /\ PlacesFit /\ RefsAreExact

(* The least of a set of numbers. *)
LEMMA LeastNumber ==
    ASSUME NEW S, S \subseteq Nat, S # {}
    PROVE  \E n \in S : \A m \in S : n <= m
  <1>1. PICK x \in S : \A y \in S : ~ (<<y, x>> \in OpToRel(<, Nat))
        BY NatLessThanWellFounded, WFMin, Zenon
  <1>2. \A y \in S : x <= y
    <2> TAKE y \in S
    <2>1. <<y, x>>[1] = y /\ <<y, x>>[2] = x /\ <<y, x>> \in Nat \X Nat OBVIOUS
    <2>2. ~ (y < x) BY <1>1, <2>1, Zenon DEF OpToRel
    <2> QED BY <2>2
  <1> QED BY <1>2

(* What holds at a, and at i + 1 if at i, holds up to m: the numbers at     *)
(* which it holds are given as a set.                                       *)
LEMMA Upward ==
    ASSUME NEW a \in Int, NEW m \in Int, NEW S, a <= m => a \in S,
           \A i \in a .. m - 1 : i \in S => i + 1 \in S
    PROVE  \A i \in a .. m : i \in S
  <1> DEFINE Bad == {k \in Nat : a + k <= m /\ a + k \notin S}
  <1>1. Bad = {}
    <2> SUFFICES ASSUME Bad # {} PROVE FALSE OBVIOUS
    <2>1. PICK k \in Bad : \A j \in Bad : k <= j
      <3>1. Bad \subseteq Nat OBVIOUS
      <3> HIDE DEF Bad
      <3> QED BY <3>1, LeastNumber
    <2>2. k \in Nat /\ a + k <= m /\ a + k \notin S OBVIOUS
    <2>3. k # 0 BY <2>2
    <2>4. k - 1 \in Nat /\ ~(k <= k - 1) /\ a + (k - 1) \in a .. m - 1 /\ (a + (k - 1)) + 1 = a + k
          BY <2>2, <2>3
    <2>5. a + (k - 1) \in S BY <2>1, <2>4
    <2> QED BY <2>2, <2>4, <2>5
  <1>2. ASSUME NEW i \in a .. m PROVE i \in S
    <2>1. i - a \in Nat /\ a + (i - a) = i BY <1>2
    <2>2. i - a \notin Bad BY <1>1
    <2> QED BY <1>2, <2>1, <2>2
  <1> QED BY <1>2

(* Links between pbufs, and how many pbufs there are.                       *)
Size == Cardinality(PBUF)
Links == [PBUF -> PBUF \cup {NoBuf}]

(* There are finitely many pbufs.                                           *)
LEMMA SizeType == Size \in Nat
  BY PbufAssumption, FS_CardinalityType DEF Size

(* Walk and Chain for any links.                                            *)
StepFrom(nx, f, i, b) ==
    IF i = 1 THEN b ELSE IF f[i - 1] = NoBuf THEN NoBuf ELSE nx[f[i - 1]]
WalkOf(nx, b) == CHOOSE f : f = [i \in 1 .. Size |-> StepFrom(nx, f, i, b)]
ChainOf(nx, b) ==
    [i \in 1 .. Cardinality({i \in 1 .. Size : WalkOf(nx, b)[i] # NoBuf}) |-> WalkOf(nx, b)[i]]

(* They are those of the model when the links are next.                     *)
LEMMA ChainIsChainOf == ASSUME NEW b PROVE Chain(b) = ChainOf(next, b)
  <1>1. Walk(b) = WalkOf(next, b) BY DEF Walk, WalkOf, StepFrom, Size
  <1> QED BY <1>1 DEF Chain, ChainOf, Size

(* A walk, a recursive function, is what its definition says: that such a   *)
(* function exists is shown by adding one step at a time.                   *)
LEMMA WalkSteps ==
    ASSUME NEW nx, NEW b
    PROVE  \A i \in 1 .. Size : WalkOf(nx, b)[i] = StepFrom(nx, WalkOf(nx, b), i, b)
  <1>1. \E f : f = [i \in 1 .. Size |-> StepFrom(nx, f, i, b)]
    <2> DEFINE Has(k) == \E f : f = [i \in 1 .. k |-> StepFrom(nx, f, i, b)]
               Good == {k \in 0 .. Size : Has(k)}
    <2>1. Has(0)
      <3> DEFINE g == [i \in 1 .. 0 |-> b]
      <3>1. g = [i \in 1 .. 0 |-> StepFrom(nx, g, i, b)] OBVIOUS
      <3> QED BY <3>1
    <2>2. ASSUME NEW j \in 0 .. Size - 1, Has(j) PROVE Has(j + 1)
      <3>1. PICK f : f = [i \in 1 .. j |-> StepFrom(nx, f, i, b)] BY <2>2
      <3> DEFINE k == j + 1
                 g == [i \in 1 .. k |-> IF i = k THEN StepFrom(nx, f, k, b) ELSE f[i]]
      <3>2. \A i \in 1 .. j : g[i] = f[i] OBVIOUS
      <3>3. \A i \in 1 .. k : StepFrom(nx, g, i, b) = StepFrom(nx, f, i, b)
            BY <3>2 DEF StepFrom
      <3>4. \A i \in 1 .. j : f[i] = StepFrom(nx, f, i, b) BY <3>1
      <3>5. \A i \in 1 .. k : g[i] = StepFrom(nx, g, i, b)
        <4> TAKE i \in 1 .. k
        <4>1. CASE i = k BY <3>3, <4>1
        <4>2. CASE i # k
          <5>1. i \in 1 .. j BY <4>2
          <5> QED BY <3>2, <3>3, <3>4, <5>1
        <4> QED BY <4>1, <4>2
      <3>6. g = [i \in 1 .. k |-> StepFrom(nx, g, i, b)] BY <3>5
      <3> HIDE DEF g
      <3> QED BY <3>6
    <2> HIDE DEF Has
    <2>0. Size \in Nat BY SizeType
    <2>3. 0 \in Good /\ \A i \in 0 .. Size - 1 : i \in Good => i + 1 \in Good BY <2>0, <2>1, <2>2
    <2>4. Size \in Good
      <3> HIDE DEF Good
      <3>1. \A i \in 0 .. Size : i \in Good BY <2>0, <2>3, Upward
      <3> QED BY <2>0, <3>1
    <2> QED BY <2>4 DEF Has
  <1>2. WalkOf(nx, b) = [i \in 1 .. Size |-> StepFrom(nx, WalkOf(nx, b), i, b)]
        BY <1>1, Zenon DEF WalkOf
  <1> QED BY <1>2

(* A walk meets pbufs until it has ended.                                   *)
LEMMA WalkTypes ==
    ASSUME NEW nx \in Links, NEW b \in PBUF
    PROVE  \A i \in 1 .. Size : WalkOf(nx, b)[i] \in PBUF \cup {NoBuf}
  <1> DEFINE at == WalkOf(nx, b)
             Good == {i \in 1 .. Size : at[i] \in PBUF \cup {NoBuf}}
  <1>1. 1 <= Size => 1 \in Good
    <2> HAVE 1 <= Size
    <2>1. 1 \in 1 .. Size BY SizeType
    <2> QED BY <2>1, WalkSteps DEF StepFrom
  <1>2. ASSUME NEW i \in 1 .. Size - 1, i \in Good PROVE i + 1 \in Good
    <2>1. i + 1 \in 1 .. Size /\ i + 1 # 1 /\ (i + 1) - 1 = i BY SizeType
    <2>2. at[i + 1] = StepFrom(nx, at, i + 1, b) BY <2>1, WalkSteps
    <2> HIDE DEF at
    <2> QED BY <1>2, <2>1, <2>2 DEF StepFrom, Links
  <1>3. \A i \in 1 .. Size : i \in Good
    <2> HIDE DEF Good
    <2> QED BY <1>1, <1>2, SizeType, Upward
  <1> QED BY <1>3

(* A chain is the walk up to where it ends.                                 *)
LEMMA ChainIsWalk ==
    ASSUME NEW nx \in Links, NEW b \in PBUF
    PROVE  \E k, at :
              /\ k \in 1 .. Size
              /\ ChainOf(nx, b) = [i \in 1 .. k |-> at[i]]
              /\ \A i \in 1 .. k : at[i] \in PBUF
              /\ at[1] = b
              /\ \A i \in 1 .. k : i < k => at[i + 1] = nx[at[i]]
              /\ k < Size => nx[at[k]] = NoBuf
  <1> DEFINE at == WalkOf(nx, b)
             Ends == {i \in 1 .. Size : at[i] = NoBuf}
             Full == {i \in 1 .. Size : at[i] # NoBuf}
  <1>1. Size \in Nat /\ Size > 0
    <2>1. PBUF # {} OBVIOUS
    <2> QED BY <2>1, SizeType, PbufAssumption, FS_EmptySet DEF Size
  <1>2. at[1] = b BY <1>1, WalkSteps DEF StepFrom
  <1>3. \A i \in 1 .. Size : at[i] \in PBUF \cup {NoBuf} BY WalkTypes
  <1>4. \A i \in 1 .. Size : i < Size =>
            at[i + 1] = IF at[i] = NoBuf THEN NoBuf ELSE nx[at[i]]
    <2> TAKE i \in 1 .. Size
    <2> HAVE i < Size
    <2>1. i + 1 \in 1 .. Size /\ i + 1 # 1 /\ (i + 1) - 1 = i BY <1>1
    <2> QED BY <2>1, WalkSteps DEF StepFrom
  <1> HIDE DEF at
  <1>5. PICK k \in 1 .. Size : Full = 1 .. k /\ (k < Size => at[k + 1] = NoBuf)
    <2>1. CASE Ends = {}
      <3>1. Full = 1 .. Size BY <2>1
      <3> QED BY <1>1, <3>1
    <2>2. CASE Ends # {}
      <3>1. PICK e \in Ends : \A j \in Ends : e <= j
        <4>1. Ends \subseteq Nat BY <1>1
        <4> HIDE DEF Ends
        <4> QED BY <2>2, <4>1, LeastNumber
      <3>2. e \in 1 .. Size /\ at[e] = NoBuf OBVIOUS
      <3>3. e # 1 BY <1>2, <3>2, PbufAssumption
      <3>4. \A i \in e .. Size : i \in Ends
        <4>1. ASSUME NEW i \in e .. Size - 1, i \in Ends PROVE i + 1 \in Ends
          <5>1. i + 1 \in 1 .. Size /\ i < Size BY <1>1, <3>2
          <5> QED BY <1>4, <4>1, <5>1
        <4>2. e \in Int /\ Size \in Int BY <1>1, <3>2
        <4> HIDE DEF Ends
        <4> QED BY <4>1, <4>2, Upward
      <3>5. \A i \in 1 .. Size : i < e => at[i] # NoBuf
        <4> TAKE i \in 1 .. Size
        <4> HAVE i < e
        <4>1. i \notin Ends BY <1>1, <3>1, <3>2
        <4> QED BY <4>1
      <3>6. Full = 1 .. e - 1 BY <1>1, <3>2, <3>4, <3>5
      <3>7. e - 1 \in 1 .. Size /\ (e - 1) + 1 = e BY <1>1, <3>2, <3>3
      <3> QED BY <3>2, <3>6, <3>7
    <2> QED BY <2>1, <2>2
  <1>6. Cardinality(Full) = k
    <2>1. k \in Int /\ 1 \in Int /\ ~(1 > k) BY <1>1
    <2>2. Cardinality(1 .. k) = k - 1 + 1 BY <2>1, FS_Interval
    <2>3. Full = 1 .. k BY <1>5
    <2> HIDE DEF Full
    <2> QED BY <2>1, <2>2, <2>3
  <1>7. ChainOf(nx, b) = [i \in 1 .. k |-> at[i]] BY <1>6, Zenon DEF ChainOf, at
  <1>8. \A i \in 1 .. k : i \in 1 .. Size /\ at[i] \in PBUF
    <2>1. \A i \in 1 .. k : i \in Full BY <1>5
    <2> QED BY <1>3, <2>1
  <1>9. \A i \in 1 .. k : i < k => at[i + 1] = nx[at[i]]
    <2> TAKE i \in 1 .. k
    <2> HAVE i < k
    <2>1. i \in 1 .. Size /\ i < Size BY <1>1, <1>5
    <2> QED BY <1>4, <1>8, <2>1, PbufAssumption
  <1>10. k < Size => nx[at[k]] = NoBuf
    <2> HAVE k < Size
    <2>1. k \in 1 .. k /\ k \in 1 .. Size BY <1>1
    <2> QED BY <1>4, <1>5, <1>8, <2>1, PbufAssumption
  <1> QED BY <1>2, <1>7, <1>8, <1>9, <1>10

(* What one holder and one link contribute to a number of references, and   *)
(* the invariant for one pbuf.                                              *)
Same(a, b) == IF a = b THEN 1 ELSE 0
Within(a, s) == IF a \in s THEN 1 ELSE 0
Frees(h, b) == IF cursor[h] = b /\ doing[h] = "free" THEN 1 ELSE 0
Link(x, b) == IF Live(x) /\ next[x] = b THEN 1 ELSE 0

Counted(b) == IF Live(b) THEN ref[b] = References(b) ELSE References(b) = 0

(* The size of a set of which one element came or went.                     *)
LEMMA OneChanges ==
    ASSUME NEW S, NEW T, NEW x, IsFiniteSet(S), T \ {x} = S \ {x}
    PROVE  /\ IsFiniteSet(T) /\ Cardinality(S) \in Nat /\ Cardinality(T) \in Nat
           /\ Cardinality(T) = Cardinality(S) - Within(x, S) + Within(x, T)
  <1>1. Cardinality(S) \in Nat BY FS_CardinalityType
  <1>2. CASE T = S BY <1>1, <1>2 DEF Within
  <1>3. CASE x \in S /\ x \notin T
    <2>1. T = S \ {x} BY <1>3
    <2>2. IsFiniteSet(T) /\ Cardinality(T) = Cardinality(S) - 1 BY <1>3, <2>1, FS_RemoveElement
    <2>3. Cardinality(T) \in Nat BY <2>2, FS_CardinalityType
    <2> QED BY <1>1, <1>3, <2>2, <2>3 DEF Within
  <1>4. CASE x \notin S /\ x \in T
    <2>1. T = S \cup {x} BY <1>4
    <2>2. IsFiniteSet(T) /\ Cardinality(T) = Cardinality(S) + 1 BY <1>4, <2>1, FS_AddElement
    <2> QED BY <1>1, <1>4, <2>2 DEF Within
  <1>5. T = S \/ (x \in S /\ x \notin T) \/ (x \notin S /\ x \in T) OBVIOUS
  <1> QED BY <1>2, <1>3, <1>4, <1>5

(* References are finitely many.                                            *)
LEMMA FiniteReferences ==
    ASSUME NEW b
    PROVE  /\ IsFiniteSet(HeldBy(b)) /\ IsFiniteSet(FreedBy(b)) /\ IsFiniteSet(Before(b))
           /\ Cardinality(HeldBy(b)) \in Nat /\ Cardinality(FreedBy(b)) \in Nat
           /\ Cardinality(Before(b)) \in Nat /\ References(b) \in Nat
  <1>1. HeldBy(b) \subseteq Holder /\ FreedBy(b) \subseteq Holder /\ Before(b) \subseteq PBUF
        BY DEF HeldBy, FreedBy, Before
  <1>2. IsFiniteSet(HeldBy(b)) /\ IsFiniteSet(FreedBy(b)) /\ IsFiniteSet(Before(b))
        BY <1>1, PbufAssumption, FS_Subset
  <1> QED BY <1>2, FS_CardinalityType DEF References

(* A pbuf that somebody refers to is live and has a count.                  *)
LEMMA Referred ==
    ASSUME PInv, NEW b \in PBUF, NEW x,
           x \in HeldBy(b) \/ x \in FreedBy(b) \/ x \in Before(b)
    PROVE  Live(b) /\ ref[b] >= 1 /\ ref[b] = References(b)
  <1>1. \A S : IsFiniteSet(S) /\ x \in S => Cardinality(S) # 0 BY FS_EmptySet
  <1>2. References(b) # 0 BY <1>1, FiniteReferences DEF References
  <1>3. Live(b) /\ ref[b] = References(b) BY <1>2 DEF PInv, RefsAreExact
  <1> QED BY <1>2, <1>3, FiniteReferences

(* A single reference is a holder or one link.                              *)
LEMMA Alone ==
    ASSUME NEW b, References(b) = 1
    PROVE  /\ HeldBy(b) = {} \/ Before(b) = {}
           /\ \A x, y \in Before(b) : x = y
  <1>1. \A S : IsFiniteSet(S) /\ S # {} => Cardinality(S) >= 1
        BY FS_EmptySet, FS_CardinalityType
  <1>2. \A S, u, v : IsFiniteSet(S) /\ Cardinality(S) = 1 /\ u \in S /\ v \in S => u = v
        BY FS_Singleton
  <1>3. /\ HeldBy(b) # {} => Cardinality(HeldBy(b)) >= 1
        /\ Before(b) # {} => Cardinality(Before(b)) >= 1
        BY <1>1, FiniteReferences
  <1>4. Cardinality(HeldBy(b)) + Cardinality(FreedBy(b)) + Cardinality(Before(b)) = 1
        BY DEF References
  <1>5. HeldBy(b) = {} \/ Before(b) = {} BY <1>3, <1>4, FiniteReferences
  <1>6. Before(b) # {} => Cardinality(Before(b)) = 1 BY <1>3, <1>4, FiniteReferences
  <1>7. \A x, y \in Before(b) : x = y BY <1>2, <1>6, FiniteReferences
  <1> QED BY <1>5, <1>7

(* A step that changes the hand of h: how often a pbuf is held.             *)
LEMMA HeldAfter ==
    ASSUME PbufTypeOK, NEW h \in Holder, NEW n, hand' = [hand EXCEPT ![h] = n], NEW b
    PROVE  Cardinality(HeldBy(b)') = Cardinality(HeldBy(b)) - Same(hand[h], b) + Same(n, b)
  <1>1. HeldBy(b)' \ {h} = HeldBy(b) \ {h} BY DEF HeldBy, PbufTypeOK
  <1>2. (h \in HeldBy(b) <=> hand[h] = b) /\ (h \in HeldBy(b)' <=> n = b)
        BY DEF HeldBy, PbufTypeOK
  <1>3. Cardinality(HeldBy(b)') =
            Cardinality(HeldBy(b)) - Within(h, HeldBy(b)) + Within(h, HeldBy(b)')
        BY <1>1, FiniteReferences, OneChanges
  <1> QED BY <1>2, <1>3 DEF Same, Within

(* A step of h: how often a pbuf is being freed.                            *)
LEMMA FreedAfter ==
    ASSUME NEW h \in Holder, NEW b,
           \A g \in Holder \ {h} : cursor'[g] = cursor[g] /\ doing'[g] = doing[g]
    PROVE  Cardinality(FreedBy(b)') =
               Cardinality(FreedBy(b)) - Frees(h, b) + Frees(h, b)'
  <1>1. FreedBy(b)' \ {h} = FreedBy(b) \ {h} BY DEF FreedBy
  <1>2. \A k : Frees(k, b) \in {0, 1} /\ Frees(k, b)' \in {0, 1} BY DEF Frees
  <1>3. Cardinality(FreedBy(b)') =
            Cardinality(FreedBy(b)) - Within(h, FreedBy(b)) + Within(h, FreedBy(b)')
        BY <1>1, FiniteReferences, OneChanges
  <1> QED BY <1>2, <1>3 DEF Frees, FreedBy, Within

(* A step that changes one pbuf: how many links lead to b.                  *)
LEMMA BeforeAfter ==
    ASSUME NEW x \in PBUF, NEW b,
           \A y \in PBUF \ {x} : next'[y] = next[y] /\ alloc_src'[y] = alloc_src[y]
    PROVE  Cardinality(Before(b)') =
               Cardinality(Before(b)) - Link(x, b) + Link(x, b)'
  <1>1. Before(b)' \ {x} = Before(b) \ {x} BY DEF Before, Live
  <1>2. \A k : Link(k, b) \in {0, 1} /\ Link(k, b)' \in {0, 1} BY DEF Link
  <1>3. Cardinality(Before(b)') =
            Cardinality(Before(b)) - Within(x, Before(b)) + Within(x, Before(b)')
        BY <1>1, FiniteReferences, OneChanges
  <1> QED BY <1>2, <1>3 DEF Link, Before, Within

(* The step is of h as far as freeing goes.                                 *)
OthersFree(h) ==
    \A g \in Holder \ {h} : cursor'[g] = cursor[g] /\ doing'[g] = doing[g] /\ then'[g] = then[g]

(* References after a step of h that changes neither links nor pbufs.       *)
LEMMA HolderMoves ==
    ASSUME PInv, NEW h \in Holder, NEW n \in PBUF \cup {NoBuf}, hand' = [hand EXCEPT ![h] = n],
           OthersFree(h), UNCHANGED <<next, alloc_src>>, NEW b
    PROVE  References(b)' = References(b) - Same(hand[h], b) + Same(n, b)
                                          - Frees(h, b) + Frees(h, b)'
  <1>1. Before(b)' = Before(b) BY DEF Before, Live
  <1>2. Cardinality(HeldBy(b)') = Cardinality(HeldBy(b)) - Same(hand[h], b) + Same(n, b)
        BY HeldAfter DEF PInv
  <1>3. Cardinality(FreedBy(b)') = Cardinality(FreedBy(b)) - Frees(h, b) + Frees(h, b)'
        BY FreedAfter DEF OthersFree
  <1>4. /\ Same(hand[h], b) \in {0, 1} /\ Same(n, b) \in {0, 1}
        /\ Frees(h, b) \in {0, 1} /\ Frees(h, b)' \in {0, 1}
        BY DEF Same, Frees
  <1>5. References(b)' = Cardinality(HeldBy(b)') + Cardinality(FreedBy(b)') + Cardinality(Before(b)')
        BY DEF References

  <1> QED BY <1>1, <1>2, <1>3, <1>4, <1>5, FiniteReferences DEF References

(* A step outside the release of pbufs leaves the buffers of the driver     *)
(* alone.                                                                   *)
LEMMA DriverStays ==
    ASSUME PInv, NEW h \in Holder, OthersFree(h), UNCHANGED <<alloc_src, pp_rx_pool_usage>>,
           doing[h] # "release", doing'[h] # "release"
    PROVE  pp_rx_pool_usage' = Cardinality(DriverBuffers')
  <1>1. DriverBuffers' = DriverBuffers BY DEF DriverBuffers, OthersFree
  <1> QED BY <1>1 DEF PInv, RefsAreExact

(* What the call of pbuf_free changes.                                      *)
LEMMA StartFreeFacts ==
    ASSUME PInv, NEW h \in Holder, NEW b \in PBUF \cup {NoBuf}, NEW after \in {"app", "alloc", "header"},
           doing[h] \in {"app", "header"}, StartFree(h, b, after)
    PROVE  /\ OthersFree(h)
           /\ cursor' \in [Holder -> PBUF \cup {NoBuf}] /\ cursor'[h] = b
           /\ doing' \in [Holder -> {"app", "free", "release", "recycle", "alloc", "header"}]
           /\ then' \in [Holder -> {"app", "alloc", "header"}]
           /\ IF b = NoBuf THEN doing'[h] = after /\ then'[h] = "app"
              ELSE doing'[h] = "free" /\ then'[h] = after
           /\ \A c \in PBUF : Frees(h, c)' = Same(b, c) /\ Frees(h, c) = 0
  <1>1. /\ cursor' = [cursor EXCEPT ![h] = b]
        /\ then' = [then EXCEPT ![h] = IF b = NoBuf THEN "app" ELSE after]
        /\ doing' = [doing EXCEPT ![h] = IF b = NoBuf THEN after ELSE "free"]
        BY DEF StartFree
  <1>2. OthersFree(h) BY <1>1 DEF OthersFree, PInv, PbufTypeOK
  <1>3. /\ cursor' \in [Holder -> PBUF \cup {NoBuf}] /\ cursor'[h] = b
        /\ then' \in [Holder -> {"app", "alloc", "header"}]
        /\ then'[h] = IF b = NoBuf THEN "app" ELSE after
        BY <1>1 DEF PInv, PbufTypeOK
  <1>4. /\ doing' \in [Holder -> {"app", "free", "release", "recycle", "alloc", "header"}]
        /\ doing'[h] = IF b = NoBuf THEN after ELSE "free"
        BY <1>1 DEF PInv, PbufTypeOK
  <1>5. \A c \in PBUF : Frees(h, c)' = Same(b, c) /\ Frees(h, c) = 0
        BY <1>3, <1>4, PbufAssumption DEF Frees, Same, PInv, PbufTypeOK
  <1> QED BY <1>2, <1>3, <1>4, <1>5

(* The invariant when the packet in hand is given to pbuf_free.             *)
LEMMA GiveUpHand ==
    ASSUME PInv, NEW h \in Holder, NEW after \in {"app", "alloc"}, doing[h] = "app",
           hand' = [hand EXCEPT ![h] = NoBuf], StartFree(h, hand[h], after), UNCHANGED pbufVars
    PROVE  PInv'
  <1> DEFINE b0 == hand[h]
  <1>1. b0 \in PBUF \cup {NoBuf} BY DEF PInv, PbufTypeOK
  <1>2. /\ OthersFree(h)
        /\ cursor' \in [Holder -> PBUF \cup {NoBuf}] /\ cursor'[h] = b0
        /\ doing' \in [Holder -> {"app", "free", "release", "recycle", "alloc", "header"}]
        /\ then' \in [Holder -> {"app", "alloc", "header"}]
        /\ IF b0 = NoBuf THEN doing'[h] = after /\ then'[h] = "app"
           ELSE doing'[h] = "free" /\ then'[h] = after
        /\ \A c \in PBUF : Frees(h, c)' = Same(b0, c) /\ Frees(h, c) = 0
        BY <1>1, StartFreeFacts
  <1>3. PbufTypeOK' BY <1>2 DEF PInv, PbufTypeOK, pbufVars
  <1>4. PlacesFit'
    <2>1. \A g \in Holder : hand'[g] = IF g = h THEN NoBuf ELSE hand[g] BY DEF PInv, PbufTypeOK
    <2>2. ~Releasing(h)' /\ doing'[h] # "recycle" /\ (Freeing(h)' => cursor'[h] # NoBuf)
          BY <1>2 DEF Releasing, Freeing
    <2> QED BY <1>2, <2>1, <2>2
            DEF PInv, PlacesFit, OthersFree, Freeing, Releasing, Live, pbufVars
  <1>5. ASSUME NEW b \in PBUF PROVE Counted(b)'
    <2>1. References(b)' = References(b) - Same(hand[h], b) + Same(NoBuf, b)
                                         - Frees(h, b) + Frees(h, b)'
          BY <1>2, HolderMoves DEF pbufVars
    <2>2. References(b)' = References(b) BY <1>2, <2>1, FiniteReferences, PbufAssumption DEF Same
    <2> QED BY <2>2 DEF Counted, PInv, RefsAreExact, Live, pbufVars
  <1>6. pp_rx_pool_usage' = Cardinality(DriverBuffers') BY <1>2, DriverStays DEF pbufVars
  <1> QED BY <1>3, <1>4, <1>5, <1>6 DEF PInv, RefsAreExact, Counted

(* The invariant when a pbuf is allocated: nobody refers to it yet.         *)
LEMMA pbuf_alloc_Inv ==
    ASSUME PInv, NEW h \in Holder, NEW src \in AllocSrc, NEW n, pbuf_alloc(h, src, n)
    PROVE  PInv'
  <1>1. /\ doing[h] = "alloc" /\ doing' = [doing EXCEPT ![h] = "app"]
        /\ UNCHANGED <<cursor, then>>
        BY DEF pbuf_alloc
  <1>2. /\ OthersFree(h) /\ doing'[h] = "app"
        /\ doing' \in [Holder -> {"app", "free", "release", "recycle", "alloc", "header"}]
        BY <1>1 DEF OthersFree, PInv, PbufTypeOK
  <1>3. hand[h] = NoBuf /\ hand \in [Holder -> PBUF \cup {NoBuf}]
        BY <1>1 DEF PInv, PlacesFit, PbufTypeOK
  <1>4. CASE UNCHANGED <<pbufVars, hand>>
    <2>1. hand' = [hand EXCEPT ![h] = NoBuf] BY <1>3, <1>4
    <2>2. \A b : Frees(h, b) = 0 /\ Frees(h, b)' = 0 BY <1>1, <1>2 DEF Frees
    <2>3. ASSUME NEW b \in PBUF PROVE Counted(b)'
      <3>1. References(b)' = References(b) - Same(hand[h], b) + Same(NoBuf, b)
                                           - Frees(h, b) + Frees(h, b)'
            BY <1>2, <1>4, <2>1, HolderMoves DEF pbufVars
      <3>2. References(b)' = References(b)
            BY <1>3, <2>2, <3>1, FiniteReferences, PbufAssumption DEF Same
      <3> QED BY <1>4, <3>2 DEF Counted, PInv, RefsAreExact, Live, pbufVars
    <2>4. PbufTypeOK' BY <1>1, <1>2, <1>4 DEF PInv, PbufTypeOK, pbufVars
    <2>5. PlacesFit'
          BY <1>1, <1>2, <1>4 DEF PInv, PlacesFit, OthersFree, Freeing, Releasing, Live, pbufVars
    <2>6. pp_rx_pool_usage' = Cardinality(DriverBuffers')
          BY <1>1, <1>2, <1>4, DriverStays DEF pbufVars
    <2> QED BY <2>3, <2>4, <2>5, <2>6 DEF PInv, RefsAreExact, Counted
  <1>5. CASE ~ UNCHANGED <<pbufVars, hand>>
    <2>1. PICK x \in PBUF :
              /\ ~Live(x)
              /\ alloc_src' = [alloc_src EXCEPT ![x] = src]
              /\ next' = [next EXCEPT ![x] = NoBuf]
              /\ ref' = [ref EXCEPT ![x] = 1]
              /\ hand' = [hand EXCEPT ![h] = x]
              /\ pp_rx_pool_usage' = pp_rx_pool_usage + IF src = "esp_rx" THEN 1 ELSE 0
          BY <1>5 DEF pbuf_alloc
    <2>2. src # "none" /\ Live(x)' /\ \A y \in PBUF \ {x} : Live(y)' = Live(y)
          BY <2>1 DEF AllocSrc, Live, PInv, PbufTypeOK
    <2>3. PbufTypeOK' BY <1>1, <1>2, <2>1 DEF PInv, PbufTypeOK
    <2>4. ASSUME NEW b \in PBUF PROVE Counted(b)'
      <3>1. Cardinality(HeldBy(b)') = Cardinality(HeldBy(b)) - Same(hand[h], b) + Same(x, b)
            BY <2>1, HeldAfter DEF PInv
      <3>2. FreedBy(b)' = FreedBy(b) BY <1>1, <1>2 DEF FreedBy, OthersFree
      <3>3. Before(b)' = Before(b)
            BY <2>1, <2>2, PbufAssumption DEF Before, Live, PInv, PbufTypeOK
      <3>4. Cardinality(HeldBy(b)') = Cardinality(HeldBy(b)) + Same(x, b)
            BY <1>3, <3>1, FiniteReferences, PbufAssumption DEF Same
      <3>5. References(b)' = Cardinality(HeldBy(b)') + Cardinality(FreedBy(b)') + Cardinality(Before(b)')
            BY DEF References
      <3>6. References(b)' = References(b) + Same(x, b)
            BY <3>2, <3>3, <3>4, <3>5, FiniteReferences DEF References, Same
      <3>7. References(x) = 0 BY <2>1 DEF PInv, RefsAreExact
      <3>8. CASE b = x
        <4>1. References(b)' = 1 BY <3>6, <3>7, <3>8 DEF Same
        <4>2. ref'[b] = 1 BY <2>1, <3>8 DEF PInv, PbufTypeOK
        <4> QED BY <2>2, <3>8, <4>1, <4>2 DEF Counted
      <3>9. CASE b # x
        <4>1. References(b)' = References(b) BY <3>6, <3>9, FiniteReferences DEF Same
        <4>2. ref'[b] = ref[b] BY <2>1, <3>9 DEF PInv, PbufTypeOK
        <4> QED BY <2>2, <3>9, <4>1, <4>2 DEF Counted, PInv, RefsAreExact
      <3> QED BY <3>8, <3>9
    <2>5. PlacesFit'
      <3>1. \A g \in Holder \ {h} : hand'[g] = hand[g] BY <1>3, <2>1
      <3>2. ASSUME NEW g \in Holder, Releasing(g)
            PROVE  cursor[g] \in PBUF \ {x}
            BY <2>1, <3>2 DEF PInv, PbufTypeOK, PlacesFit, Releasing, Freeing
      <3>3. \A y \in PBUF \ {x} : ref'[y] = ref[y] /\ alloc_src'[y] = alloc_src[y]
            BY <2>1 DEF PInv, PbufTypeOK
      <3> QED BY <1>1, <1>2, <2>2, <3>1, <3>2, <3>3
              DEF PInv, PlacesFit, OthersFree, Freeing, Releasing
    <2>6. pp_rx_pool_usage' = Cardinality(DriverBuffers')
      <3>1. \A g \in Holder : cursor'[g] = cursor[g] /\ (doing'[g] = "release" <=> doing[g] = "release")
            BY <1>1, <1>2 DEF OthersFree
      <3>2. DriverBuffers' \ {x} = DriverBuffers \ {x}
            BY <2>1, <3>1 DEF DriverBuffers, PInv, PbufTypeOK
      <3>3. x \notin DriverBuffers BY <2>1 DEF DriverBuffers, Live
      <3>4. x \in DriverBuffers' <=> src = "esp_rx"
        <4>1. ASSUME NEW g \in Holder, doing[g] = "release" PROVE cursor[g] # x
              BY <2>1, <4>1 DEF PInv, PlacesFit, Releasing
        <4> QED BY <2>1, <3>1, <4>1 DEF DriverBuffers, PInv, PbufTypeOK
      <3>5. IsFiniteSet(DriverBuffers)
        <4>1. DriverBuffers \subseteq PBUF BY DEF DriverBuffers
        <4> QED BY <4>1, PbufAssumption, FS_Subset
      <3>6. Cardinality(DriverBuffers') =
                Cardinality(DriverBuffers) - Within(x, DriverBuffers) + Within(x, DriverBuffers')
            BY <3>2, <3>5, OneChanges
      <3>7. Cardinality(DriverBuffers) \in Nat BY <3>5, FS_CardinalityType
      <3> QED BY <2>1, <3>3, <3>4, <3>6, <3>7 DEF Within, PInv, RefsAreExact
    <2> QED BY <2>3, <2>4, <2>5, <2>6 DEF PInv, RefsAreExact, Counted
  <1> QED BY <1>4, <1>5

(* The invariant when another holder gets the packet.                       *)
LEMMA pbuf_ref_Inv ==
    ASSUME PInv, NEW h \in Holder, NEW g \in Holder, pbuf_ref(h, g) PROVE PInv'
  <1> DEFINE x == hand[h]
  <1>1. /\ doing[h] = "app" /\ doing[g] = "app" /\ hand[h] # NoBuf /\ hand[g] = NoBuf
        /\ hand' = [hand EXCEPT ![g] = x] /\ ref' = [ref EXCEPT ![x] = ref[x] + 1]
        /\ UNCHANGED <<next, alloc_src, pp_rx_pool_usage, doing, cursor, then>>
        BY DEF pbuf_ref
  <1>2. x \in PBUF BY <1>1 DEF PInv, PbufTypeOK
  <1>3. Live(x) /\ ref[x] >= 1 /\ ref[x] = References(x)
    <2>1. h \in HeldBy(x) BY DEF HeldBy
    <2> QED BY <1>2, <2>1, Referred
  <1>4. OthersFree(g) /\ \A b : Frees(g, b)' = 0 /\ Frees(g, b) = 0
        BY <1>1 DEF OthersFree, Frees
  <1> HIDE DEF x
  <1>5. PbufTypeOK' BY <1>1, <1>2 DEF PInv, PbufTypeOK
  <1>6. ASSUME NEW b \in PBUF PROVE Counted(b)'
    <2>1. References(b)' = References(b) - Same(hand[g], b) + Same(x, b)
                                         - Frees(g, b) + Frees(g, b)'
          BY <1>1, <1>2, <1>4, HolderMoves
    <2>2. References(b)' = References(b) + Same(x, b)
          BY <1>1, <1>4, <2>1, FiniteReferences, PbufAssumption DEF Same
    <2>3. ref'[b] = ref[b] + Same(x, b) BY <1>1, <1>2 DEF PInv, PbufTypeOK, Same
    <2>4. Live(b)' = Live(b) BY <1>1 DEF Live
    <2>5. CASE b = x BY <1>3, <2>2, <2>3, <2>4, <2>5 DEF Counted
    <2>6. CASE b # x
      <3>1. References(b)' = References(b) /\ ref'[b] = ref[b]
            BY <2>2, <2>3, <2>6, FiniteReferences DEF Same, PInv, PbufTypeOK
      <3> QED BY <2>4, <3>1 DEF Counted, PInv, RefsAreExact
    <2> QED BY <2>5, <2>6
  <1>7. PlacesFit'
    <2>1. \A k \in Holder : k # g => hand'[k] = hand[k] BY <1>1 DEF PInv, PbufTypeOK
    <2>2. \A k \in Holder : Releasing(k) => ref'[cursor[k]] = ref[cursor[k]]
          BY <1>1, <1>2, <1>3 DEF PInv, PlacesFit, PbufTypeOK, Releasing, Freeing
    <2> QED BY <1>1, <2>1, <2>2 DEF PInv, PlacesFit, Freeing, Releasing, Live
  <1>8. pp_rx_pool_usage' = Cardinality(DriverBuffers') BY <1>1, <1>4, DriverStays
  <1> QED BY <1>5, <1>6, <1>7, <1>8 DEF PInv, RefsAreExact, Counted

(* What it changes when pbuf_free goes on or returns.                       *)
LEMMA FreeNextFacts ==
    ASSUME PInv, NEW h \in Holder, NEW n \in PBUF \cup {NoBuf}, FreeNext(h, n)
    PROVE  /\ OthersFree(h)
           /\ cursor' \in [Holder -> PBUF \cup {NoBuf}] /\ cursor'[h] = n
           /\ doing' \in [Holder -> {"app", "free", "release", "recycle", "alloc", "header"}]
           /\ then' \in [Holder -> {"app", "alloc", "header"}]
           /\ IF n = NoBuf THEN doing'[h] = then[h] /\ then'[h] = "app"
              ELSE doing'[h] = "free" /\ then'[h] = then[h]
           /\ \A c \in PBUF : Frees(h, c)' = Same(n, c)
  <1>1. /\ cursor' = [cursor EXCEPT ![h] = n]
        /\ then' = [then EXCEPT ![h] = IF n = NoBuf THEN "app" ELSE then[h]]
        /\ doing' = [doing EXCEPT ![h] = IF n = NoBuf THEN then[h] ELSE "free"]
        BY DEF FreeNext
  <1>2. OthersFree(h) BY <1>1 DEF OthersFree, PInv, PbufTypeOK
  <1>3. /\ cursor' \in [Holder -> PBUF \cup {NoBuf}] /\ cursor'[h] = n
        /\ then' \in [Holder -> {"app", "alloc", "header"}]
        /\ then'[h] = IF n = NoBuf THEN "app" ELSE then[h]
        /\ then[h] \in {"app", "alloc", "header"}
        BY <1>1 DEF PInv, PbufTypeOK
  <1>4. /\ doing' \in [Holder -> {"app", "free", "release", "recycle", "alloc", "header"}]
        /\ doing'[h] = IF n = NoBuf THEN then[h] ELSE "free"
        BY <1>1, <1>3 DEF PInv, PbufTypeOK
  <1>5. \A c \in PBUF : Frees(h, c)' = Same(n, c)
        BY <1>3, <1>4, PbufAssumption DEF Frees, Same
  <1> QED BY <1>2, <1>3, <1>4, <1>5

(* The invariant when a count goes down: one reference goes, that of the    *)
(* holder that frees.                                                       *)
LEMMA pbuf_free_Inv ==
    ASSUME PInv, NEW h \in Holder, pbuf_free(h) PROVE PInv'
  <1> DEFINE x == cursor[h]
  <1>1. /\ doing[h] = "free" /\ ref' = [ref EXCEPT ![x] = ref[x] - 1]
        /\ UNCHANGED <<next, alloc_src, pp_rx_pool_usage, hand>>
        BY DEF pbuf_free
  <1>2. x \in PBUF BY <1>1 DEF PInv, PbufTypeOK, PlacesFit, Freeing
  <1>3. Live(x) /\ ref[x] >= 1 /\ ref[x] = References(x)
    <2>1. h \in FreedBy(x) BY <1>1 DEF FreedBy
    <2> QED BY <1>2, <2>1, Referred
  <1>4. ref \in [PBUF -> Int] /\ ref' \in [PBUF -> Int] /\ ref'[x] = ref[x] - 1
        /\ \A b \in PBUF \ {x} : ref'[b] = ref[b]
        BY <1>1, <1>2 DEF PInv, PbufTypeOK
  <1>5. \A k \in Holder : Releasing(k) => cursor[k] \in PBUF \ {x}
        BY <1>3 DEF PInv, PbufTypeOK, PlacesFit, Releasing, Freeing
  <1>6. /\ OthersFree(h)
        /\ cursor' \in [Holder -> PBUF \cup {NoBuf}]
        /\ doing' \in [Holder -> {"app", "free", "release", "recycle", "alloc", "header"}]
        /\ then' \in [Holder -> {"app", "alloc", "header"}]
        /\ \A c \in PBUF : Frees(h, c)' = 0
        /\ doing'[h] = "release" => alloc_src[x] # "esp_rx"
        /\ \/ /\ ref[x] - 1 = 0 /\ cursor'[h] = x /\ then'[h] = then[h]
              /\ doing'[h] \in {"release", "recycle"}
              /\ doing'[h] = "recycle" => alloc_src[x] = "esp_rx"
           \/ doing'[h] = then[h] /\ then'[h] = "app"
    <2>1. CASE ref[x] - 1 = 0
      <3>1. /\ doing' = [doing EXCEPT ![h] = IF alloc_src[x] = "esp_rx" THEN "recycle" ELSE "release"]
            /\ UNCHANGED <<cursor, then>>
            BY <2>1 DEF pbuf_free, LastReference
      <3>2. OthersFree(h) BY <3>1 DEF OthersFree, PInv, PbufTypeOK
      <3>3. doing'[h] = IF alloc_src[x] = "esp_rx" THEN "recycle" ELSE "release"
            BY <3>1 DEF PInv, PbufTypeOK
      <3>4. \A c \in PBUF : Frees(h, c)' = 0 BY <3>3 DEF Frees
      <3>5. doing' \in [Holder -> {"app", "free", "release", "recycle", "alloc", "header"}]
            BY <3>1 DEF PInv, PbufTypeOK
      <3> QED BY <2>1, <3>1, <3>2, <3>3, <3>4, <3>5 DEF PInv, PbufTypeOK
    <2>2. CASE ref[x] - 1 # 0
      <3>1. FreeNext(h, NoBuf) BY <2>2 DEF pbuf_free, LastReference
      <3>2. /\ OthersFree(h)
            /\ cursor' \in [Holder -> PBUF \cup {NoBuf}]
            /\ doing' \in [Holder -> {"app", "free", "release", "recycle", "alloc", "header"}]
            /\ then' \in [Holder -> {"app", "alloc", "header"}]
            /\ doing'[h] = then[h] /\ then'[h] = "app"
            /\ \A c \in PBUF : Frees(h, c)' = Same(NoBuf, c)
            BY <3>1, FreeNextFacts
      <3>3. \A c \in PBUF : Frees(h, c)' = 0 BY <3>2, PbufAssumption DEF Same
      <3>4. then[h] \in {"app", "alloc", "header"} BY DEF PInv, PbufTypeOK
      <3> QED BY <3>2, <3>3, <3>4
    <2> QED BY <2>1, <2>2
  <1>7. PbufTypeOK' BY <1>1, <1>4, <1>6 DEF PInv, PbufTypeOK
  <1>8. ASSUME NEW b \in PBUF PROVE Counted(b)'
    <2>1. hand' = [hand EXCEPT ![h] = hand[h]] /\ hand[h] \in PBUF \cup {NoBuf}
          BY <1>1 DEF PInv, PbufTypeOK
    <2>2. References(b)' = References(b) - Same(hand[h], b) + Same(hand[h], b)
                                         - Frees(h, b) + Frees(h, b)'
          BY <1>1, <1>6, <2>1, HolderMoves
    <2>3. Frees(h, b) = Same(x, b) BY <1>1 DEF Frees, Same
    <2>4. References(b)' = References(b) - Same(x, b)
          BY <1>6, <2>2, <2>3, FiniteReferences DEF Same
    <2>5. Live(b)' = Live(b) BY <1>1 DEF Live
    <2>6. CASE b = x BY <1>3, <1>4, <2>4, <2>5, <2>6 DEF Counted, Same
    <2>7. CASE b # x
      <3>1. References(b)' = References(b) BY <2>4, <2>7, FiniteReferences DEF Same
      <3> QED BY <1>4, <2>5, <2>7, <3>1 DEF Counted, PInv, RefsAreExact
    <2> QED BY <2>6, <2>7
  <1>9. PlacesFit'
    <2> SUFFICES ASSUME NEW k \in Holder
                 PROVE  /\ Freeing(k)' => cursor'[k] # NoBuf
                        /\ doing'[k] = "alloc" \/ (Freeing(k)' /\ then'[k] = "alloc") => hand'[k] = NoBuf
                        /\ Releasing(k)' => /\ Live(cursor[k])' /\ ref'[cursor'[k]] = 0
                                            /\ \A g \in Holder \ {k} :
                                                   Releasing(g)' => cursor'[g] # cursor'[k]
                        /\ doing'[k] = "recycle" => alloc_src'[cursor'[k]] = "esp_rx"
        BY DEF PlacesFit, Live
    <2>1. PlacesFit BY DEF PInv
    <2>2. CASE k = h
      <3>1. then[h] \in {"app", "alloc", "header"} BY DEF PInv, PbufTypeOK
      <3> QED BY <1>1, <1>2, <1>3, <1>4, <1>5, <1>6, <2>1, <2>2, <3>1, PbufAssumption
              DEF PlacesFit, OthersFree, Freeing, Releasing, Live
    <2>3. CASE k # h
      <3>1. cursor'[k] = cursor[k] /\ doing'[k] = doing[k] /\ then'[k] = then[k]
            BY <1>6, <2>3 DEF OthersFree
      <3>2. Releasing(k) => ref'[cursor[k]] = 0 BY <1>4, <1>5, <2>1 DEF PlacesFit
      <3>3. ASSUME NEW g \in Holder \ {k}, Releasing(g)', Releasing(k)
            PROVE  cursor'[g] # cursor'[k]
        <4>1. CASE g = h
          <5>1. then[h] \in {"app", "alloc", "header"} BY DEF PInv, PbufTypeOK
          <5> QED BY <1>5, <1>6, <3>1, <3>3, <4>1, <5>1 DEF Releasing
        <4>2. CASE g # h BY <1>6, <2>1, <3>1, <3>3, <4>2 DEF OthersFree, PlacesFit, Releasing
        <4> QED BY <4>1, <4>2
      <3>4. (Releasing(k)' <=> Releasing(k)) /\ (Freeing(k)' <=> Freeing(k))
            BY <3>1 DEF Releasing, Freeing
      <3>5. Live(cursor[k])' <=> Live(cursor[k]) BY <1>1, <3>1 DEF Live
      <3> QED BY <1>1, <2>1, <3>1, <3>2, <3>3, <3>4, <3>5 DEF PlacesFit
    <2> QED BY <2>2, <2>3
  <1>10. pp_rx_pool_usage' = Cardinality(DriverBuffers')
    <2>1. DriverBuffers' = DriverBuffers
      <3> SUFFICES ASSUME NEW b \in PBUF, alloc_src[b] = "esp_rx"
                   PROVE  (\E k \in Holder : cursor'[k] = b /\ doing'[k] = "release")
                          <=> (\E k \in Holder : cursor[k] = b /\ doing[k] = "release")
          BY <1>1 DEF DriverBuffers
      <3>1. doing'[h] = "release" => cursor'[h] = x
        <4>1. then[h] \in {"app", "alloc", "header"} BY DEF PInv, PbufTypeOK
        <4> QED BY <1>6, <4>1
      <3> QED BY <1>1, <1>6, <3>1 DEF OthersFree
    <2> QED BY <1>1, <2>1 DEF PInv, RefsAreExact
  <1> QED BY <1>7, <1>8, <1>9, <1>10 DEF PInv, RefsAreExact, Counted

(* The invariant when the driver gets its buffer back.                      *)
LEMMA pp_recycle_Inv ==
    ASSUME PInv, NEW h \in Holder, pp_recycle_rx_pbuf(h) PROVE PInv'
  <1> DEFINE x == cursor[h]
  <1>1. /\ doing[h] = "recycle" /\ doing' = [doing EXCEPT ![h] = "release"]
        /\ pp_rx_pool_usage' = pp_rx_pool_usage - 1
        /\ UNCHANGED <<next, ref, alloc_src, hand, cursor, then>>
        BY DEF pp_recycle_rx_pbuf
  <1>2. /\ x \in PBUF /\ alloc_src[x] = "esp_rx"
        /\ \A g \in Holder \ {h} : Releasing(g) => cursor[g] # x
        BY <1>1 DEF PInv, PbufTypeOK, PlacesFit, Freeing, Releasing
  <1>3. /\ doing'[h] = "release" /\ \A g \in Holder \ {h} : doing'[g] = doing[g]
        /\ PbufTypeOK'
        BY <1>1 DEF PInv, PbufTypeOK
  <1>4. PlacesFit'
    <2>1. \A g \in Holder : (Freeing(g)' <=> Freeing(g)) /\ (Releasing(g)' <=> Releasing(g))
          BY <1>1, <1>3 DEF Freeing, Releasing
    <2>2. \A b : Live(b)' <=> Live(b) BY <1>1 DEF Live
    <2>3. \A g \in Holder : /\ doing'[g] = "alloc" => doing[g] = "alloc"
                            /\ doing'[g] = "recycle" => doing[g] = "recycle"
          BY <1>3
    <2> QED BY <1>1, <2>1, <2>2, <2>3 DEF PInv, PlacesFit, Live
  <1>5. \A b \in PBUF : Counted(b)'
    <2>1. \A b : FreedBy(b)' = FreedBy(b) BY <1>1, <1>3 DEF FreedBy
    <2>2. \A b : HeldBy(b)' = HeldBy(b) /\ Before(b)' = Before(b) /\ (Live(b)' <=> Live(b))
          BY <1>1 DEF HeldBy, Before, Live
    <2> QED BY <1>1, <2>1, <2>2 DEF Counted, References, PInv, RefsAreExact
  <1>6. pp_rx_pool_usage' = Cardinality(DriverBuffers')
    <2>1. \A g \in Holder : cursor[g] = x /\ doing[g] = "release" => FALSE
          BY <1>1, <1>2 DEF Releasing
    <2>2. x \in DriverBuffers BY <1>2, <2>1 DEF DriverBuffers
    <2>3. DriverBuffers' = DriverBuffers \ {x} BY <1>1, <1>2, <1>3 DEF DriverBuffers
    <2>4. IsFiniteSet(DriverBuffers)
      <3>1. DriverBuffers \subseteq PBUF BY DEF DriverBuffers
      <3> QED BY <3>1, PbufAssumption, FS_Subset
    <2>5. Cardinality(DriverBuffers') = Cardinality(DriverBuffers) - 1
          BY <2>2, <2>3, <2>4, FS_RemoveElement
    <2> QED BY <1>1, <2>5 DEF PInv, RefsAreExact
  <1> QED BY <1>3, <1>4, <1>5, <1>6 DEF PInv, RefsAreExact, Counted

(* The invariant when a pbuf is released: its link becomes a reference of   *)
(* the holder, who goes on with the next pbuf.                              *)
LEMMA memp_free_Inv ==
    ASSUME PInv, NEW h \in Holder, memp_free(h) PROVE PInv'
  <1>0. PICK x, n : x = cursor[h] /\ n = next[x] OBVIOUS
  <1>1. /\ doing[h] = "release" /\ alloc_src' = [alloc_src EXCEPT ![x] = "none"]
        /\ next' = [next EXCEPT ![x] = NoBuf] /\ FreeNext(h, n)
        /\ UNCHANGED <<ref, pp_rx_pool_usage, hand>>
        BY <1>0 DEF memp_free, AfterRelease
  <1>2. /\ x \in PBUF /\ Live(x) /\ ref[x] = 0
        /\ \A g \in Holder \ {h} : Releasing(g) => cursor[g] # x
        BY <1>0, <1>1 DEF PInv, PbufTypeOK, PlacesFit, Freeing, Releasing
  <1>3. n \in PBUF \cup {NoBuf} BY <1>0, <1>2 DEF PInv, PbufTypeOK
  <1>4. References(x) = 0 BY <1>2 DEF PInv, RefsAreExact
  <1>5. /\ OthersFree(h)
        /\ cursor' \in [Holder -> PBUF \cup {NoBuf}] /\ cursor'[h] = n
        /\ doing' \in [Holder -> {"app", "free", "release", "recycle", "alloc", "header"}]
        /\ then' \in [Holder -> {"app", "alloc", "header"}]
        /\ IF n = NoBuf THEN doing'[h] = then[h] /\ then'[h] = "app"
           ELSE doing'[h] = "free" /\ then'[h] = then[h]
        /\ \A c \in PBUF : Frees(h, c)' = Same(n, c)
        BY <1>1, <1>3, FreeNextFacts
  <1>6. then[h] \in {"app", "alloc", "header"} BY DEF PInv, PbufTypeOK
  <1>7. /\ alloc_src'[x] = "none" /\ next'[x] = NoBuf
        /\ \A y \in PBUF \ {x} : alloc_src'[y] = alloc_src[y] /\ next'[y] = next[y]
        BY <1>1, <1>2 DEF PInv, PbufTypeOK
  <1>8. PbufTypeOK' BY <1>1, <1>5 DEF PInv, PbufTypeOK
  <1>9. ASSUME NEW b \in PBUF PROVE References(b)' = References(b)
    <2>1. Cardinality(FreedBy(b)') = Cardinality(FreedBy(b)) - Frees(h, b) + Frees(h, b)'
          BY <1>5, FreedAfter DEF OthersFree
    <2>2. Frees(h, b) = 0 BY <1>1 DEF Frees
    <2>3. Cardinality(Before(b)') = Cardinality(Before(b)) - Link(x, b) + Link(x, b)'
          BY <1>2, <1>7, BeforeAfter
    <2>4. Link(x, b) = Same(n, b) BY <1>0, <1>2 DEF Link, Same
    <2>5. Link(x, b)' = 0 BY <1>7 DEF Link, Live
    <2>6. HeldBy(b)' = HeldBy(b) BY <1>1 DEF HeldBy
    <2>7. References(b)' = Cardinality(HeldBy(b)') + Cardinality(FreedBy(b)') + Cardinality(Before(b)')
          BY DEF References
    <2>8. Frees(h, b)' = Same(n, b) /\ Same(n, b) \in {0, 1} BY <1>5 DEF Same
    <2> QED BY <2>1, <2>2, <2>3, <2>4, <2>5, <2>6, <2>7, <2>8, FiniteReferences DEF References
  <1>10. ASSUME NEW b \in PBUF PROVE Counted(b)'
    <2>1. CASE b = x
      <3>1. ~Live(b)' BY <1>7, <2>1 DEF Live
      <3>2. References(b)' = 0 BY <1>4, <1>9, <2>1
      <3> QED BY <3>1, <3>2 DEF Counted
    <2>2. CASE b # x
      <3>1. (Live(b)' <=> Live(b)) /\ ref'[b] = ref[b] BY <1>1, <1>7, <2>2 DEF Live
      <3> QED BY <1>9, <3>1 DEF Counted, PInv, RefsAreExact
    <2> QED BY <2>1, <2>2
  <1>11. ~Releasing(h)' /\ doing'[h] # "release" /\ doing'[h] # "recycle"
        BY <1>5, <1>6 DEF Releasing
  <1>12. PlacesFit'
    <2> SUFFICES ASSUME NEW k \in Holder
                 PROVE  /\ Freeing(k)' => cursor'[k] # NoBuf
                        /\ doing'[k] = "alloc" \/ (Freeing(k)' /\ then'[k] = "alloc") => hand'[k] = NoBuf
                        /\ Releasing(k)' => /\ Live(cursor[k])' /\ ref'[cursor'[k]] = 0
                                            /\ \A g \in Holder \ {k} :
                                                   Releasing(g)' => cursor'[g] # cursor'[k]
                        /\ doing'[k] = "recycle" => alloc_src'[cursor'[k]] = "esp_rx"
        BY DEF PlacesFit, Live
    <2>1. PlacesFit BY DEF PInv
    <2>2. CASE k = h
      <3>1. Freeing(h) BY <1>1 DEF Freeing
      <3>2. then[h] = "alloc" => hand[h] = NoBuf BY <2>1, <3>1 DEF PlacesFit
      <3> QED BY <1>1, <1>5, <1>6, <1>11, <2>2, <3>2 DEF Freeing, Releasing
    <2>3. CASE k # h
      <3>1. cursor'[k] = cursor[k] /\ doing'[k] = doing[k] /\ then'[k] = then[k]
            BY <1>5, <2>3 DEF OthersFree
      <3>2. (Releasing(k)' <=> Releasing(k)) /\ (Freeing(k)' <=> Freeing(k))
            BY <3>1 DEF Releasing, Freeing
      <3>3. Releasing(k) => cursor[k] \in PBUF \ {x}
            BY <1>2, <2>3 DEF PInv, PbufTypeOK, PlacesFit, Releasing, Freeing
      <3>4. Releasing(k) => Live(cursor[k])' /\ alloc_src'[cursor[k]] = alloc_src[cursor[k]]
            BY <1>7, <2>1, <3>1, <3>3 DEF PlacesFit, Live
      <3>5. ASSUME NEW g \in Holder \ {k}, Releasing(g)', Releasing(k)
            PROVE  cursor'[g] # cursor'[k]
        <4>1. g # h BY <1>11, <3>5
        <4> QED BY <1>5, <2>1, <3>1, <3>5, <4>1 DEF OthersFree, PlacesFit, Releasing
      <3>6. doing[k] = "recycle" => Releasing(k) BY DEF Releasing
      <3> QED BY <1>1, <2>1, <3>1, <3>2, <3>4, <3>5, <3>6 DEF PlacesFit
    <2> QED BY <2>2, <2>3
  <1>13. pp_rx_pool_usage' = Cardinality(DriverBuffers')
    <2>1. ASSUME NEW b \in PBUF PROVE b \in DriverBuffers' <=> b \in DriverBuffers
      <3>1. CASE b = x
        <4>1. b \notin DriverBuffers' BY <1>7, <3>1 DEF DriverBuffers
        <4>2. b \notin DriverBuffers BY <1>0, <1>1, <3>1 DEF DriverBuffers
        <4> QED BY <4>1, <4>2
      <3>2. CASE b # x
        <4>1. (\E k \in Holder : cursor'[k] = b /\ doing'[k] = "release")
              <=> (\E k \in Holder : cursor[k] = b /\ doing[k] = "release")
          <5>1. cursor[h] # b BY <1>0, <3>2
          <5> QED BY <1>5, <1>11, <5>1 DEF OthersFree
        <4>2. alloc_src'[b] = alloc_src[b] BY <1>7, <3>2
        <4> QED BY <4>1, <4>2 DEF DriverBuffers
      <3> QED BY <3>1, <3>2
    <2>2. DriverBuffers' = DriverBuffers BY <2>1 DEF DriverBuffers
    <2> QED BY <1>1, <2>2 DEF PInv, RefsAreExact
  <1> QED BY <1>8, <1>10, <1>12, <1>13 DEF PInv, RefsAreExact, Counted

(* The invariant when pbuf_free_header goes on without a change of links.   *)
LEMMA header_Inv ==
    ASSUME PInv, NEW h \in Holder, NEW d \in {"app", "header"},
           doing[h] \in {"app", "header"}, doing' = [doing EXCEPT ![h] = d],
           UNCHANGED <<next, ref, alloc_src, pp_rx_pool_usage, hand, cursor, then>>
    PROVE  PInv'
  <1>1. /\ doing'[h] = d /\ \A g \in Holder \ {h} : doing'[g] = doing[g]
        /\ PbufTypeOK'
        BY DEF PInv, PbufTypeOK
  <1>2. OthersFree(h) BY <1>1 DEF OthersFree
  <1>3. \A g \in Holder : /\ (Freeing(g)' <=> Freeing(g)) /\ (Releasing(g)' <=> Releasing(g))
                          /\ doing'[g] = "alloc" => doing[g] = "alloc"
                          /\ doing'[g] = "recycle" => doing[g] = "recycle"
        BY <1>1 DEF Freeing, Releasing
  <1>4. PlacesFit' BY <1>3 DEF PInv, PlacesFit, Live
  <1>5. \A b \in PBUF : Counted(b)'
    <2>1. \A b : FreedBy(b)' = FreedBy(b) BY <1>1 DEF FreedBy
    <2>2. \A b : HeldBy(b)' = HeldBy(b) /\ Before(b)' = Before(b) /\ (Live(b)' <=> Live(b))
          BY DEF HeldBy, Before, Live
    <2> QED BY <2>1, <2>2 DEF Counted, References, PInv, RefsAreExact
  <1>6. pp_rx_pool_usage' = Cardinality(DriverBuffers') BY <1>1, <1>2, DriverStays
  <1> QED BY <1>1, <1>4, <1>5, <1>6 DEF PInv, RefsAreExact, Counted

(* The invariant when the first pbuf of a packet is cut off: the link to    *)
(* the next becomes the reference of the holder.                            *)
LEMMA header_cut_Inv ==
    ASSUME PInv, NEW h \in Holder, pbuf_free_header_cut(h) PROVE PInv'
  <1>0. PICK x, n : x = hand[h] /\ n = next[x] OBVIOUS
  <1>1. /\ doing[h] = "header" /\ x # NoBuf
        /\ hand' = [hand EXCEPT ![h] = n] /\ next' = [next EXCEPT ![x] = NoBuf]
        /\ StartFree(h, x, "header")
        /\ UNCHANGED <<ref, alloc_src, pp_rx_pool_usage>>
        BY <1>0 DEF pbuf_free_header_cut, CutOff
  <1>2. x \in PBUF /\ n \in PBUF \cup {NoBuf} BY <1>0, <1>1 DEF PInv, PbufTypeOK
  <1>3. Live(x)
    <2>1. h \in HeldBy(x) BY <1>0 DEF HeldBy
    <2> QED BY <1>2, <2>1, Referred
  <1>4. /\ OthersFree(h)
        /\ cursor' \in [Holder -> PBUF \cup {NoBuf}] /\ cursor'[h] = x
        /\ doing' \in [Holder -> {"app", "free", "release", "recycle", "alloc", "header"}]
        /\ then' \in [Holder -> {"app", "alloc", "header"}]
        /\ doing'[h] = "free" /\ then'[h] = "header"
        /\ \A c \in PBUF : Frees(h, c)' = Same(x, c) /\ Frees(h, c) = 0
        BY <1>1, <1>2, StartFreeFacts
  <1>5. PbufTypeOK' BY <1>1, <1>2, <1>4 DEF PInv, PbufTypeOK
  <1>6. /\ next'[x] = NoBuf /\ \A y \in PBUF \ {x} : next'[y] = next[y]
        /\ \A g \in Holder \ {h} : hand'[g] = hand[g]
        BY <1>1, <1>2 DEF PInv, PbufTypeOK
  <1>7. ASSUME NEW b \in PBUF PROVE Counted(b)'
    <2>1. Cardinality(HeldBy(b)') = Cardinality(HeldBy(b)) - Same(x, b) + Same(n, b)
          BY <1>0, <1>1, HeldAfter DEF PInv
    <2>2. Cardinality(FreedBy(b)') = Cardinality(FreedBy(b)) - Frees(h, b) + Frees(h, b)'
          BY <1>4, FreedAfter DEF OthersFree
    <2>3. Cardinality(Before(b)') = Cardinality(Before(b)) - Link(x, b) + Link(x, b)'
          BY <1>1, <1>2, <1>6, BeforeAfter
    <2>4. Link(x, b) = Same(n, b) BY <1>0, <1>3 DEF Link, Same
    <2>5. Link(x, b)' = 0
      <3>1. next'[x] # b BY <1>6, PbufAssumption
      <3> QED BY <3>1 DEF Link
    <2>6. References(b)' = Cardinality(HeldBy(b)') + Cardinality(FreedBy(b)') + Cardinality(Before(b)')
          BY DEF References
    <2>7. Same(n, b) \in {0, 1} /\ Same(x, b) \in {0, 1} BY DEF Same
    <2>8. References(b)' = References(b)
          BY <1>4, <2>1, <2>2, <2>3, <2>4, <2>5, <2>6, <2>7, FiniteReferences DEF References
    <2> QED BY <1>1, <2>8 DEF Counted, PInv, RefsAreExact, Live
  <1>8. PlacesFit'
    <2>1. ~Releasing(h)' /\ doing'[h] # "recycle" BY <1>4 DEF Releasing
    <2>2. \A b : Live(b)' <=> Live(b) BY <1>1 DEF Live
    <2>3. \A g \in Holder \ {h} : (Freeing(g)' <=> Freeing(g)) /\ (Releasing(g)' <=> Releasing(g))
          BY <1>4 DEF OthersFree, Freeing, Releasing
    <2> QED BY <1>1, <1>4, <1>6, <2>1, <2>2, <2>3 DEF PInv, PlacesFit, OthersFree, Live
  <1>9. pp_rx_pool_usage' = Cardinality(DriverBuffers') BY <1>1, <1>4, DriverStays
  <1> QED BY <1>5, <1>7, <1>8, <1>9 DEF PInv, RefsAreExact, Counted

(* A chain of pbufs that are each referred to once has exactly one end:     *)
(* without one, its links would form a cycle, or would run through all      *)
(* pbufs.                                                                   *)
LEMMA ChainEnds ==
    ASSUME PInv, NEW h \in Holder, NEW head \in PBUF, hand[h] = head,
           \A b \in InChain(head) : ref[b] = 1, NEW y \in PBUF, y \notin InChain(head)
    PROVE  /\ InChain(head) \subseteq PBUF
           /\ \E z \in InChain(head) :
                 Live(z) /\ \A b \in InChain(head) : next[b] = NoBuf <=> b = z
  <1>1. PICK k, at :
              /\ k \in 1 .. Size
              /\ Chain(head) = [i \in 1 .. k |-> at[i]]
              /\ InChain(head) = {at[i] : i \in 1 .. k}
              /\ \A i \in 1 .. k : at[i] \in PBUF
              /\ at[1] = head
              /\ \A i \in 1 .. k : i < k => at[i + 1] = next[at[i]]
              /\ k < Size => next[at[k]] = NoBuf
    <2>1. next \in Links BY DEF PInv, PbufTypeOK, Links
    <2>2. PICK k, at :
              /\ k \in 1 .. Size
              /\ ChainOf(next, head) = [i \in 1 .. k |-> at[i]]
              /\ \A i \in 1 .. k : at[i] \in PBUF
              /\ at[1] = head
              /\ \A i \in 1 .. k : i < k => at[i + 1] = next[at[i]]
              /\ k < Size => next[at[k]] = NoBuf
          BY <2>1, ChainIsWalk
    <2>3. InChain(head) = {at[i] : i \in 1 .. k} BY <2>2, ChainIsChainOf DEF InChain
    <2> QED BY <2>2, <2>3, ChainIsChainOf
  <1>2. k \in Nat /\ k >= 1 /\ Size \in Nat /\ k <= Size BY <1>1, SizeType
  <1>3. h \in HeldBy(head) BY DEF HeldBy
  <1>4. \A i \in 1 .. k : Live(at[i])
    <2> DEFINE Bad == {i \in 1 .. k : ~Live(at[i])}
    <2> SUFFICES ASSUME Bad # {} PROVE FALSE OBVIOUS
    <2>1. PICK j \in Bad : \A i \in Bad : j <= i
      <3>1. Bad \subseteq Nat BY <1>2
      <3> HIDE DEF Bad
      <3> QED BY <3>1, LeastNumber
    <2>2. j \in 1 .. k /\ ~Live(at[j]) OBVIOUS
    <2>3. CASE j = 1 BY <1>1, <1>3, <2>2, <2>3, Referred
    <2>4. CASE j # 1
      <3>1. j - 1 \in 1 .. k /\ ~(j <= j - 1) /\ j - 1 < k /\ (j - 1) + 1 = j
            BY <1>2, <2>2, <2>4
      <3>2. Live(at[j - 1]) /\ next[at[j - 1]] = at[j] BY <1>1, <2>1, <3>1
      <3>3. at[j - 1] \in Before(at[j]) BY <1>1, <3>1, <3>2 DEF Before
      <3> QED BY <1>1, <2>2, <3>3, Referred
    <2> QED BY <2>3, <2>4
  <1>5. \A i \in 1 .. k : References(at[i]) = 1
    <2> TAKE i \in 1 .. k
    <2>1. at[i] \in InChain(head) /\ at[i] \in PBUF BY <1>1
    <2> QED BY <1>4, <2>1 DEF PInv, RefsAreExact
  <1>6. \A i \in 1 .. k : i # 1 =>
            i - 1 \in 1 .. k /\ at[i - 1] \in Before(at[i])
    <2> TAKE i \in 1 .. k
    <2> HAVE i # 1
    <2>1. i - 1 \in 1 .. k /\ i - 1 < k /\ (i - 1) + 1 = i BY <1>2
    <2>2. next[at[i - 1]] = at[i] BY <1>1, <2>1
    <2> QED BY <1>1, <1>4, <2>1, <2>2 DEF Before
  <1>7. \A i, j \in 1 .. k : at[i] = at[j] => i = j
    <2> DEFINE Bad == {i \in 1 .. k : \E j \in 1 .. k : i < j /\ at[i] = at[j]}
    <2>1. Bad = {}
      <3> SUFFICES ASSUME Bad # {} PROVE FALSE OBVIOUS
      <3>1. PICK i \in Bad : \A m \in Bad : i <= m
        <4>1. Bad \subseteq Nat BY <1>2
        <4> HIDE DEF Bad
        <4> QED BY <4>1, LeastNumber
      <3>2. i \in 1 .. k OBVIOUS
      <3>3. PICK j \in 1 .. k : i < j /\ at[i] = at[j] OBVIOUS
      <3>4. j # 1 BY <1>2, <3>2, <3>3
      <3>5. j - 1 \in 1 .. k /\ at[j - 1] \in Before(at[i]) BY <1>6, <3>3, <3>4
      <3>6. i # 1
        <4> SUFFICES ASSUME i = 1 PROVE FALSE OBVIOUS
        <4>1. at[i] = head BY <1>1
        <4> QED BY <1>3, <1>5, <3>2, <3>5, <4>1, Alone
      <3>7. i - 1 \in 1 .. k /\ at[i - 1] \in Before(at[i]) BY <1>6, <3>2, <3>6
      <3>8. at[i - 1] = at[j - 1] BY <1>5, <3>2, <3>5, <3>7, Alone
      <3>9. i - 1 < j - 1 /\ ~(i <= i - 1) BY <1>2, <3>2, <3>3
      <3>10. i - 1 \in Bad BY <3>5, <3>7, <3>8, <3>9
      <3> QED BY <3>1, <3>9, <3>10
    <2>2. \A i, j \in 1 .. k : ~(i < j /\ at[i] = at[j]) BY <2>1
    <2> QED BY <1>2, <2>2
  <1>8. k < Size
    <2> SUFFICES ASSUME k = Size PROVE FALSE BY <1>2
    <2> DEFINE f == [i \in 1 .. k |-> at[i]]
    <2>1. f \in Injection(1 .. k, PBUF) BY <1>1, <1>7 DEF Injection, IsInjective
    <2>2. Cardinality(1 .. k) = Cardinality(PBUF)
      <3>1. 1 \in Int /\ k \in Int /\ ~(1 > k) BY <1>2
      <3>2. Cardinality(1 .. k) = k - 1 + 1 BY <3>1, FS_Interval
      <3> QED BY <1>2, <3>2 DEF Size
    <2> HIDE DEF f
    <2>3. f \in Surjection(1 .. k, PBUF) BY <2>1, <2>2, FS_Injection, PbufAssumption
    <2>4. PICK i \in 1 .. k : f[i] = y BY <2>3 DEF Surjection
    <2>5. at[i] = y BY <2>4 DEF f
    <2> QED BY <1>1, <2>5
  <1>9. next[at[k]] = NoBuf /\ at[k] \in InChain(head) /\ Live(at[k])
    <2>1. k \in 1 .. k BY <1>2
    <2> QED BY <1>1, <1>4, <1>8, <2>1
  <1>10. ASSUME NEW b \in InChain(head), next[b] = NoBuf PROVE b = at[k]
    <2>1. PICK i \in 1 .. k : b = at[i] BY <1>1
    <2>2. CASE i < k
      <3>1. i + 1 \in 1 .. k BY <1>2, <2>2
      <3> QED BY <1>1, <1>10, <2>1, <2>2, <3>1, PbufAssumption
    <2>3. i = k \/ i < k BY <1>2
    <2> QED BY <2>1, <2>2, <2>3
  <1> QED BY <1>1, <1>9, <1>10

(* The invariant when a packet becomes the tail of another: one link is     *)
(* added, from the only end of the first chain.                             *)
LEMMA pbuf_chain_Inv ==
    ASSUME PInv, NEW h \in Holder, NEW g \in Holder, pbuf_chain(h, g) PROVE PInv'
  <1>1. PICK head, tail : head = hand[h] /\ tail = hand[g] OBVIOUS
  <1>2. /\ head # NoBuf /\ tail # NoBuf /\ InChain(head) \cap InChain(tail) = {}
        /\ next' = [b \in PBUF |-> IF b \in InChain(head) /\ next[b] = NoBuf THEN tail ELSE next[b]]
        /\ ref' = [ref EXCEPT ![tail] = ref[tail] + 1]
        /\ \A b \in InChain(head) : ref[b] = 1
        /\ UNCHANGED <<alloc_src, pp_rx_pool_usage, hand, doing, cursor, then>>
        BY <1>1 DEF pbuf_chain, holderVars
  <1>3. head \in PBUF /\ tail \in PBUF BY <1>1, <1>2 DEF PInv, PbufTypeOK
  <1>4. Live(tail) /\ ref[tail] >= 1 /\ ref[tail] = References(tail)
    <2>1. g \in HeldBy(tail) BY <1>1 DEF HeldBy
    <2> QED BY <1>3, <2>1, Referred
  <1>5. tail \notin InChain(head)
    <2>1. next \in Links BY DEF PInv, PbufTypeOK, Links
    <2>2. PICK k, at :
              /\ k \in 1 .. Size
              /\ ChainOf(next, tail) = [i \in 1 .. k |-> at[i]] /\ at[1] = tail
          BY <1>3, <2>1, ChainIsWalk
    <2>3. 1 \in 1 .. k BY <2>2, SizeType
    <2>4. tail \in InChain(tail) BY <2>2, <2>3, ChainIsChainOf DEF InChain
    <2> QED BY <1>2, <2>4
  <1>6. PICK z \in InChain(head) :
            /\ Live(z) /\ z \in PBUF
            /\ \A b \in InChain(head) : next[b] = NoBuf <=> b = z
        BY <1>1, <1>2, <1>3, <1>5, ChainEnds
  <1>7. next' = [b \in PBUF |-> IF b = z THEN tail ELSE next[b]] /\ next[z] = NoBuf
        BY <1>2, <1>6
  <1>8. PbufTypeOK' BY <1>2, <1>3, <1>7 DEF PInv, PbufTypeOK
  <1>9. ASSUME NEW b \in PBUF PROVE Counted(b)'
    <2>1. Cardinality(Before(b)') = Cardinality(Before(b)) - Link(z, b) + Link(z, b)'
          BY <1>2, <1>6, <1>7, BeforeAfter
    <2>2. Link(z, b) = 0 BY <1>7, PbufAssumption DEF Link
    <2>3. Link(z, b)' = Same(tail, b) BY <1>2, <1>6, <1>7 DEF Link, Same, Live
    <2>4. HeldBy(b)' = HeldBy(b) /\ FreedBy(b)' = FreedBy(b) BY <1>2 DEF HeldBy, FreedBy
    <2>5. References(b)' = Cardinality(HeldBy(b)') + Cardinality(FreedBy(b)') + Cardinality(Before(b)')
          BY DEF References
    <2>6. Same(tail, b) \in {0, 1} BY DEF Same
    <2>7. References(b)' = References(b) + Same(tail, b)
          BY <2>1, <2>2, <2>3, <2>4, <2>5, <2>6, FiniteReferences DEF References
    <2>8. Live(b)' <=> Live(b) BY <1>2 DEF Live
    <2>9. CASE b = tail
      <3>1. ref'[b] = ref[b] + 1 /\ References(b)' = References(b) + 1
            BY <1>2, <1>3, <2>7, <2>9 DEF PInv, PbufTypeOK, Same
      <3> QED BY <1>4, <2>8, <2>9, <3>1 DEF Counted
    <2>10. CASE b # tail
      <3>1. ref'[b] = ref[b] /\ References(b)' = References(b)
            BY <1>2, <2>7, <2>10, FiniteReferences DEF PInv, PbufTypeOK, Same
      <3> QED BY <2>8, <3>1 DEF Counted, PInv, RefsAreExact
    <2> QED BY <2>9, <2>10
  <1>10. PlacesFit'
    <2>1. \A k \in Holder : Releasing(k) => ref'[cursor[k]] = ref[cursor[k]]
          BY <1>2, <1>3, <1>4 DEF PInv, PlacesFit, PbufTypeOK, Releasing, Freeing
    <2> QED BY <1>2, <2>1 DEF PInv, PlacesFit, Freeing, Releasing, Live
  <1>11. pp_rx_pool_usage' = Cardinality(DriverBuffers')
    <2>1. DriverBuffers' = DriverBuffers BY <1>2 DEF DriverBuffers
    <2> QED BY <1>2, <2>1 DEF PInv, RefsAreExact
  <1> QED BY <1>8, <1>9, <1>10, <1>11 DEF PInv, RefsAreExact, Counted

(* The invariant holds at first.                                            *)
LEMMA PInit == PbufInit => PInv
  <1> SUFFICES ASSUME PbufInit PROVE PInv OBVIOUS
  <1>1. PbufTypeOK BY DEF PbufInit, PbufTypeOK
  <1>2. PlacesFit BY DEF PbufInit, PlacesFit, Freeing, Releasing
  <1>3. \A b \in PBUF : ~Live(b) BY DEF PbufInit, Live
  <1>4. \A b \in PBUF : HeldBy(b) = {} /\ FreedBy(b) = {} /\ Before(b) = {}
        BY <1>3, PbufAssumption DEF PbufInit, HeldBy, FreedBy, Before
  <1>5. Cardinality({}) = 0 BY FS_EmptySet
  <1>6. \A b \in PBUF : References(b) = 0 BY <1>4, <1>5 DEF References
  <1>7. DriverBuffers = {} BY DEF PbufInit, DriverBuffers
  <1> QED BY <1>1, <1>2, <1>3, <1>5, <1>6, <1>7 DEF PInv, RefsAreExact, PbufInit

(* Every step keeps it.                                                     *)
LEMMA PStep == PInv /\ [PbufNext]_allVars => PInv'
  <1> SUFFICES ASSUME PInv, [PbufNext]_allVars PROVE PInv' OBVIOUS
  <1>1. ASSUME NEW h \in Holder, netbuf_free(h) PROVE PInv'
        BY <1>1, GiveUpHand DEF netbuf_free
  <1>2. ASSUME NEW h \in Holder, netbuf_alloc(h) PROVE PInv'
        BY <1>2, GiveUpHand DEF netbuf_alloc
  <1>3. ASSUME NEW h \in Holder, NEW size, pbuf_free_header(h, size) PROVE PInv'
        BY <1>3, header_Inv DEF pbuf_free_header, pbufVars
  <1>4. ASSUME NEW h \in Holder, pbuf_free_header_done(h) PROVE PInv'
        BY <1>4, header_Inv DEF pbuf_free_header_done, pbufVars
  <1>5. ASSUME NEW h \in Holder, pbuf_remove_header(h) PROVE PInv'
    <2>1. /\ doing[h] = "header"
          /\ UNCHANGED <<next, ref, alloc_src, pp_rx_pool_usage, hand, doing, cursor, then>>
          BY <1>5 DEF pbuf_remove_header
    <2>2. doing' = [doing EXCEPT ![h] = "header"] BY <2>1 DEF PInv, PbufTypeOK
    <2> QED BY <2>1, <2>2, header_Inv
  <1>6. CASE UNCHANGED allVars
    <2>1. UNCHANGED <<next, ref, alloc_src, pp_rx_pool_usage, hand, doing, cursor, then>>
          BY <1>6 DEF allVars, pbufVars, holderVars
    <2>2. PbufTypeOK' BY <2>1 DEF PInv, PbufTypeOK
    <2>3. PlacesFit' BY <2>1 DEF PInv, PlacesFit, Freeing, Releasing, Live
    <2>4. RefsAreExact'
          BY <2>1 DEF PInv, RefsAreExact, References, HeldBy, FreedBy, Before, Live, DriverBuffers
    <2> QED BY <2>2, <2>3, <2>4 DEF PInv
  <1> QED BY <1>1, <1>2, <1>3, <1>4, <1>5, <1>6, pbuf_alloc_Inv, pbuf_chain_Inv, pbuf_ref_Inv,
             pbuf_free_Inv, pp_recycle_Inv, memp_free_Inv, header_cut_Inv DEF PbufNext

(* The reference counts of pbuf.c are exact for any number of holders and   *)
(* pbufs: while packets are shared, chained, cut and freed by several       *)
(* tasks, pbuf_free releases a pbuf when the last reference goes, not       *)
(* before and not twice, no pbuf is lost, and each buffer of the driver     *)
(* goes back once.                                                          *)
THEOREM ReferencesStayExact == PbufSpec => []RefsAreExact
  <1>1. PbufInit => PInv BY PInit
  <1>2. PInv /\ [PbufNext]_allVars => PInv' BY PStep
  <1>3. PInv => RefsAreExact BY DEF PInv
  <1> QED BY <1>1, <1>2, <1>3, PTL DEF PbufSpec

(* A path is a sequence of pbufs that follows the links from b to the end   *)
(* of the chain.                                                            *)
IsPath(nx, c, b) ==
    /\ c \in Seq(PBUF) /\ Len(c) > 0 /\ c[1] = b
    /\ \A i \in 1 .. Len(c) : i < Len(c) => c[i + 1] = nx[c[i]]
    /\ nx[c[Len(c)]] = NoBuf

(* Among the pbufs of S no link leaves S, and a total is the length and the *)
(* total of the next.                                                       *)
Heap(nx, ln, tl, S) ==
    /\ nx \in Links /\ ln \in [PBUF -> Nat] /\ tl \in [PBUF -> Nat] /\ S \subseteq PBUF
    /\ \A b \in S : /\ ln[b] > 0
                    /\ nx[b] \in S \cup {NoBuf}
                    /\ tl[b] = ln[b] + IF nx[b] = NoBuf THEN 0 ELSE tl[nx[b]]

(* Of two paths from b the shorter is the longer: it has reached the end.   *)
LEMMA OnePath ==
    ASSUME NEW nx \in Links, NEW b \in PBUF, NEW c, NEW d,
           IsPath(nx, c, b), IsPath(nx, d, b), Len(c) <= Len(d)
    PROVE  c = d
  <1>1. PICK m, n : m = Len(c) /\ n = Len(d) OBVIOUS
  <1>2. /\ c \in Seq(PBUF) /\ m > 0 /\ c[1] = b
        /\ \A i \in 1 .. m : i < m => c[i + 1] = nx[c[i]]
        /\ nx[c[m]] = NoBuf
        BY <1>1 DEF IsPath
  <1>3. /\ d \in Seq(PBUF) /\ n > 0 /\ d[1] = b
        /\ \A i \in 1 .. n : i < n => d[i + 1] = nx[d[i]]
        /\ nx[d[n]] = NoBuf
        BY <1>1 DEF IsPath
  <1>4. m \in Nat /\ n \in Nat /\ m <= n BY <1>1, <1>2, <1>3, LenProperties
  <1>5. \A i \in 1 .. m : c[i] = d[i]
    <2> DEFINE Good == {i \in 1 .. m : c[i] = d[i]}
    <2>1. 1 \in Good BY <1>2, <1>3, <1>4
    <2>2. ASSUME NEW i \in 1 .. m - 1, i \in Good PROVE i + 1 \in Good
      <3>1. i \in 1 .. m /\ i \in 1 .. n /\ i < m /\ i < n /\ i + 1 \in 1 .. m BY <1>4
      <3>2. c[i + 1] = nx[c[i]] /\ d[i + 1] = nx[d[i]] /\ c[i] = d[i] BY <1>2, <1>3, <2>2, <3>1
      <3> QED BY <3>1, <3>2
    <2>3. \A i \in 1 .. m : i \in Good
      <3> HIDE DEF Good
      <3> QED BY <1>4, <2>1, <2>2, Upward
    <2> QED BY <2>3
  <1>6. m = n
    <2> SUFFICES ASSUME m < n PROVE FALSE BY <1>4
    <2>1. m \in 1 .. m /\ m \in 1 .. n /\ m + 1 \in 1 .. n BY <1>2, <1>4
    <2>2. d[m + 1] = nx[d[m]] /\ d[m] = c[m] BY <1>3, <1>5, <2>1
    <2>3. d[m + 1] = NoBuf BY <1>2, <2>2
    <2>4. d[m + 1] \in PBUF BY <1>1, <1>3, <2>1, ElementOfSeq
    <2> QED BY <2>3, <2>4, PbufAssumption
  <1> QED BY <1>1, <1>2, <1>3, <1>5, <1>6, SeqEqual

(* There is one path from b.                                                *)
LEMMA PathIsUnique ==
    ASSUME NEW nx \in Links, NEW b \in PBUF, NEW c, NEW d,
           IsPath(nx, c, b), IsPath(nx, d, b)
    PROVE  c = d
  <1>1. Len(c) \in Nat /\ Len(d) \in Nat BY LenProperties DEF IsPath
  <1>2. Len(c) <= Len(d) \/ Len(d) <= Len(c) BY <1>1
  <1> QED BY <1>2, OnePath

(* In a heap the chain of b is a path: totals get less along the links, so  *)
(* that no link leads back and the walk reaches the end.                    *)
LEMMA ChainIsPath ==
    ASSUME NEW nx, NEW ln, NEW tl, NEW S, Heap(nx, ln, tl, S), NEW b \in S
    PROVE  /\ IsPath(nx, ChainOf(nx, b), b)
           /\ \A i \in 1 .. Len(ChainOf(nx, b)) : ChainOf(nx, b)[i] \in S
  <1>1. nx \in Links /\ S \subseteq PBUF /\ b \in PBUF BY DEF Heap
  <1>2. PICK k, at :
              /\ k \in 1 .. Size
              /\ ChainOf(nx, b) = [i \in 1 .. k |-> at[i]]
              /\ \A i \in 1 .. k : at[i] \in PBUF
              /\ at[1] = b
              /\ \A i \in 1 .. k : i < k => at[i + 1] = nx[at[i]]
              /\ k < Size => nx[at[k]] = NoBuf
        BY <1>1, ChainIsWalk
  <1>3. k \in Nat /\ k >= 1 /\ Size \in Nat /\ k <= Size BY <1>2, SizeType
  <1>4. \A i \in 1 .. k : at[i] \in S
    <2> DEFINE Good == {i \in 1 .. k : at[i] \in S}
    <2>1. 1 \in Good BY <1>2, <1>3
    <2>2. ASSUME NEW i \in 1 .. k - 1, i \in Good PROVE i + 1 \in Good
      <3>1. i \in 1 .. k /\ i < k /\ i + 1 \in 1 .. k BY <1>3
      <3>2. at[i + 1] = nx[at[i]] /\ at[i + 1] \in PBUF /\ at[i] \in S BY <1>2, <2>2, <3>1
      <3>3. nx[at[i]] \in S \cup {NoBuf} BY <3>2 DEF Heap
      <3> QED BY <3>1, <3>2, <3>3, PbufAssumption
    <2>3. \A i \in 1 .. k : i \in Good
      <3> HIDE DEF Good
      <3> QED BY <1>3, <2>1, <2>2, Upward
    <2> QED BY <2>3
  <1>5. \A i \in 1 .. k : i < k => tl[at[i + 1]] < tl[at[i]]
    <2> TAKE i \in 1 .. k
    <2> HAVE i < k
    <2>1. i + 1 \in 1 .. k BY <1>3
    <2>2. at[i + 1] = nx[at[i]] /\ at[i] \in S /\ at[i + 1] \in S BY <1>2, <1>4, <2>1
    <2>3. nx[at[i]] # NoBuf BY <1>1, <2>2, PbufAssumption
    <2>4. tl[at[i]] = ln[at[i]] + tl[nx[at[i]]] /\ ln[at[i]] > 0 BY <2>2, <2>3 DEF Heap
    <2>5. ln[at[i]] \in Nat /\ tl[nx[at[i]]] \in Nat BY <1>1, <2>2 DEF Heap
    <2> QED BY <2>2, <2>4, <2>5
  <1>6. \A i, j \in 1 .. k : i < j => tl[at[j]] < tl[at[i]]
    <2> TAKE i \in 1 .. k
    <2> DEFINE Good == {j \in 1 .. k : i < j => tl[at[j]] < tl[at[i]]}
    <2>1. \A j \in 1 .. k : tl[at[j]] \in Nat BY <1>2 DEF Heap
    <2>2. 1 \in Good BY <1>3
    <2>3. ASSUME NEW j \in 1 .. k - 1, j \in Good PROVE j + 1 \in Good
      <3>1. j \in 1 .. k /\ j < k /\ j + 1 \in 1 .. k BY <1>3
      <3>2. tl[at[j + 1]] < tl[at[j]] BY <1>5, <3>1
      <3>3. i < j + 1 => i = j \/ i < j BY <3>1
      <3> QED BY <2>1, <2>3, <3>1, <3>2, <3>3
    <2>4. \A j \in 1 .. k : j \in Good
      <3> HIDE DEF Good
      <3> QED BY <1>3, <2>2, <2>3, Upward
    <2> QED BY <2>4
  <1>7. \A j \in 1 .. k : tl[at[j]] \in Nat BY <1>2 DEF Heap
  <1>8. nx[at[k]] = NoBuf
    <2> SUFFICES ASSUME k = Size, nx[at[k]] # NoBuf PROVE FALSE BY <1>2, <1>3
    <2>0. k \in 1 .. k BY <1>3
    <2>1. nx[at[k]] \in S /\ nx[at[k]] \in PBUF BY <1>4, <2>0 DEF Heap
    <2>2. tl[at[k]] = ln[at[k]] + tl[nx[at[k]]] /\ ln[at[k]] > 0 BY <1>4, <2>0 DEF Heap
    <2>3. ln[at[k]] \in Nat /\ tl[nx[at[k]]] \in Nat BY <1>2, <2>0, <2>1 DEF Heap
    <2>4. tl[nx[at[k]]] < tl[at[k]] BY <2>2, <2>3
    <2> DEFINE f == [i \in 1 .. k |-> at[i]]
    <2>5. \A i, j \in 1 .. k : at[i] = at[j] => i = j
      <3> TAKE i, j \in 1 .. k
      <3>1. i < j \/ j < i \/ i = j BY <1>3
      <3> QED BY <1>6, <1>7, <3>1
    <2>6. f \in Injection(1 .. k, PBUF) BY <1>2, <2>5 DEF Injection, IsInjective
    <2>7. Cardinality(1 .. k) = Cardinality(PBUF)
      <3>1. 1 \in Int /\ k \in Int /\ ~(1 > k) BY <1>3
      <3>2. Cardinality(1 .. k) = k - 1 + 1 BY <3>1, FS_Interval
      <3> QED BY <1>3, <3>2 DEF Size
    <2> HIDE DEF f
    <2>8. f \in Surjection(1 .. k, PBUF) BY <2>6, <2>7, FS_Injection, PbufAssumption
    <2>9. PICK i \in 1 .. k : f[i] = nx[at[k]] BY <2>1, <2>8 DEF Surjection
    <2>10. at[i] = nx[at[k]] BY <2>9 DEF f
    <2>11. i < k \/ i = k BY <1>3
    <2>12. tl[at[k]] <= tl[at[i]]
      <3>1. CASE i < k BY <1>6, <1>7, <2>0, <3>1
      <3>2. CASE i = k BY <1>7, <2>0, <3>2
      <3> QED BY <2>11, <3>1, <3>2
    <2> QED BY <1>7, <2>0, <2>4, <2>10, <2>12
  <1> DEFINE c == ChainOf(nx, b)
  <1>9. c \in Seq(PBUF) /\ Len(c) = k /\ \A i \in 1 .. k : c[i] = at[i] BY <1>2, <1>3
  <1> HIDE DEF c
  <1>10. \A i \in 1 .. k : i < k => i + 1 \in 1 .. k BY <1>3
  <1>11. k \in 1 .. k /\ 1 \in 1 .. k BY <1>3
  <1>12. IsPath(nx, c, b) BY <1>2, <1>3, <1>8, <1>9, <1>10, <1>11 DEF IsPath
  <1> QED BY <1>4, <1>9, <1>12 DEF c

(* Bytes, Concat and Contents for any lengths, payloads and links, and the  *)
(* type of a length.                                                        *)
Byte == PBUF \X Int
BytesOf(ln, pl, b) == [i \in 1 .. ln[b] |-> <<b, pl[b] + i>>]
GrowFrom(ln, pl, c, f, i) == IF i = 0 THEN << >> ELSE f[i - 1] \o BytesOf(ln, pl, c[i])
PrefixesOf(ln, pl, c) == CHOOSE f : f = [i \in 0 .. Len(c) |-> GrowFrom(ln, pl, c, f, i)]
JoinOf(ln, pl, c) == PrefixesOf(ln, pl, c)[Len(c)]
ContentsOf(nx, ln, pl, b) == JoinOf(ln, pl, ChainOf(nx, b))
Sizes == [PBUF -> Nat]

(* They are those of the model when the fields are those of the state.      *)
LEMMA ContentsIsContentsOf ==
    ASSUME NEW b PROVE Contents(b) = ContentsOf(next, len, payload, b)
  <1>1. ASSUME NEW c PROVE Concat(c) = JoinOf(len, payload, c)
        BY DEF Concat, JoinOf, PrefixesOf, GrowFrom, Bytes, BytesOf
  <1>2. Concat(Chain(b)) = JoinOf(len, payload, Chain(b)) BY <1>1
  <1> QED BY <1>2, ChainIsChainOf DEF Contents, ContentsOf

(* The bytes of a pbuf are as many as its length, from its payload on.      *)
LEMMA BytesType ==
    ASSUME NEW ln \in Sizes, NEW pl \in Sizes, NEW b \in PBUF
    PROVE  /\ BytesOf(ln, pl, b) \in Seq(Byte)
           /\ Len(BytesOf(ln, pl, b)) = ln[b]
           /\ \A i \in 1 .. ln[b] : BytesOf(ln, pl, b)[i] = <<b, pl[b] + i>>
  <1>1. ln[b] \in Nat /\ pl[b] \in Nat BY DEF Sizes
  <1>2. \A i \in 1 .. ln[b] : <<b, pl[b] + i>> \in Byte BY <1>1 DEF Byte
  <1> QED BY <1>1, <1>2 DEF BytesOf

(* The prefixes of a concatenation, a recursive function, are what their    *)
(* definition says.                                                         *)
LEMMA PrefixSteps ==
    ASSUME NEW ln, NEW pl, NEW c, Len(c) \in Nat
    PROVE  \A i \in 0 .. Len(c) :
              PrefixesOf(ln, pl, c)[i] = GrowFrom(ln, pl, c, PrefixesOf(ln, pl, c), i)
  <1>1. \E f : f = [i \in 0 .. Len(c) |-> GrowFrom(ln, pl, c, f, i)]
    <2> DEFINE Has(k) == \E f : f = [i \in 0 .. k |-> GrowFrom(ln, pl, c, f, i)]
               Good == {k \in 0 .. Len(c) : Has(k)}
    <2>1. Has(0)
      <3> DEFINE g == [i \in 0 .. 0 |-> << >>]
      <3>1. \A i \in 0 .. 0 : g[i] = GrowFrom(ln, pl, c, g, i) BY DEF GrowFrom
      <3>2. g = [i \in 0 .. 0 |-> GrowFrom(ln, pl, c, g, i)] BY <3>1
      <3> HIDE DEF g
      <3> QED BY <3>2
    <2>2. ASSUME NEW j \in 0 .. Len(c) - 1, Has(j) PROVE Has(j + 1)
      <3>1. PICK f : f = [i \in 0 .. j |-> GrowFrom(ln, pl, c, f, i)] BY <2>2
      <3> DEFINE k == j + 1
                 g == [i \in 0 .. k |-> IF i = k THEN GrowFrom(ln, pl, c, f, k) ELSE f[i]]
      <3>2. \A i \in 0 .. j : g[i] = f[i] OBVIOUS
      <3>3. \A i \in 0 .. k : GrowFrom(ln, pl, c, g, i) = GrowFrom(ln, pl, c, f, i)
            BY <3>2 DEF GrowFrom
      <3>4. \A i \in 0 .. j : f[i] = GrowFrom(ln, pl, c, f, i) BY <3>1
      <3>5. \A i \in 0 .. k : g[i] = GrowFrom(ln, pl, c, g, i)
        <4> TAKE i \in 0 .. k
        <4>1. CASE i = k BY <3>3, <4>1
        <4>2. CASE i # k
          <5>1. i \in 0 .. j BY <4>2
          <5> QED BY <3>2, <3>3, <3>4, <5>1
        <4> QED BY <4>1, <4>2
      <3>6. g = [i \in 0 .. k |-> GrowFrom(ln, pl, c, g, i)] BY <3>5
      <3> HIDE DEF g
      <3> QED BY <3>6
    <2> HIDE DEF Has
    <2>3. PICK n \in Nat : n = Len(c) OBVIOUS
    <2>4. 0 \in Good /\ \A i \in 0 .. n - 1 : i \in Good => i + 1 \in Good BY <2>1, <2>2, <2>3
    <2>5. n \in Good
      <3> HIDE DEF Good
      <3>1. \A i \in 0 .. n : i \in Good BY <2>4, Upward
      <3> QED BY <3>1
    <2> QED BY <2>3, <2>5 DEF Has
  <1>2. PrefixesOf(ln, pl, c) = [i \in 0 .. Len(c) |-> GrowFrom(ln, pl, c, PrefixesOf(ln, pl, c), i)]
        BY <1>1, Zenon DEF PrefixesOf
  <1> QED BY <1>2

(* Each prefix is the one before and the bytes of one more pbuf.            *)
LEMMA PrefixFacts ==
    ASSUME NEW ln \in Sizes, NEW pl \in Sizes, NEW c \in Seq(PBUF)
    PROVE  /\ PrefixesOf(ln, pl, c)[0] = << >>
           /\ \A i \in 1 .. Len(c) : PrefixesOf(ln, pl, c)[i] =
                                     PrefixesOf(ln, pl, c)[i - 1] \o BytesOf(ln, pl, c[i])
           /\ \A i \in 0 .. Len(c) : PrefixesOf(ln, pl, c)[i] \in Seq(Byte)
  <1> DEFINE part == PrefixesOf(ln, pl, c)
             Good == {i \in 0 .. Len(c) : part[i] \in Seq(Byte)}
  <1>1. Len(c) \in Nat BY LenProperties
  <1>2. part[0] = << >>
    <2>1. 0 \in 0 .. Len(c) BY <1>1
    <2> QED BY <1>1, <2>1, PrefixSteps DEF GrowFrom
  <1>3. ASSUME NEW i \in 1 .. Len(c) PROVE part[i] = part[i - 1] \o BytesOf(ln, pl, c[i])
    <2>1. i \in 0 .. Len(c) /\ i # 0 BY <1>1
    <2>2. part[i] = GrowFrom(ln, pl, c, part, i) BY <1>1, <2>1, PrefixSteps
    <2> HIDE DEF part
    <2> QED BY <2>1, <2>2 DEF GrowFrom
  <1> HIDE DEF part
  <1>4. 0 \in Good
    <2>1. << >> \in Seq(Byte) BY EmptySeq
    <2>2. part[0] \in Seq(Byte) BY <1>2, <2>1
    <2>3. 0 \in 0 .. Len(c) BY <1>1
    <2> QED BY <2>2, <2>3
  <1>5. ASSUME NEW i \in 0 .. Len(c) - 1, i \in Good PROVE i + 1 \in Good
    <2>1. i + 1 \in 1 .. Len(c) /\ i + 1 \in 0 .. Len(c) /\ (i + 1) - 1 = i BY <1>1
    <2>2. c[i + 1] \in PBUF BY <2>1, ElementOfSeq
    <2>3. BytesOf(ln, pl, c[i + 1]) \in Seq(Byte) BY <2>2, BytesType
    <2>4. part[i + 1] = part[i] \o BytesOf(ln, pl, c[i + 1]) BY <1>3, <2>1
    <2>5. part[i] \in Seq(Byte) BY <1>5
    <2>6. part[i + 1] \in Seq(Byte) BY <2>3, <2>4, <2>5, ConcatProperties
    <2> QED BY <2>1, <2>6
  <1>6. \A i \in 0 .. Len(c) : i \in Good
    <2>1. PICK n \in Nat : n = Len(c) BY <1>1
    <2>2. \A i \in 0 .. n - 1 : i \in Good => i + 1 \in Good BY <1>5, <2>1
    <2> HIDE DEF Good
    <2>3. 0 \in Int /\ n \in Int /\ (0 <= n => 0 \in Good) BY <1>4
    <2>4. \A i \in 0 .. n : i \in Good BY <2>2, <2>3, Upward, Zenon
    <2> QED BY <2>1, <2>4
  <1> QED BY <1>2, <1>3, <1>6 DEF part

(* A concatenation is a sequence of bytes.                                  *)
LEMMA JoinType ==
    ASSUME NEW ln \in Sizes, NEW pl \in Sizes, NEW c \in Seq(PBUF)
    PROVE  JoinOf(ln, pl, c) \in Seq(Byte)
  <1>1. Len(c) \in 0 .. Len(c) BY LenProperties
  <1> QED BY <1>1, PrefixFacts DEF JoinOf

(* The pbufs of c have the same lengths and payloads.                       *)
SameAlong(ln, pl, ln2, pl2, c) ==
    \A i \in 1 .. Len(c) : ln2[c[i]] = ln[c[i]] /\ pl2[c[i]] = pl[c[i]]

(* It depends on the lengths and payloads of its own pbufs only.            *)
LEMMA JoinSame ==
    ASSUME NEW ln \in Sizes, NEW pl \in Sizes, NEW ln2 \in Sizes, NEW pl2 \in Sizes,
           NEW c \in Seq(PBUF), SameAlong(ln, pl, ln2, pl2, c)
    PROVE  JoinOf(ln2, pl2, c) = JoinOf(ln, pl, c)
  <1> DEFINE part == PrefixesOf(ln, pl, c)
             q == PrefixesOf(ln2, pl2, c)
             Good == {i \in 0 .. Len(c) : part[i] = q[i]}
  <1>1. Len(c) \in Nat BY LenProperties
  <1>2. \A i \in 1 .. Len(c) : BytesOf(ln2, pl2, c[i]) = BytesOf(ln, pl, c[i])
        BY DEF SameAlong, BytesOf
  <1>3. /\ part[0] = << >>
        /\ \A i \in 1 .. Len(c) : part[i] = part[i - 1] \o BytesOf(ln, pl, c[i])
        BY PrefixFacts
  <1>4. /\ q[0] = << >>
        /\ \A i \in 1 .. Len(c) : q[i] = q[i - 1] \o BytesOf(ln2, pl2, c[i])
        BY PrefixFacts
  <1> HIDE DEF part, q
  <1>5. 0 \in Good BY <1>1, <1>3, <1>4
  <1>6. ASSUME NEW i \in 0 .. Len(c) - 1, i \in Good PROVE i + 1 \in Good
    <2>1. i + 1 \in 1 .. Len(c) /\ i + 1 \in 0 .. Len(c) /\ (i + 1) - 1 = i BY <1>1
    <2>2. part[i + 1] = part[i] \o BytesOf(ln, pl, c[i + 1]) BY <1>3, <2>1
    <2>3. q[i + 1] = q[i] \o BytesOf(ln2, pl2, c[i + 1]) BY <1>4, <2>1
    <2>4. part[i + 1] = q[i + 1] BY <1>2, <1>6, <2>1, <2>2, <2>3
    <2> QED BY <2>1, <2>4
  <1>7. \A i \in 0 .. Len(c) : i \in Good
    <2>1. PICK n \in Nat : n = Len(c) BY <1>1
    <2>2. \A i \in 0 .. n - 1 : i \in Good => i + 1 \in Good BY <1>6, <2>1
    <2> HIDE DEF Good
    <2>3. 0 \in Int /\ n \in Int /\ (0 <= n => 0 \in Good) BY <1>5
    <2>4. \A i \in 0 .. n : i \in Good BY <2>2, <2>3, Upward, Zenon
    <2> QED BY <2>1, <2>4
  <1>8. Len(c) \in 0 .. Len(c) BY <1>1
  <1> QED BY <1>7, <1>8 DEF JoinOf, part, q

(* What a pbuf in front adds to a concatenation.                            *)
LEMMA JoinTail ==
    ASSUME NEW ln \in Sizes, NEW pl \in Sizes, NEW b \in PBUF, NEW c \in Seq(PBUF),
           NEW d \in Seq(PBUF), Len(d) = Len(c) + 1, d[1] = b,
           \A i \in 1 .. Len(c) : d[i + 1] = c[i]
    PROVE  JoinOf(ln, pl, d) = BytesOf(ln, pl, b) \o JoinOf(ln, pl, c)
  <1> DEFINE part == PrefixesOf(ln, pl, c)
             q == PrefixesOf(ln, pl, d)
             x == BytesOf(ln, pl, b)
             Good == {i \in 0 .. Len(c) : q[i + 1] = x \o part[i]}
  <1>1. Len(c) \in Nat /\ Len(d) \in Nat BY LenProperties
  <1>2. /\ part[0] = << >>
        /\ \A i \in 1 .. Len(c) : part[i] = part[i - 1] \o BytesOf(ln, pl, c[i])
        /\ \A i \in 0 .. Len(c) : part[i] \in Seq(Byte)
        BY PrefixFacts
  <1>3. /\ q[0] = << >>
        /\ \A i \in 1 .. Len(d) : q[i] = q[i - 1] \o BytesOf(ln, pl, d[i])
        BY PrefixFacts
  <1>4. x \in Seq(Byte) BY BytesType
  <1> HIDE DEF part, q
  <1>5. 0 \in Good
    <2>1. 1 \in 1 .. Len(d) /\ 1 - 1 = 0 BY <1>1
    <2>2. q[1] = q[0] \o x BY <1>3, <2>1
    <2> HIDE DEF x
    <2>3. q[1] = x /\ x \o part[0] = x BY <1>2, <1>3, <1>4, <2>2, ConcatEmptySeq
    <2> QED BY <1>1, <2>3
  <1>6. ASSUME NEW i \in 0 .. Len(c) - 1, i \in Good PROVE i + 1 \in Good
    <2>1. i + 1 \in 1 .. Len(c) /\ i + 1 \in 0 .. Len(c) /\ (i + 1) - 1 = i BY <1>1
    <2>2. (i + 1) + 1 \in 1 .. Len(d) /\ ((i + 1) + 1) - 1 = i + 1 BY <1>1
    <2>3. PICK y : y = BytesOf(ln, pl, c[i + 1]) OBVIOUS
    <2>4. d[(i + 1) + 1] = c[i + 1] /\ c[i + 1] \in PBUF BY <2>1, ElementOfSeq
    <2>5. y \in Seq(Byte) BY <2>3, <2>4, BytesType
    <2>6. part[i + 1] = part[i] \o y BY <1>2, <2>1, <2>3
    <2>7. q[(i + 1) + 1] = q[i + 1] \o y BY <1>3, <2>2, <2>3, <2>4
    <2>8. q[i + 1] = x \o part[i] BY <1>6
    <2>9. part[i] \in Seq(Byte) BY <1>2, <2>1
    <2> HIDE DEF x
    <2>10. (x \o part[i]) \o y = x \o (part[i] \o y)
      <3>1. PICK u, v : u = x /\ v = part[i] OBVIOUS
      <3>2. u \in Seq(Byte) /\ v \in Seq(Byte) /\ y \in Seq(Byte) BY <1>4, <2>5, <2>9, <3>1
      <3>3. (u \o v) \o y = u \o (v \o y) BY <3>2, Z3
      <3> QED BY <3>1, <3>3
    <2>11. q[(i + 1) + 1] = x \o part[i + 1] BY <2>6, <2>7, <2>8, <2>10
    <2> QED BY <2>1, <2>11
  <1>7. \A i \in 0 .. Len(c) : i \in Good
    <2>1. PICK n \in Nat : n = Len(c) BY <1>1
    <2>2. \A i \in 0 .. n - 1 : i \in Good => i + 1 \in Good BY <1>6, <2>1
    <2> HIDE DEF Good
    <2>3. 0 \in Int /\ n \in Int /\ (0 <= n => 0 \in Good) BY <1>5
    <2>4. \A i \in 0 .. n : i \in Good BY <2>2, <2>3, Upward, Zenon
    <2> QED BY <2>1, <2>4
  <1>8. Len(c) \in 0 .. Len(c) BY <1>1
  <1>9. q[Len(d)] = x \o part[Len(c)] BY <1>7, <1>8
  <1> QED BY <1>9 DEF JoinOf, part, q

(* The contents of a packet are the bytes of its first pbuf and the         *)
(* contents of the rest.                                                    *)
LEMMA ContentsUnfold ==
    ASSUME NEW nx, NEW ln, NEW tl, NEW pl \in Sizes, NEW S, Heap(nx, ln, tl, S), NEW b \in S
    PROVE  ContentsOf(nx, ln, pl, b) =
               IF nx[b] = NoBuf THEN BytesOf(ln, pl, b)
               ELSE BytesOf(ln, pl, b) \o ContentsOf(nx, ln, pl, nx[b])
  <1> DEFINE d == ChainOf(nx, b)
             c == IF nx[b] = NoBuf THEN << >> ELSE ChainOf(nx, nx[b])
             e == <<b>> \o c
  <1>1. nx \in Links /\ ln \in Sizes /\ b \in PBUF /\ nx[b] \in S \cup {NoBuf} /\ S \subseteq PBUF
        BY DEF Heap, Sizes
  <1>2. IsPath(nx, d, b) BY ChainIsPath
  <1>3. nx[b] # NoBuf => IsPath(nx, c, nx[b]) BY <1>1, ChainIsPath
  <1>4. c \in Seq(PBUF)
    <2>1. << >> \in Seq(PBUF) BY EmptySeq
    <2> QED BY <1>3, <2>1 DEF IsPath
  <1>5. nx[b] = NoBuf => c = << >> OBVIOUS
  <1> HIDE DEF c
  <1>6. Len(c) \in Nat BY <1>4, LenProperties
  <1>7. <<b>> \in Seq(PBUF) /\ Len(<<b>>) = 1 /\ <<b>>[1] = b BY <1>1
  <1>8. /\ e \in Seq(PBUF) /\ Len(e) = Len(c) + 1
        /\ \A i \in 1 .. 1 + Len(c) : e[i] = IF i <= 1 THEN <<b>>[i] ELSE c[i - 1]
        BY <1>4, <1>6, <1>7, ConcatProperties
  <1> HIDE DEF e
  <1>9. e[1] = b
    <2>1. 1 \in 1 .. 1 + Len(c) BY <1>6
    <2> QED BY <1>7, <1>8, <2>1
  <1>10. \A i \in 1 .. Len(c) : e[i + 1] = c[i]
    <2> TAKE i \in 1 .. Len(c)
    <2>1. i + 1 \in 1 .. 1 + Len(c) /\ ~(i + 1 <= 1) /\ (i + 1) - 1 = i BY <1>6
    <2> QED BY <1>8, <2>1
  <1>11. IsPath(nx, e, b)
    <2>1. CASE nx[b] = NoBuf
      <3>1. Len(c) = 0 BY <1>5, <2>1
      <3> QED BY <1>8, <1>9, <2>1, <3>1 DEF IsPath
    <2>2. CASE nx[b] # NoBuf
      <3>1. /\ Len(c) > 0 /\ c[1] = nx[b] /\ nx[c[Len(c)]] = NoBuf
            /\ \A i \in 1 .. Len(c) : i < Len(c) => c[i + 1] = nx[c[i]]
            BY <1>3, <2>2 DEF IsPath
      <3>2. ASSUME NEW i \in 1 .. Len(e), i < Len(e) PROVE e[i + 1] = nx[e[i]]
        <4>1. CASE i = 1
          <5>1. 1 \in 1 .. Len(c) BY <1>6, <3>1
          <5>2. e[1 + 1] = c[1] BY <1>10, <5>1
          <5> QED BY <1>9, <3>1, <4>1, <5>2
        <4>2. CASE i # 1
          <5>1. i - 1 \in 1 .. Len(c) /\ i - 1 < Len(c) /\ (i - 1) + 1 = i /\ i \in 1 .. Len(c)
                BY <1>6, <1>8, <3>2, <4>2
          <5>2. e[i] = c[i - 1] /\ e[i + 1] = c[i] BY <1>10, <5>1
          <5>3. c[i] = nx[c[i - 1]] BY <3>1, <5>1
          <5> QED BY <5>2, <5>3
        <4> QED BY <4>1, <4>2
      <3>3. nx[e[Len(e)]] = NoBuf
        <4>1. Len(c) \in 1 .. Len(c) BY <1>6, <3>1
        <4>2. e[Len(c) + 1] = c[Len(c)] BY <1>10, <4>1
        <4> QED BY <1>8, <3>1, <4>2
      <3>4. Len(e) > 0 BY <1>6, <1>8
      <3> QED BY <1>8, <1>9, <3>2, <3>3, <3>4 DEF IsPath
    <2> QED BY <2>1, <2>2
  <1>12. e = d BY <1>1, <1>2, <1>11, PathIsUnique
  <1>13. JoinOf(ln, pl, e) = BytesOf(ln, pl, b) \o JoinOf(ln, pl, c)
        BY <1>1, <1>4, <1>8, <1>9, <1>10, JoinTail
  <1>14. ContentsOf(nx, ln, pl, b) = BytesOf(ln, pl, b) \o JoinOf(ln, pl, c)
        BY <1>12, <1>13 DEF ContentsOf
  <1>15. CASE nx[b] = NoBuf
    <2>1. JoinOf(ln, pl, c) = << >>
      <3>1. c = << >> /\ Len(c) = 0 BY <1>5, <1>15
      <3> QED BY <1>1, <1>4, <3>1, PrefixFacts DEF JoinOf
    <2>2. BytesOf(ln, pl, b) \in Seq(Byte) BY <1>1, BytesType
    <2>3. BytesOf(ln, pl, b) \o << >> = BytesOf(ln, pl, b) BY <2>2, ConcatEmptySeq
    <2> QED BY <1>14, <1>15, <2>1, <2>3
  <1>16. CASE nx[b] # NoBuf BY <1>14, <1>16 DEF ContentsOf, c
  <1> QED BY <1>15, <1>16

(* In a heap tot_len is the length of the contents.                         *)
LEMMA ContentsFit ==
    ASSUME NEW nx, NEW ln, NEW tl, NEW pl \in Sizes, NEW S, Heap(nx, ln, tl, S), NEW b \in S
    PROVE  ContentsOf(nx, ln, pl, b) \in Seq(Byte) /\ Len(ContentsOf(nx, ln, pl, b)) = tl[b]
  <1> DEFINE Fits(x) == /\ ContentsOf(nx, ln, pl, x) \in Seq(Byte)
                        /\ Len(ContentsOf(nx, ln, pl, x)) = tl[x]
             Bad == {m \in Nat : \E x \in S : tl[x] = m /\ ~Fits(x)}
  <1>1. /\ nx \in Links /\ ln \in Sizes /\ S \subseteq PBUF /\ tl \in Sizes
        BY DEF Heap, Sizes
  <1> SUFFICES ASSUME ~Fits(b) PROVE FALSE OBVIOUS
  <1>2. tl[b] \in Bad BY <1>1 DEF Sizes
  <1>3. PICK m \in Bad : \A n \in Bad : m <= n
    <2>1. Bad \subseteq Nat /\ Bad # {} BY <1>2
    <2> HIDE DEF Bad
    <2> QED BY <2>1, LeastNumber
  <1>4. PICK x \in S : tl[x] = m /\ ~Fits(x) BY <1>3
  <1>5. x \in PBUF /\ ln[x] > 0 /\ nx[x] \in S \cup {NoBuf} /\ ln[x] \in Nat /\ tl[x] \in Nat
        /\ tl[x] = ln[x] + IF nx[x] = NoBuf THEN 0 ELSE tl[nx[x]]
        BY <1>1, <1>4 DEF Heap, Sizes
  <1>6. BytesOf(ln, pl, x) \in Seq(Byte) /\ Len(BytesOf(ln, pl, x)) = ln[x]
        BY <1>1, <1>5, BytesType
  <1>7. CASE nx[x] = NoBuf
    <2>1. ContentsOf(nx, ln, pl, x) = BytesOf(ln, pl, x) BY <1>4, <1>7, ContentsUnfold
    <2> QED BY <1>4, <1>5, <1>6, <1>7, <2>1
  <1>8. CASE nx[x] # NoBuf
    <2>1. nx[x] \in S /\ tl[nx[x]] \in Nat BY <1>1, <1>5, <1>8 DEF Sizes
    <2>2. tl[nx[x]] < m BY <1>4, <1>5, <1>8, <2>1
    <2>3. Fits(nx[x])
      <3> SUFFICES ASSUME ~Fits(nx[x]) PROVE FALSE OBVIOUS
      <3>1. tl[nx[x]] \in Bad BY <2>1
      <3>2. m <= tl[nx[x]] BY <1>3, <3>1
      <3>3. m \in Nat BY <1>4, <1>5
      <3> QED BY <2>1, <2>2, <3>2, <3>3
    <2>4. ContentsOf(nx, ln, pl, x) = BytesOf(ln, pl, x) \o ContentsOf(nx, ln, pl, nx[x])
          BY <1>4, <1>8, ContentsUnfold
    <2>5. PICK u, v : u = BytesOf(ln, pl, x) /\ v = ContentsOf(nx, ln, pl, nx[x]) OBVIOUS
    <2>6. u \in Seq(Byte) /\ v \in Seq(Byte) /\ Len(u) = ln[x] /\ Len(v) = tl[nx[x]]
          BY <1>6, <2>3, <2>5
    <2>7. u \o v \in Seq(Byte) /\ Len(u \o v) = Len(u) + Len(v) BY <2>6, ConcatProperties
    <2>8. Fits(x) BY <1>5, <1>8, <2>1, <2>4, <2>5, <2>6, <2>7
    <2> QED BY <1>4, <2>8
  <1> QED BY <1>7, <1>8

(* The contents are the same after a step that leaves the pbufs of the      *)
(* packet alone.                                                            *)
LEMMA ContentsSame ==
    ASSUME NEW nx, NEW ln, NEW tl, NEW pl \in Sizes, NEW S, Heap(nx, ln, tl, S), NEW b \in S,
           NEW nx2 \in Links, NEW ln2 \in Sizes, NEW tl2 \in Sizes, NEW pl2 \in Sizes,
           \A x \in S : nx2[x] = nx[x] /\ ln2[x] = ln[x] /\ tl2[x] = tl[x] /\ pl2[x] = pl[x]
    PROVE  ContentsOf(nx2, ln2, pl2, b) = ContentsOf(nx, ln, pl, b)
  <1> DEFINE c == ChainOf(nx, b)
             d == ChainOf(nx2, b)
  <1>1. /\ nx \in Links /\ ln \in Sizes /\ tl \in Sizes /\ S \subseteq PBUF /\ b \in PBUF
        BY DEF Heap, Sizes
  <1>2. Heap(nx2, ln2, tl2, S)
    <2>1. ASSUME NEW x \in S
          PROVE  /\ ln2[x] > 0
                 /\ nx2[x] \in S \cup {NoBuf}
                 /\ tl2[x] = ln2[x] + IF nx2[x] = NoBuf THEN 0 ELSE tl2[nx2[x]]
      <3>1. /\ ln[x] > 0 /\ nx[x] \in S \cup {NoBuf}
            /\ tl[x] = ln[x] + IF nx[x] = NoBuf THEN 0 ELSE tl[nx[x]]
            BY DEF Heap
      <3>2. nx[x] # NoBuf => tl2[nx[x]] = tl[nx[x]] BY <3>1
      <3> QED BY <3>1, <3>2
    <2> QED BY <1>1, <2>1 DEF Heap, Sizes
  <1>3. IsPath(nx, c, b) /\ \A i \in 1 .. Len(c) : c[i] \in S BY ChainIsPath
  <1>4. IsPath(nx2, d, b) BY <1>2, ChainIsPath
  <1> HIDE DEF c, d
  <1>5. Len(c) \in Nat /\ Len(c) > 0 /\ c \in Seq(PBUF) BY <1>3, LenProperties DEF IsPath
  <1>6. IsPath(nx2, c, b)
    <2>1. Len(c) \in 1 .. Len(c) BY <1>5
    <2> QED BY <1>3, <2>1 DEF IsPath
  <1>7. c = d BY <1>1, <1>4, <1>6, PathIsUnique
  <1>8. JoinOf(ln2, pl2, c) = JoinOf(ln, pl, c)
    <2>1. SameAlong(ln, pl, ln2, pl2, c) BY <1>3 DEF SameAlong
    <2>2. ln \in Sizes /\ pl \in Sizes /\ ln2 \in Sizes /\ pl2 \in Sizes /\ c \in Seq(PBUF)
          BY <1>1, <1>5
    <2> QED BY <2>1, <2>2, JoinSame
  <1> QED BY <1>7, <1>8 DEF ContentsOf, c, d

(* At most n elements of s from offset on.                                  *)
Slice(s, offset, n) == SubSeq(s, offset + 1, IF offset + n < Len(s) THEN offset + n ELSE Len(s))

(* How long a slice is and what is in it.                                   *)
LEMMA SliceFacts ==
    ASSUME NEW s \in Seq(Byte), NEW offset \in Nat, NEW n \in Nat
    PROVE  /\ Slice(s, offset, n) \in Seq(Byte)
           /\ Len(Slice(s, offset, n)) = IF offset + n < Len(s) THEN n
                                         ELSE IF offset < Len(s) THEN Len(s) - offset ELSE 0
           /\ \A i \in 1 .. Len(Slice(s, offset, n)) : Slice(s, offset, n)[i] = s[offset + i]
  <1> DEFINE m == IF offset + n < Len(s) THEN offset + n ELSE Len(s)
             t == SubSeq(s, offset + 1, m)
  <1>1. Len(s) \in Nat BY LenProperties
  <1>2. m \in Int /\ offset + 1 \in Int /\ m <= Len(s) BY <1>1
  <1>3. \A i \in offset + 1 .. m : s[i] \in Byte
    <2> TAKE i \in offset + 1 .. m
    <2>1. i \in 1 .. Len(s) BY <1>1, <1>2
    <2> QED BY <2>1, ElementOfSeq
  <1> HIDE DEF m
  <1>4. PICK a : a = offset + 1 /\ a \in Int BY <1>2
  <1>5. /\ SubSeq(s, a, m) \in Seq(Byte)
        /\ Len(SubSeq(s, a, m)) = IF a <= m THEN m - a + 1 ELSE 0
        /\ \A i \in 1 .. m - a + 1 : SubSeq(s, a, m)[i] = s[a + i - 1]
        BY <1>2, <1>3, <1>4, SubSeqProperties
  <1>6. Slice(s, offset, n) = SubSeq(s, a, m) BY <1>4 DEF Slice, m
  <1>7. Len(SubSeq(s, a, m)) = IF offset + n < Len(s) THEN n
                               ELSE IF offset < Len(s) THEN Len(s) - offset ELSE 0
        BY <1>1, <1>4, <1>5 DEF m
  <1>8. ASSUME NEW i \in 1 .. Len(SubSeq(s, a, m)) PROVE SubSeq(s, a, m)[i] = s[offset + i]
    <2>1. i \in 1 .. m - a + 1 /\ a + i - 1 = offset + i BY <1>2, <1>4, <1>5
    <2> QED BY <1>5, <2>1
  <1> QED BY <1>5, <1>6, <1>7, <1>8

(* What is left of a slice when a sequence is continued.                    *)
Gap(offset, m) == IF offset > m THEN offset - m ELSE 0
Got(part, offset, n) ==
    SubSeq(part, offset + 1, IF n < Len(part) - offset THEN offset + n ELSE Len(part))

(* What one iteration of pbuf_copy_partial copies is a slice of the bytes   *)
(* of one pbuf.                                                             *)
LEMMA GotIsSlice ==
    ASSUME NEW part \in Seq(Byte), NEW offset \in Nat, NEW n \in Nat
    PROVE  Got(part, offset, n) = Slice(part, offset, n)
  <1>1. Len(part) \in Nat BY LenProperties
  <1>2. n < Len(part) - offset <=> offset + n < Len(part) BY <1>1
  <1> QED BY <1>2 DEF Got, Slice

(* What the next pbuf of a packet adds to a slice.                          *)
LEMMA SliceGrows ==
    ASSUME NEW u \in Seq(Byte), NEW part \in Seq(Byte), NEW offset \in Nat, NEW n \in Nat
    PROVE  \E t :
              /\ t = Slice(u, offset, n)
              /\ Len(t) = n => Slice(u \o part, offset, n) = t
              /\ Len(t) < n => Slice(u \o part, offset, n) =
                                   t \o Slice(part, Gap(offset, Len(u)), n - Len(t))
  <1>0. PICK t : t = Slice(u, offset, n) OBVIOUS
  <1> DEFINE v == u \o part
             w == Slice(v, offset, n)
             o == Gap(offset, Len(u))
             g == Slice(part, o, n - Len(t))
  <1>1. Len(u) \in Nat /\ Len(part) \in Nat BY LenProperties
  <1>2. /\ v \in Seq(Byte) /\ Len(v) = Len(u) + Len(part)
        /\ \A i \in 1 .. Len(u) + Len(part) : v[i] = IF i <= Len(u) THEN u[i] ELSE part[i - Len(u)]
        BY ConcatProperties
  <1>3. /\ t \in Seq(Byte)
        /\ Len(t) = IF offset + n < Len(u) THEN n
                    ELSE IF offset < Len(u) THEN Len(u) - offset ELSE 0
        /\ \A i \in 1 .. Len(t) : t[i] = u[offset + i]
        BY <1>0, SliceFacts
  <1> HIDE DEF v
  <1>4. /\ w \in Seq(Byte)
        /\ Len(w) = IF offset + n < Len(v) THEN n
                    ELSE IF offset < Len(v) THEN Len(v) - offset ELSE 0
        /\ \A i \in 1 .. Len(w) : w[i] = v[offset + i]
        BY <1>2, SliceFacts
  <1> HIDE DEF w
  <1>5. Len(t) \in Nat /\ Len(t) <= n BY <1>1, <1>3
  <1>6. ASSUME Len(t) = n PROVE w = t
    <2>1. Len(w) = Len(t) BY <1>1, <1>2, <1>3, <1>4, <1>6
    <2>2. ASSUME NEW i \in 1 .. Len(t) PROVE w[i] = t[i]
      <3>1. offset + i \in 1 .. Len(u) + Len(part) /\ offset + i <= Len(u)
            BY <1>1, <1>3, <1>5
      <3> QED BY <1>2, <1>3, <1>4, <2>1, <3>1
    <2> QED BY <1>3, <1>4, <2>1, <2>2, SeqEqual
  <1>7. ASSUME Len(t) < n PROVE w = t \o g
    <2>1. o \in Nat /\ n - Len(t) \in Nat BY <1>1, <1>5, <1>7 DEF Gap
    <2>2. /\ g \in Seq(Byte)
          /\ Len(g) = IF o + (n - Len(t)) < Len(part) THEN n - Len(t)
                      ELSE IF o < Len(part) THEN Len(part) - o ELSE 0
          /\ \A i \in 1 .. Len(g) : g[i] = part[o + i]
          BY <2>1, SliceFacts
    <2>3. o = IF offset > Len(u) THEN offset - Len(u) ELSE 0 BY DEF Gap
    <2> HIDE DEF o, g
    <2>4. Len(g) \in Nat BY <2>2, LenProperties
    <2>5. PICK x : x = t \o g OBVIOUS
    <2>5a. PICK lu, lp, lt, lg \in Nat : lu = Len(u) /\ lp = Len(part) /\ lt = Len(t) /\ lg = Len(g)
          BY <1>1, <1>5, <2>4
    <2>5b. /\ lt < n
           /\ lt = IF offset < lu THEN lu - offset ELSE 0
           /\ lg = IF o + (n - lt) < lp THEN n - lt ELSE IF o < lp THEN lp - o ELSE 0
           /\ o = IF offset > lu THEN offset - lu ELSE 0
      <3>1. lt = IF offset + n < lu THEN n ELSE IF offset < lu THEN lu - offset ELSE 0
            BY <1>3, <2>5a
      <3>2. lg = IF o + (n - lt) < lp THEN n - lt ELSE IF o < lp THEN lp - o ELSE 0
            BY <2>2, <2>5a
      <3>3. lt < n /\ o = IF offset > lu THEN offset - lu ELSE 0 BY <1>7, <2>3, <2>5a
      <3> QED BY <3>1, <3>2, <3>3
    <2>6. /\ x \in Seq(Byte) /\ Len(x) = Len(t) + Len(g)
          /\ \A i \in 1 .. Len(t) + Len(g) : x[i] = IF i <= Len(t) THEN t[i] ELSE g[i - Len(t)]
      <3>1. t \in Seq(Byte) /\ g \in Seq(Byte) BY <1>3, <2>2
      <3>2. /\ t \o g \in Seq(Byte) /\ Len(t \o g) = Len(t) + Len(g)
            /\ \A i \in 1 .. Len(t) + Len(g) :
                  (t \o g)[i] = IF i <= Len(t) THEN t[i] ELSE g[i - Len(t)]
            BY <3>1, ConcatProperties
      <3> QED BY <2>5, <3>2
    <2>7. Len(w) = Len(x)
      <3>1. Len(x) = lt + lg BY <2>6, <2>5a
      <3>2. Len(w) = IF offset + n < lu + lp THEN n
                     ELSE IF offset < lu + lp THEN (lu + lp) - offset ELSE 0
            BY <1>2, <1>4, <2>5a
      <3>3. lt + lg = IF offset + n < lu + lp THEN n
                      ELSE IF offset < lu + lp THEN (lu + lp) - offset ELSE 0
            BY <2>5b
      <3> QED BY <3>1, <3>2, <3>3
    <2>8. ASSUME NEW i \in 1 .. Len(w) PROVE w[i] = x[i]
      <3>1. i \in 1 .. Len(t) + Len(g) /\ i \in Nat /\ i >= 1 BY <2>6, <2>7
      <3>2. offset + i \in 1 .. Len(u) + Len(part) BY <1>1, <1>2, <1>4
      <3>3. CASE i <= Len(t)
        <4>1. offset + i <= Len(u) /\ i \in 1 .. Len(t) BY <1>1, <1>3, <3>1, <3>3
        <4> QED BY <1>2, <1>3, <1>4, <2>6, <3>1, <3>2, <3>3, <4>1
      <3>4. CASE ~(i <= Len(t))
        <4>1. ~(offset + i <= Len(u)) /\ offset + i - Len(u) = o + (i - Len(t))
          <5>1. i \in Nat /\ i > lt BY <2>5a, <3>1, <3>4
          <5>2. ~(offset + i <= lu) /\ offset + i - lu = o + (i - lt) BY <2>5b, <5>1
          <5> QED BY <2>5a, <5>2
        <4>2. i - Len(t) \in 1 .. Len(g) BY <1>5, <2>4, <3>1, <3>4
        <4>3. x[i] = g[i - Len(t)] BY <2>6, <3>1, <3>4
        <4>4. x[i] = part[o + (i - Len(t))] BY <2>2, <4>2, <4>3
        <4>5. w[i] = v[offset + i] BY <1>4
        <4>6. v[offset + i] = part[offset + i - Len(u)] BY <1>2, <3>2, <4>1
        <4> QED BY <4>1, <4>4, <4>5, <4>6
      <3> QED BY <3>3, <3>4
    <2>9. w = x BY <1>4, <2>6, <2>7, <2>8, SeqEqual
    <2> QED BY <2>5, <2>9
  <1> QED BY <1>0, <1>6, <1>7 DEF w, v

(* One iteration of the loop of pbuf_copy_partial on a pbuf with the bytes  *)
(* part, and the loop for any lengths and payloads.                         *)
CopyStep(part, s) ==
    IF s.left = 0 THEN s
    ELSE IF s.offset # 0 /\ s.offset >= Len(part)
    THEN [s EXCEPT !.offset = @ - Len(part)]
    ELSE [data |-> s.data \o Got(part, s.offset, s.left),
          left |-> s.left - Len(Got(part, s.offset, s.left)),
          offset |-> OffsetAfterCopy(s.offset)]
CopyFrom(ln, pl, c, n, offset, f, i) ==
    IF i = 0 THEN [data |-> << >>, left |-> n, offset |-> offset]
    ELSE CopyStep(BytesOf(ln, pl, c[i]), f[i - 1])
CopiesOf(ln, pl, c, n, offset) ==
    CHOOSE f : f = [i \in 0 .. Len(c) |-> CopyFrom(ln, pl, c, n, offset, f, i)]

(* They are the loop of the model when the fields are those of the state.   *)
LEMMA CopyIsCopiesOf ==
    ASSUME NEW b, NEW n, NEW offset
    PROVE  pbuf_copy_partial(b, n, offset) =
               CopiesOf(len, payload, ChainOf(next, b), n, offset)[Len(ChainOf(next, b))].data
  <1>1. pbuf_copy_partial(b, n, offset) =
               CopiesOf(len, payload, Chain(b), n, offset)[Len(Chain(b))].data
        BY DEF pbuf_copy_partial, CopiesOf, CopyFrom, CopyStep, Got, Bytes, BytesOf
  <1> QED BY <1>1, ChainIsChainOf

(* The loop, a recursive function, is what its definition says.             *)
LEMMA CopySteps ==
    ASSUME NEW ln, NEW pl, NEW c, Len(c) \in Nat, NEW n, NEW offset
    PROVE  \A i \in 0 .. Len(c) : CopiesOf(ln, pl, c, n, offset)[i] =
               CopyFrom(ln, pl, c, n, offset, CopiesOf(ln, pl, c, n, offset), i)
  <1>1. \E f : f = [i \in 0 .. Len(c) |-> CopyFrom(ln, pl, c, n, offset, f, i)]
    <2> DEFINE Has(k) == \E f : f = [i \in 0 .. k |-> CopyFrom(ln, pl, c, n, offset, f, i)]
               Good == {k \in 0 .. Len(c) : Has(k)}
    <2>1. Has(0)
      <3> DEFINE g == [i \in 0 .. 0 |-> [data |-> << >>, left |-> n, offset |-> offset]]
      <3>1. \A i \in 0 .. 0 : g[i] = CopyFrom(ln, pl, c, n, offset, g, i) BY DEF CopyFrom
      <3>2. g = [i \in 0 .. 0 |-> CopyFrom(ln, pl, c, n, offset, g, i)] BY <3>1
      <3> HIDE DEF g
      <3> QED BY <3>2
    <2>2. ASSUME NEW j \in 0 .. Len(c) - 1, Has(j) PROVE Has(j + 1)
      <3>1. PICK f : f = [i \in 0 .. j |-> CopyFrom(ln, pl, c, n, offset, f, i)] BY <2>2
      <3> DEFINE k == j + 1
                 g == [i \in 0 .. k |-> IF i = k THEN CopyFrom(ln, pl, c, n, offset, f, k) ELSE f[i]]
      <3>2. \A i \in 0 .. j : g[i] = f[i] OBVIOUS
      <3>3. \A i \in 0 .. k : CopyFrom(ln, pl, c, n, offset, g, i) =
                              CopyFrom(ln, pl, c, n, offset, f, i)
        <4> TAKE i \in 0 .. k
        <4>1. CASE i = 0 BY <4>1 DEF CopyFrom
        <4>2. CASE i # 0
          <5>1. i - 1 \in 0 .. j BY <4>2
          <5>2. g[i - 1] = f[i - 1] BY <3>2, <5>1
          <5> HIDE DEF g
          <5> QED BY <5>2 DEF CopyFrom
        <4> QED BY <4>1, <4>2
      <3>4. \A i \in 0 .. j : f[i] = CopyFrom(ln, pl, c, n, offset, f, i) BY <3>1
      <3>5. \A i \in 0 .. k : g[i] = CopyFrom(ln, pl, c, n, offset, g, i)
        <4> TAKE i \in 0 .. k
        <4>1. CASE i = k BY <3>3, <4>1
        <4>2. CASE i # k
          <5>1. i \in 0 .. j BY <4>2
          <5> QED BY <3>2, <3>3, <3>4, <5>1
        <4> QED BY <4>1, <4>2
      <3>6. g = [i \in 0 .. k |-> CopyFrom(ln, pl, c, n, offset, g, i)] BY <3>5
      <3> HIDE DEF g
      <3> QED BY <3>6
    <2> HIDE DEF Has
    <2>3. PICK m \in Nat : m = Len(c) OBVIOUS
    <2>4. 0 \in Good /\ \A i \in 0 .. m - 1 : i \in Good => i + 1 \in Good BY <2>1, <2>2, <2>3
    <2>5. m \in Good
      <3> HIDE DEF Good
      <3>1. \A i \in 0 .. m : i \in Good BY <2>4, Upward
      <3> QED BY <3>1
    <2> QED BY <2>3, <2>5 DEF Has
  <1>2. CopiesOf(ln, pl, c, n, offset) =
            [i \in 0 .. Len(c) |-> CopyFrom(ln, pl, c, n, offset, CopiesOf(ln, pl, c, n, offset), i)]
        BY <1>1, Zenon DEF CopiesOf
  <1> QED BY <1>2

(* The invariant of the loop: u has been passed, and what was asked for in  *)
(* u is copied.                                                             *)
CopiedSoFar(u, n, offset, s) ==
    /\ s \in [data : Seq(Byte), left : Nat, offset : Nat]
    /\ s.data = Slice(u, offset, n)
    /\ s.left = n - Len(s.data)
    /\ s.left # 0 => s.offset = Gap(offset, Len(u))

(* An iteration keeps the invariant of the loop.                            *)
LEMMA CopyStepFits ==
    ASSUME NEW u \in Seq(Byte), NEW part \in Seq(Byte), NEW n \in Nat, NEW offset \in Nat,
           NEW s, CopiedSoFar(u, n, offset, s)
    PROVE  CopiedSoFar(u \o part, n, offset, CopyStep(part, s))
  <1>1. PICK lu, lp, lt \in Nat : lu = Len(u) /\ lp = Len(part) /\ lt = Len(s.data)
        BY LenProperties DEF CopiedSoFar
  <1>2. /\ s \in [data : Seq(Byte), left : Nat, offset : Nat]
        /\ s.data = Slice(u, offset, n) /\ s.left = n - lt /\ lt <= n
        /\ s.left # 0 => s.offset = Gap(offset, lu)
        BY <1>1 DEF CopiedSoFar
  <1>3. /\ lt = n => Slice(u \o part, offset, n) = s.data
        /\ lt < n => Slice(u \o part, offset, n) = s.data \o Slice(part, Gap(offset, lu), n - lt)
    <2>1. PICK t :
              /\ t = Slice(u, offset, n)
              /\ Len(t) = n => Slice(u \o part, offset, n) = t
              /\ Len(t) < n => Slice(u \o part, offset, n) =
                                   t \o Slice(part, Gap(offset, Len(u)), n - Len(t))
          BY SliceGrows
    <2>2. t = s.data BY <1>2, <2>1
    <2> QED BY <1>1, <2>1, <2>2
  <1>4. Len(u \o part) = lu + lp BY <1>1, ConcatProperties
  <1>5. CASE s.left = 0
    <2>1. CopyStep(part, s) = s /\ lt = n BY <1>2, <1>5 DEF CopyStep
    <2> QED BY <1>1, <1>2, <1>3, <1>5, <2>1 DEF CopiedSoFar
  <1>6. CASE s.left # 0 /\ s.offset # 0 /\ s.offset >= lp
    <2>1. CopyStep(part, s) = [s EXCEPT !.offset = s.offset - lp] BY <1>1, <1>6 DEF CopyStep
    <2>2. /\ lt < n /\ s.offset = Gap(offset, lu) /\ s.offset \in Nat
          /\ s.offset - lp \in Nat
          BY <1>2, <1>6
    <2>3. Gap(offset, lu) \in Nat /\ n - lt \in Nat BY <1>2, <2>2
    <2>4. PICK g : g = Slice(part, Gap(offset, lu), n - lt) OBVIOUS
    <2>5. g \in Seq(Byte) /\ Len(g) = 0
      <3>1. PICK o, k \in Nat : o = Gap(offset, lu) /\ k = n - lt BY <2>3
      <3>2. /\ Slice(part, o, k) \in Seq(Byte)
            /\ Len(Slice(part, o, k)) = IF o + k < Len(part) THEN k
                                        ELSE IF o < Len(part) THEN Len(part) - o ELSE 0
            BY SliceFacts
      <3>3. Len(part) = lp /\ o >= lp BY <1>1, <1>6, <2>2, <3>1
      <3>4. Len(Slice(part, o, k)) = 0 BY <3>2, <3>3
      <3> QED BY <2>4, <3>1, <3>2, <3>4
    <2>6. g = << >> BY <2>5, EmptySeq
    <2>7. s.data \in Seq(Byte) BY <1>2
    <2>8. Slice(u \o part, offset, n) = s.data BY <1>3, <2>2, <2>4, <2>6, <2>7, ConcatEmptySeq
    <2>9. s.offset - lp = Gap(offset, lu + lp) BY <1>6, <2>2 DEF Gap
    <2> QED BY <1>1, <1>2, <1>4, <2>1, <2>2, <2>8, <2>9 DEF CopiedSoFar
  <1>7. CASE s.left # 0 /\ ~(s.offset # 0 /\ s.offset >= lp)
    <2>1. PICK g : g = Slice(part, s.offset, s.left) OBVIOUS
    <2>2. Got(part, s.offset, s.left) = g BY <1>2, <2>1, GotIsSlice
    <2>3. CopyStep(part, s) = [data |-> s.data \o g, left |-> s.left - Len(g), offset |-> 0]
          BY <1>1, <1>7, <2>2 DEF CopyStep, OffsetAfterCopy
    <2>4. /\ g \in Seq(Byte)
          /\ Len(g) = IF s.offset + s.left < lp THEN s.left
                      ELSE IF s.offset < lp THEN lp - s.offset ELSE 0
          BY <1>1, <1>2, <2>1, SliceFacts
    <2>5. Len(g) \in Nat /\ s.left - Len(g) \in Nat
      <3>1. s.left \in Nat /\ s.offset \in Nat BY <1>2
      <3> QED BY <2>4, <3>1
    <2>6. lt < n /\ s.offset = Gap(offset, lu) BY <1>2, <1>7
    <2>7. Slice(u \o part, offset, n) = s.data \o g BY <1>2, <1>3, <2>1, <2>6
    <2>8. s.data \o g \in Seq(Byte) /\ Len(s.data \o g) = lt + Len(g)
          BY <1>1, <1>2, <2>4, ConcatProperties
    <2>9. s.left - Len(g) = n - (lt + Len(g)) BY <1>2, <2>5
    <2>10. 0 = Gap(offset, lu + lp) BY <1>7, <2>6 DEF Gap
    <2>11. CopyStep(part, s) \in [data : Seq(Byte), left : Nat, offset : Nat] BY <2>3, <2>5, <2>8
    <2> QED BY <1>4, <2>3, <2>7, <2>8, <2>9, <2>10, <2>11 DEF CopiedSoFar
  <1> QED BY <1>5, <1>6, <1>7

(* What the loop has copied at the end is the part of the packet that was   *)
(* asked for.                                                               *)
LEMMA CopyIsSlice ==
    ASSUME NEW ln \in Sizes, NEW pl \in Sizes, NEW c \in Seq(PBUF), NEW n \in Nat,
           NEW offset \in Nat
    PROVE  CopiesOf(ln, pl, c, n, offset)[Len(c)].data = Slice(JoinOf(ln, pl, c), offset, n)
  <1> DEFINE f == CopiesOf(ln, pl, c, n, offset)
             part == PrefixesOf(ln, pl, c)
             Good == {i \in 0 .. Len(c) : CopiedSoFar(part[i], n, offset, f[i])}
  <1>1. PICK m \in Nat : m = Len(c) BY LenProperties
  <1>2. /\ part[0] = << >>
        /\ \A i \in 1 .. m : part[i] = part[i - 1] \o BytesOf(ln, pl, c[i])
        /\ \A i \in 0 .. m : part[i] \in Seq(Byte)
        BY <1>1, PrefixFacts
  <1>3. \A i \in 0 .. m : f[i] = CopyFrom(ln, pl, c, n, offset, f, i) BY <1>1, CopySteps
  <1> HIDE DEF f, part
  <1>4. 0 \in Good
    <2>1. 0 \in 0 .. m /\ 0 \in 0 .. Len(c) BY <1>1
    <2>2. f[0] = [data |-> << >>, left |-> n, offset |-> offset] BY <1>3, <2>1 DEF CopyFrom
    <2>3. << >> \in Seq(Byte) /\ Len(<< >>) = 0 BY EmptySeq
    <2>4. Slice(<< >>, offset, n) \in Seq(Byte) /\ Len(Slice(<< >>, offset, n)) = 0
      <3>1. PICK e : e = << >> OBVIOUS
      <3>2. e \in Seq(Byte) /\ Len(e) = 0 BY <2>3, <3>1
      <3>3. /\ Slice(e, offset, n) \in Seq(Byte)
            /\ Len(Slice(e, offset, n)) = IF offset + n < Len(e) THEN n
                                           ELSE IF offset < Len(e) THEN Len(e) - offset ELSE 0
            BY <3>2, SliceFacts
      <3> QED BY <3>1, <3>2, <3>3
    <2>5. Slice(<< >>, offset, n) = << >> BY <2>4, EmptySeq
    <2>6. Gap(offset, 0) = offset BY DEF Gap
    <2>7. f[0] \in [data : Seq(Byte), left : Nat, offset : Nat] BY <2>2, <2>3
    <2>8. CopiedSoFar(<< >>, n, offset, f[0]) BY <2>2, <2>3, <2>5, <2>6, <2>7 DEF CopiedSoFar
    <2> QED BY <1>2, <2>1, <2>8
  <1>5. ASSUME NEW i \in 0 .. m - 1, i \in Good PROVE i + 1 \in Good
    <2>1. i + 1 \in 0 .. m /\ i + 1 \in 1 .. m /\ (i + 1) - 1 = i /\ i + 1 # 0 /\ i \in 0 .. m
          BY <1>1
    <2>2. PICK y : y = BytesOf(ln, pl, c[i + 1]) OBVIOUS
    <2>3. c[i + 1] \in PBUF BY <1>1, <2>1, ElementOfSeq
    <2>4. y \in Seq(Byte) BY <2>2, <2>3, BytesType
    <2>5. part[i + 1] = part[i] \o y BY <1>2, <2>1, <2>2
    <2>6. f[i + 1] = CopyStep(y, f[i]) BY <1>3, <2>1, <2>2 DEF CopyFrom
    <2>7. part[i] \in Seq(Byte) BY <1>2, <2>1
    <2>8. CopiedSoFar(part[i], n, offset, f[i]) BY <1>5
    <2>9. CopiedSoFar(part[i] \o y, n, offset, CopyStep(y, f[i])) BY <2>4, <2>7, <2>8, CopyStepFits
    <2> QED BY <1>1, <2>1, <2>5, <2>6, <2>9
  <1>6. m \in Good
    <2> HIDE DEF Good
    <2>1. 0 \in Int /\ m \in Int /\ (0 <= m => 0 \in Good) BY <1>4
    <2>2. \A i \in 0 .. m : i \in Good BY <1>5, <2>1, Upward
    <2> QED BY <2>2
  <1>7. CopiedSoFar(part[m], n, offset, f[m]) BY <1>6
  <1> QED BY <1>1, <1>7 DEF CopiedSoFar, JoinOf, f, part

(* A holder is in pbuf_free_header; b is what it has cut off; b is a pbuf   *)
(* of a packet, not cut off.                                                *)
InHeader(h) == "header" \in {doing[h], then[h]}
CutBy(h, b) == Freeing(h) /\ then[h] = "header" /\ cursor[h] = b
Counts(b) == Live(b) /\ \A h \in Holder : ~CutBy(h, b)

(* Lengths are natural numbers.                                             *)
SizesOK ==
    /\ len \in Sizes /\ tot_len \in Sizes /\ payload \in Sizes
    /\ free_left \in [Holder -> Nat]

(* The total of a pbuf is its length and the total of the next.             *)
TotalFits(b) ==
    len[b] > 0 /\ tot_len[b] = len[b] + IF next[b] = NoBuf THEN 0 ELSE tot_len[next[b]]
TotalsFit == \A b \in PBUF : Counts(b) => TotalFits(b)

(* All pbufs of the packet in hand are in S, linked from one another, and   *)
(* referred to once.                                                        *)
Owns(h, S) ==
    /\ hand[h] \in S /\ S \subseteq PBUF
    /\ \A b \in S : /\ Live(b) /\ ref[b] = 1 /\ next[b] \in S \cup {NoBuf}
                    /\ b = hand[h] \/ \E y \in S : next[y] = b

(* In pbuf_free_header the rest of the packet is owned, and so is the pbuf  *)
(* that has been cut off, which has no next any more.                       *)
HeaderFits(h) ==
    /\ then[h] # "app" => Freeing(h)
    /\ InHeader(h) /\ hand[h] # NoBuf => \E S \in SUBSET PBUF : Owns(h, S)
    /\ Freeing(h) /\ then[h] = "header" => /\ next[cursor[h]] = NoBuf
                                           /\ doing[h] = "free" => ref[cursor[h]] = 1
HeadersOwn == \A h \in Holder : HeaderFits(h)

(* The inductive invariant for the contents of packets.                     *)
PacketInv == PInv /\ SizesOK /\ TotalsFit /\ HeadersOwn

(* A pbuf that is referred to once is in one hand, or freed by one holder,  *)
(* or linked to once.                                                       *)
LEMMA OneReference ==
    ASSUME NEW b, References(b) = 1
    PROVE  /\ FreedBy(b) = {} \/ (HeldBy(b) = {} /\ Before(b) = {})
           /\ HeldBy(b) = {} \/ Before(b) = {}
           /\ \A x, y \in HeldBy(b) : x = y
           /\ \A x, y \in FreedBy(b) : x = y
  <1>1. \A S : IsFiniteSet(S) /\ S # {} => Cardinality(S) >= 1
        BY FS_EmptySet, FS_CardinalityType
  <1>2. \A S, u, v : IsFiniteSet(S) /\ Cardinality(S) = 1 /\ u \in S /\ v \in S => u = v
        BY FS_Singleton
  <1>3. /\ HeldBy(b) # {} => Cardinality(HeldBy(b)) >= 1
        /\ FreedBy(b) # {} => Cardinality(FreedBy(b)) >= 1
        /\ Before(b) # {} => Cardinality(Before(b)) >= 1
        BY <1>1, FiniteReferences
  <1>4. Cardinality(HeldBy(b)) + Cardinality(FreedBy(b)) + Cardinality(Before(b)) = 1
        BY DEF References
  <1>5. /\ FreedBy(b) = {} \/ (HeldBy(b) = {} /\ Before(b) = {})
        /\ HeldBy(b) = {} \/ Before(b) = {}
        BY <1>3, <1>4, FiniteReferences
  <1>6. /\ HeldBy(b) # {} => Cardinality(HeldBy(b)) = 1
        /\ FreedBy(b) # {} => Cardinality(FreedBy(b)) = 1
        BY <1>3, <1>4, FiniteReferences
  <1>7. \A x, y \in HeldBy(b) : x = y BY <1>2, <1>6, FiniteReferences
  <1>8. \A x, y \in FreedBy(b) : x = y BY <1>2, <1>6, FiniteReferences
  <1> QED BY <1>5, <1>7, <1>8

(* What is held or linked to counts: it is not what a holder has cut off.   *)
LEMMA InUseCounts ==
    ASSUME PacketInv, NEW b \in PBUF, NEW x, x \in HeldBy(b) \/ x \in Before(b)
    PROVE  Counts(b) /\ TotalFits(b)
  <1>1. Live(b) /\ ref[b] >= 1 /\ ref[b] = References(b) BY Referred DEF PacketInv
  <1>2. ASSUME NEW h \in Holder, CutBy(h, b) PROVE FALSE
    <2>1. CASE doing[h] = "free"
      <3>1. ref[b] = 1 BY <1>2, <2>1 DEF CutBy, PacketInv, HeadersOwn, HeaderFits
      <3>2. h \in FreedBy(b) BY <1>2, <2>1 DEF CutBy, FreedBy
      <3> QED BY <1>1, <3>1, <3>2, OneReference
    <2>2. CASE Releasing(h)
      <3>1. ref[b] = 0 BY <1>2, <2>2 DEF CutBy, PacketInv, PInv, PlacesFit
      <3> QED BY <1>1, <3>1
    <2> QED BY <1>2, <2>1, <2>2 DEF CutBy, Freeing, Releasing
  <1>3. Counts(b) BY <1>1, <1>2 DEF Counts
  <1> QED BY <1>3 DEF PacketInv, TotalsFit

(* The pbufs of packets.                                                    *)
CountedPbufs == {b \in PBUF : Counts(b)}

(* The pbufs of packets are a heap: links do not leave it, and totals fit.  *)
LEMMA HeapFits ==
    ASSUME PacketInv PROVE Heap(next, len, tot_len, CountedPbufs)
  <1>1. next \in Links /\ len \in [PBUF -> Nat] /\ tot_len \in [PBUF -> Nat]
        BY DEF PacketInv, PInv, PbufTypeOK, SizesOK, Links, Sizes
  <1>2. ASSUME NEW b \in PBUF, Counts(b) PROVE next[b] \in CountedPbufs \cup {NoBuf} /\ TotalFits(b)
    <2>1. TotalFits(b) BY <1>2 DEF PacketInv, TotalsFit
    <2>2. CASE next[b] # NoBuf
      <3>1. next[b] \in PBUF BY <1>1, <2>2 DEF Links
      <3>2. b \in Before(next[b]) BY <1>2 DEF Before, Counts
      <3>3. Counts(next[b]) BY <3>1, <3>2, InUseCounts
      <3> QED BY <2>1, <3>1, <3>3 DEF CountedPbufs
    <2> QED BY <2>1, <2>2
  <1> QED BY <1>1, <1>2 DEF Heap, CountedPbufs, TotalFits

(* What a chain is made of.                                                 *)
LEMMA ChainMembers ==
    ASSUME PacketInv, NEW h \in Holder, hand[h] # NoBuf
    PROVE  /\ hand[h] \in PBUF /\ hand[h] \in InChain(hand[h])
           /\ InChain(hand[h]) \subseteq CountedPbufs
           /\ \A b \in InChain(hand[h]) : next[b] \in InChain(hand[h]) \cup {NoBuf}
           /\ \E c, m : /\ m \in Nat /\ InChain(hand[h]) = {c[i] : i \in 1 .. m}
                        /\ c[1] = hand[h]
                        /\ \A i \in 1 .. m : i < m => c[i + 1] = next[c[i]]
  <1>1. PICK b : b = hand[h] OBVIOUS
  <1>2. b \in PBUF BY <1>1 DEF PacketInv, PInv, PbufTypeOK
  <1>3. b \in CountedPbufs
    <2>1. h \in HeldBy(b) BY <1>1 DEF HeldBy
    <2> QED BY <1>2, <2>1, InUseCounts DEF CountedPbufs
  <1>4. PICK c : c = ChainOf(next, b) OBVIOUS
  <1>5. IsPath(next, c, b) /\ \A i \in 1 .. Len(c) : c[i] \in CountedPbufs
        BY <1>3, <1>4, HeapFits, ChainIsPath
  <1>6. /\ c \in Seq(PBUF) /\ Len(c) > 0 /\ c[1] = b
        /\ \A i \in 1 .. Len(c) : i < Len(c) => c[i + 1] = next[c[i]]
        /\ next[c[Len(c)]] = NoBuf
        BY <1>5 DEF IsPath
  <1>7. PICK m \in Nat : m = Len(c) BY <1>6, LenProperties
  <1>8. InChain(b) = {c[i] : i \in 1 .. m}
    <2>1. DOMAIN c = 1 .. m BY <1>6, <1>7, LenProperties
    <2> QED BY <1>4, <2>1, ChainIsChainOf DEF InChain
  <1>9. b \in InChain(b)
    <2>1. 1 \in 1 .. m BY <1>6, <1>7
    <2> QED BY <1>6, <1>8, <2>1
  <1>10. ASSUME NEW x \in InChain(b) PROVE next[x] \in InChain(b) \cup {NoBuf}
    <2>1. PICK i \in 1 .. m : x = c[i] BY <1>8
    <2>2. CASE i < m
      <3>1. i + 1 \in 1 .. m BY <2>2
      <3> QED BY <1>6, <1>7, <1>8, <2>1, <2>2, <3>1
    <2>3. CASE i = m BY <1>6, <1>7, <2>1, <2>3
    <2> QED BY <2>2, <2>3
  <1>11. InChain(b) \subseteq CountedPbufs BY <1>5, <1>7, <1>8
  <1>12. \E d, k : /\ k \in Nat /\ InChain(b) = {d[i] : i \in 1 .. k}
                   /\ d[1] = b
                   /\ \A i \in 1 .. k : i < k => d[i + 1] = next[d[i]]
         BY <1>6, <1>7, <1>8
  <1> QED BY <1>1, <1>2, <1>9, <1>10, <1>11, <1>12

(* The pbufs that a holder owns nobody else refers to.                      *)
LEMMA OwnedAlone ==
    ASSUME PacketInv, NEW h \in Holder, NEW S, Owns(h, S), NEW c \in S
    PROVE  /\ c \in PBUF /\ Live(c) /\ ref[c] = 1 /\ Counts(c) /\ TotalFits(c)
           /\ FreedBy(c) = {}
           /\ \A g \in HeldBy(c) : g = h
           /\ \A y \in Before(c) : y \in S
           /\ c = hand[h] => Before(c) = {}
  <1>1. c \in PBUF /\ Live(c) /\ ref[c] = 1 BY DEF Owns
  <1>2. References(c) = 1 BY <1>1 DEF PacketInv, PInv, RefsAreExact
  <1>3. CASE c = hand[h]
    <2>1. h \in HeldBy(c) BY <1>3 DEF HeldBy
    <2>2. Counts(c) /\ TotalFits(c) BY <1>1, <2>1, InUseCounts
    <2> QED BY <1>1, <1>2, <2>1, <2>2, OneReference
  <1>4. CASE c # hand[h]
    <2>1. PICK y \in S : next[y] = c BY <1>4 DEF Owns
    <2>2. y \in Before(c) BY <2>1 DEF Owns, Before
    <2>3. Counts(c) /\ TotalFits(c) BY <1>1, <2>2, InUseCounts
    <2>4. \A x \in Before(c) : x = y BY <1>2, <2>2, Alone
    <2> QED BY <1>1, <1>2, <1>4, <2>2, <2>3, <2>4, OneReference
  <1> QED BY <1>3, <1>4

(* What a holder owns is a heap of its own.                                 *)
LEMMA OwnedHeap ==
    ASSUME PacketInv, NEW h \in Holder, NEW S, Owns(h, S)
    PROVE  Heap(next, len, tot_len, S)
  <1>1. next \in Links /\ len \in [PBUF -> Nat] /\ tot_len \in [PBUF -> Nat]
        BY DEF PacketInv, PInv, PbufTypeOK, SizesOK, Links, Sizes
  <1>2. \A b \in S : TotalFits(b) BY OwnedAlone
  <1>3. S \subseteq PBUF /\ \A b \in S : next[b] \in S \cup {NoBuf} BY DEF Owns
  <1> QED BY <1>1, <1>2, <1>3 DEF Heap, TotalFits

(* What a holder owns is apart from the packets in other hands.             *)
LEMMA ChainApart ==
    ASSUME PacketInv, NEW h \in Holder, NEW S, Owns(h, S), NEW g \in Holder, g # h,
           hand[g] # NoBuf
    PROVE  InChain(hand[g]) \cap S = {}
  <1>1. PICK c, m : /\ m \in Nat /\ InChain(hand[g]) = {c[i] : i \in 1 .. m}
                    /\ c[1] = hand[g]
                    /\ \A i \in 1 .. m : i < m => c[i + 1] = next[c[i]]
        BY ChainMembers
  <1>2. \A i \in 1 .. m : Live(c[i]) /\ c[i] \in PBUF
    <2>1. InChain(hand[g]) \subseteq CountedPbufs BY ChainMembers
    <2> QED BY <1>1, <2>1 DEF CountedPbufs, Counts
  <1>3. {i \in 1 .. m : c[i] \in S} = {}
    <2> DEFINE Bad == {i \in 1 .. m : c[i] \in S}
    <2> SUFFICES ASSUME Bad # {} PROVE FALSE OBVIOUS
    <2>1. PICK j \in Bad : \A i \in Bad : j <= i
      <3>1. Bad \subseteq Nat OBVIOUS
      <3> HIDE DEF Bad
      <3> QED BY <3>1, LeastNumber
    <2>2. j \in 1 .. m /\ c[j] \in S OBVIOUS
    <2>3. CASE j = 1
      <3>1. g \in HeldBy(c[j]) BY <1>1, <2>3 DEF HeldBy
      <3> QED BY <2>2, <3>1, OwnedAlone
    <2>4. CASE j # 1
      <3>1. j - 1 \in 1 .. m /\ j - 1 < m /\ (j - 1) + 1 = j /\ ~(j <= j - 1) BY <1>1, <2>2, <2>4
      <3>2. c[j] = next[c[j - 1]] BY <1>1, <3>1
      <3>3. c[j - 1] \in Before(c[j]) BY <1>2, <3>1, <3>2 DEF Before
      <3>4. c[j - 1] \in S BY <2>2, <3>3, OwnedAlone
      <3> QED BY <2>1, <3>1, <3>4
    <2> QED BY <2>3, <2>4
  <1> QED BY <1>1, <1>3

(* A packet whose pbufs are referred to once is owned.                      *)
LEMMA OwnChain ==
    ASSUME PacketInv, NEW h \in Holder, hand[h] # NoBuf, Own(h)
    PROVE  Owns(h, InChain(hand[h]))
  <1>1. PICK c, m : /\ m \in Nat /\ InChain(hand[h]) = {c[i] : i \in 1 .. m}
                    /\ c[1] = hand[h]
                    /\ \A i \in 1 .. m : i < m => c[i + 1] = next[c[i]]
        BY ChainMembers
  <1>2. /\ hand[h] \in InChain(hand[h]) /\ InChain(hand[h]) \subseteq CountedPbufs
        /\ \A b \in InChain(hand[h]) : next[b] \in InChain(hand[h]) \cup {NoBuf}
        BY ChainMembers
  <1>3. ASSUME NEW b \in InChain(hand[h]), b # hand[h]
        PROVE  \E y \in InChain(hand[h]) : next[y] = b
    <2>1. PICK i \in 1 .. m : b = c[i] BY <1>1
    <2>2. i # 1 BY <1>1, <1>3, <2>1
    <2>3. i - 1 \in 1 .. m /\ i - 1 < m /\ (i - 1) + 1 = i BY <1>1, <2>2
    <2>4. c[i] = next[c[i - 1]] BY <1>1, <2>3
    <2> QED BY <1>1, <2>1, <2>3, <2>4
  <1>4. \A b \in InChain(hand[h]) : Live(b) /\ b \in PBUF BY <1>2 DEF CountedPbufs, Counts
  <1> QED BY <1>2, <1>3, <1>4 DEF Own, Owns

(* Nothing about b changes.                                                 *)
Stays(b) ==
    /\ next'[b] = next[b] /\ ref'[b] = ref[b] /\ alloc_src'[b] = alloc_src[b]
    /\ len'[b] = len[b] /\ tot_len'[b] = tot_len[b] /\ payload'[b] = payload[b]

(* Whose pbuf changes in a step.                                            *)
Touched(b) ==
    \/ ~Live(b)
    \/ \E g \in Holder : (pbuf_free(g) \/ memp_free(g)) /\ cursor[g] = b
    \/ \E g \in Holder : (pbuf_free_header_cut(g) \/ pbuf_remove_header(g)) /\ hand[g] = b
    \/ \E g, k \in Holder : pbuf_chain(g, k) /\ (b \in InChain(hand[g]) \/ b = hand[k])
    \/ \E g, k \in Holder : pbuf_ref(g, k) /\ hand[g] = b

(* The types of all variables.                                              *)
LEMMA PbufTypes ==
    ASSUME PacketInv
    PROVE  /\ next \in [PBUF -> PBUF \cup {NoBuf}] /\ ref \in [PBUF -> Int]
           /\ alloc_src \in [PBUF -> AllocSrc \cup {"none"}]
           /\ len \in [PBUF -> Nat] /\ tot_len \in [PBUF -> Nat] /\ payload \in [PBUF -> Nat]
           /\ free_left \in [Holder -> Nat]
           /\ hand \in [Holder -> PBUF \cup {NoBuf}] /\ cursor \in [Holder -> PBUF \cup {NoBuf}]
           /\ doing \in [Holder -> {"app", "free", "release", "recycle", "alloc", "header"}]
           /\ then \in [Holder -> {"app", "alloc", "header"}]
  BY DEF PacketInv, PInv, PbufTypeOK, SizesOK, Sizes

(* A pbuf changes only when it is allocated, or touched by one of five      *)
(* operations.                                                              *)
LEMMA WhatChanges ==
    ASSUME PacketInv, [PbufNext]_allVars, NEW b \in PBUF, ~Stays(b)
    PROVE  Touched(b)
  <1> USE PbufTypes
  <1>1. ASSUME UNCHANGED pbufVars PROVE FALSE
        BY <1>1 DEF Stays, pbufVars
  <1>2. ASSUME NEW g \in Holder, NEW src, NEW n, pbuf_alloc(g, src, n) PROVE Touched(b)
    <2>1. ~UNCHANGED pbufVars BY <1>1
    <2>2. PICK x \in PBUF : /\ ~Live(x)
                            /\ alloc_src' = [alloc_src EXCEPT ![x] = src]
                            /\ next' = [next EXCEPT ![x] = NoBuf]
                            /\ ref' = [ref EXCEPT ![x] = 1]
                            /\ len' = [len EXCEPT ![x] = n]
                            /\ tot_len' = [tot_len EXCEPT ![x] = n]
                            /\ payload' = [payload EXCEPT ![x] = 0]
          BY <1>2, <2>1 DEF pbuf_alloc
    <2>3. b = x BY <2>2 DEF Stays
    <2> QED BY <2>2, <2>3 DEF Touched
  <1>3. ASSUME NEW g \in Holder, NEW k \in Holder, pbuf_chain(g, k) PROVE Touched(b)
    <2>1. /\ next' = [c \in PBUF |-> IF c \in InChain(hand[g]) /\ next[c] = NoBuf THEN hand[k]
                                     ELSE next[c]]
          /\ tot_len' = [c \in PBUF |-> IF c \in InChain(hand[g]) THEN tot_len[c] + tot_len[hand[k]]
                                        ELSE tot_len[c]]
          /\ ref' = [ref EXCEPT ![hand[k]] = ref[hand[k]] + 1]
          /\ UNCHANGED <<len, payload, alloc_src>>
          BY <1>3 DEF pbuf_chain
    <2>2. b \in InChain(hand[g]) \/ b = hand[k]
      <3> SUFFICES ASSUME b \notin InChain(hand[g]), b # hand[k] PROVE Stays(b) OBVIOUS
      <3> QED BY <2>1 DEF Stays
    <2> QED BY <1>3, <2>2 DEF Touched
  <1>4. ASSUME NEW g \in Holder, NEW k \in Holder, pbuf_ref(g, k) PROVE Touched(b)
    <2>1. b = hand[g] BY <1>4 DEF pbuf_ref, Stays
    <2> QED BY <1>4, <2>1 DEF Touched
  <1>5. ASSUME NEW g \in Holder, pbuf_free(g) PROVE Touched(b)
    <2>1. b = cursor[g] BY <1>5 DEF pbuf_free, Stays
    <2> QED BY <1>5, <2>1 DEF Touched
  <1>6. ASSUME NEW g \in Holder, memp_free(g) PROVE Touched(b)
    <2>1. b = cursor[g] BY <1>6 DEF memp_free, Stays
    <2> QED BY <1>6, <2>1 DEF Touched
  <1>7. ASSUME NEW g \in Holder, pbuf_free_header_cut(g) PROVE Touched(b)
    <2>1. b = hand[g] BY <1>7 DEF pbuf_free_header_cut, CutOff, Stays
    <2> QED BY <1>7, <2>1 DEF Touched
  <1>8. ASSUME NEW g \in Holder, pbuf_remove_header(g) PROVE Touched(b)
    <2>1. b = hand[g] BY <1>8 DEF pbuf_remove_header, ShortenTotal, MovePayload, Stays
    <2> QED BY <1>8, <2>1 DEF Touched
  <1>9. ASSUME NEW g \in Holder, pp_recycle_rx_pbuf(g) PROVE FALSE
        BY <1>9 DEF pp_recycle_rx_pbuf, Stays
  <1>10. ASSUME NEW g \in Holder,
                \/ netbuf_free(g) \/ netbuf_alloc(g) \/ pbuf_free_header_done(g)
                \/ \E size \in 0 .. MaxPayload * Cardinality(PBUF) : pbuf_free_header(g, size)
         PROVE FALSE
         BY <1>1, <1>10 DEF netbuf_free, netbuf_alloc, pbuf_free_header, pbuf_free_header_done
  <1>11. CASE UNCHANGED allVars BY <1>1, <1>11 DEF allVars
  <1> QED BY <1>2, <1>3, <1>4, <1>5, <1>6, <1>7, <1>8, <1>9, <1>10, <1>11 DEF PbufNext

(* Where a holder stands in pbuf_free_header.                               *)
LEMMA InHeaderFacts ==
    ASSUME PacketInv, NEW h \in Holder, InHeader(h)
    PROVE  /\ doing[h] # "app" /\ doing[h] # "alloc"
           /\ doing[h] = "header" \/ (Freeing(h) /\ then[h] = "header")
  BY PbufTypes DEF InHeader, PacketInv, HeadersOwn, HeaderFits, Freeing

(* What is owned is changed by pbuf_free_header itself only.                *)
LEMMA OwnedStays ==
    ASSUME PacketInv, [PbufNext]_allVars, NEW h \in Holder, InHeader(h), NEW S, Owns(h, S),
           NEW b \in S, ~Stays(b)
    PROVE  (pbuf_free_header_cut(h) \/ pbuf_remove_header(h)) /\ b = hand[h]
  <1>1. /\ b \in PBUF /\ Live(b) /\ ref[b] = 1 /\ FreedBy(b) = {}
        /\ \A g \in HeldBy(b) : g = h
        BY OwnedAlone
  <1>2. doing[h] # "app" BY InHeaderFacts
  <1>3. Touched(b) BY <1>1, WhatChanges
  <1>4. ASSUME NEW g \in Holder, pbuf_free(g) \/ memp_free(g), cursor[g] = b PROVE FALSE
    <2>1. CASE pbuf_free(g)
      <3>1. g \in FreedBy(b) BY <1>4, <2>1 DEF pbuf_free, FreedBy
      <3> QED BY <1>1, <3>1
    <2>2. CASE memp_free(g)
      <3>1. ref[b] = 0 BY <1>4, <2>2 DEF memp_free, PacketInv, PInv, PlacesFit, Releasing
      <3> QED BY <1>1, <3>1
    <2> QED BY <1>4, <2>1, <2>2
  <1>5. ASSUME NEW g \in Holder, hand[g] = b PROVE g = h
    <2>1. g \in HeldBy(b) BY <1>5 DEF HeldBy
    <2> QED BY <1>1, <2>1
  <1>6. ASSUME NEW g \in Holder, NEW k \in Holder, pbuf_chain(g, k),
               b \in InChain(hand[g]) \/ b = hand[k]
        PROVE FALSE
    <2>1. doing[g] = "app" /\ doing[k] = "app" /\ hand[g] # NoBuf BY <1>6 DEF pbuf_chain
    <2>2. g # h /\ k # h BY <1>2, <2>1
    <2>3. InChain(hand[g]) \cap S = {} BY <2>1, <2>2, ChainApart
    <2> QED BY <1>5, <1>6, <2>2, <2>3
  <1>7. ASSUME NEW g \in Holder, NEW k \in Holder, pbuf_ref(g, k), hand[g] = b PROVE FALSE
        BY <1>2, <1>5, <1>7 DEF pbuf_ref
  <1>8. PICK g \in Holder : (pbuf_free_header_cut(g) \/ pbuf_remove_header(g)) /\ hand[g] = b
        BY <1>1, <1>3, <1>4, <1>6, <1>7 DEF Touched
  <1> QED BY <1>5, <1>8

(* The hand and the rest to cut are changed by pbuf_free_header itself only. *)
LEMMA HeaderSteps ==
    ASSUME PacketInv, [PbufNext]_allVars, NEW h \in Holder, InHeader(h)
    PROVE  \/ pbuf_free_header_cut(h) \/ pbuf_remove_header(h) \/ pbuf_free_header_done(h)
           \/ /\ hand'[h] = hand[h] /\ free_left'[h] = free_left[h]
              /\ \A S : Owns(h, S) => \A b \in S : Stays(b)
  <1> USE PbufTypes
  <1>1. doing[h] # "app" /\ doing[h] # "alloc" BY InHeaderFacts
  <1> SUFFICES ASSUME ~pbuf_free_header_cut(h), ~pbuf_remove_header(h), ~pbuf_free_header_done(h)
               PROVE  hand'[h] = hand[h] /\ free_left'[h] = free_left[h]
      BY OwnedStays
  <1>2. ASSUME NEW g \in Holder, netbuf_free(g) \/ netbuf_alloc(g)
        PROVE  hand'[h] = hand[h] /\ free_left'[h] = free_left[h]
        BY <1>1, <1>2 DEF netbuf_free, netbuf_alloc
  <1>3. ASSUME NEW g \in Holder, NEW src, NEW n, pbuf_alloc(g, src, n)
        PROVE  hand'[h] = hand[h] /\ free_left'[h] = free_left[h]
        BY <1>1, <1>3 DEF pbuf_alloc
  <1>4. ASSUME NEW g \in Holder, NEW k \in Holder, pbuf_chain(g, k) \/ pbuf_ref(g, k)
        PROVE  hand'[h] = hand[h] /\ free_left'[h] = free_left[h]
        BY <1>1, <1>4 DEF pbuf_chain, pbuf_ref, holderVars
  <1>5. ASSUME NEW g \in Holder, pbuf_free(g) \/ pp_recycle_rx_pbuf(g) \/ memp_free(g)
        PROVE  hand'[h] = hand[h] /\ free_left'[h] = free_left[h]
        BY <1>5 DEF pbuf_free, pp_recycle_rx_pbuf, memp_free
  <1>6. ASSUME NEW g \in Holder, NEW size, pbuf_free_header(g, size)
        PROVE  hand'[h] = hand[h] /\ free_left'[h] = free_left[h]
        BY <1>1, <1>6 DEF pbuf_free_header
  <1>7. ASSUME NEW g \in Holder, g # h,
               pbuf_free_header_cut(g) \/ pbuf_remove_header(g) \/ pbuf_free_header_done(g)
        PROVE  hand'[h] = hand[h] /\ free_left'[h] = free_left[h]
        BY <1>7 DEF pbuf_free_header_cut, pbuf_remove_header, pbuf_free_header_done
  <1>8. CASE UNCHANGED allVars BY <1>8 DEF allVars, holderVars
  <1> QED BY <1>2, <1>3, <1>4, <1>5, <1>6, <1>7, <1>8 DEF PbufNext

(* What a holder that goes on has cut off stays cut off, and its own.       *)
LEMMA CutStays ==
    ASSUME PacketInv, [PbufNext]_allVars, NEW h \in Holder, Freeing(h), then[h] = "header",
           doing'[h] = doing[h]
    PROVE  /\ next'[cursor[h]] = NoBuf
           /\ doing[h] = "free" => ref'[cursor[h]] = 1
  <1> USE PbufTypes
  <1>1. PICK c \in PBUF : c = cursor[h] BY DEF PacketInv, PInv, PlacesFit
  <1>2. /\ next[c] = NoBuf
        /\ doing[h] = "free" => ref[c] = 1
        /\ Releasing(h) => Live(c) /\ ref[c] = 0
        /\ doing[h] = "free" \/ Releasing(h)
        BY <1>1 DEF PacketInv, HeadersOwn, HeaderFits, PInv, PlacesFit, Freeing, Releasing
  <1>3. CutBy(h, c) BY <1>1 DEF CutBy
  <1>4. HeldBy(c) = {} BY <1>3, InUseCounts DEF Counts
  <1>5. FreedBy(c) # {} => Live(c) /\ ref[c] >= 1 /\ ref[c] = References(c)
        BY Referred DEF PacketInv
  <1>6. doing[h] = "free" => h \in FreedBy(c) BY <1>1 DEF FreedBy
  <1>7. Live(c) BY <1>2, <1>5, <1>6
  <1>8. CASE Stays(c) BY <1>1, <1>2, <1>8 DEF Stays
  <1>9. CASE ~Stays(c)
    <2>1. Touched(c) BY <1>9, WhatChanges
    <2>2. ASSUME NEW g \in Holder, hand[g] = c PROVE FALSE
          BY <1>4, <2>2 DEF HeldBy
    <2>3. ASSUME NEW g \in Holder, NEW k \in Holder, pbuf_chain(g, k),
                 c \in InChain(hand[g]) \/ c = hand[k]
          PROVE FALSE
      <3>1. hand[g] # NoBuf BY <2>3 DEF pbuf_chain
      <3>2. InChain(hand[g]) \subseteq CountedPbufs BY <3>1, ChainMembers
      <3>3. c \notin CountedPbufs BY <1>3 DEF CountedPbufs, Counts
      <3> QED BY <2>2, <2>3, <3>2, <3>3
    <2>4. PICK g \in Holder : (pbuf_free(g) \/ memp_free(g)) /\ cursor[g] = c
          BY <1>7, <2>1, <2>2, <2>3 DEF Touched
    <2>5. CASE pbuf_free(g)
      <3>1. g \in FreedBy(c) BY <2>4, <2>5 DEF pbuf_free, FreedBy
      <3>2. doing[h] = "free" BY <1>2, <1>5, <3>1
      <3>3. References(c) = 1 BY <1>2, <1>5, <3>1, <3>2
      <3>4. g = h BY <1>6, <3>1, <3>2, <3>3, OneReference
      <3>5. LastReference(ref[c] - 1) BY <1>2, <3>2 DEF LastReference
      <3>6. doing'[h] # "free"
            BY <1>1, <2>5, <3>4, <3>5 DEF pbuf_free
      <3> QED BY <3>2, <3>6
    <2>6. CASE memp_free(g)
      <3>1. ref[c] = 0 BY <2>4, <2>6 DEF memp_free, PacketInv, PInv, PlacesFit, Releasing
      <3>2. next'[c] = NoBuf BY <2>4, <2>6 DEF memp_free
      <3> QED BY <1>1, <1>2, <3>1, <3>2
    <2> QED BY <2>4, <2>5, <2>6
  <1> QED BY <1>8, <1>9

(* A packet stays owned while its pbufs keep their links and counts.        *)
LEMMA OwnsAfter ==
    ASSUME NEW h \in Holder, NEW S, Owns(h, S), hand'[h] = hand[h],
           \A b \in S : next'[b] = next[b] /\ ref'[b] = ref[b] /\ alloc_src'[b] = alloc_src[b]
    PROVE  Owns(h, S)'
  <1>1. hand'[h] \in S /\ S \subseteq PBUF BY DEF Owns
  <1>2. ASSUME NEW b \in S
        PROVE  /\ Live(b)' /\ ref'[b] = 1 /\ next'[b] \in S \cup {NoBuf}
               /\ b = hand'[h] \/ \E y \in S : next'[y] = b
    <2>1. Live(b) /\ ref[b] = 1 /\ next[b] \in S \cup {NoBuf} BY DEF Owns
    <2>2. b = hand[h] \/ \E y \in S : next[y] = b BY DEF Owns
    <2>3. b = hand'[h] \/ \E y \in S : next'[y] = b BY <2>2
    <2> QED BY <2>1, <2>3 DEF Live
  <1> QED BY <1>1, <1>2 DEF Owns

(* The rest of the packet stays owned in a step that is not a cut and not   *)
(* the end.                                                                 *)
LEMMA KeepsOwning ==
    ASSUME PacketInv, [PbufNext]_allVars, NEW h \in Holder, InHeader(h), hand'[h] # NoBuf,
           ~pbuf_free_header_cut(h), ~pbuf_free_header_done(h)
    PROVE  \E S \in SUBSET PBUF : Owns(h, S)'
  <1>1. hand'[h] = hand[h]
    <2>1. CASE pbuf_remove_header(h) BY <2>1 DEF pbuf_remove_header
    <2> QED BY <2>1, HeaderSteps
  <1>2. PICK S \in SUBSET PBUF : Owns(h, S) BY <1>1 DEF PacketInv, HeadersOwn, HeaderFits
  <1>3. \A b \in S : next'[b] = next[b] /\ ref'[b] = ref[b] /\ alloc_src'[b] = alloc_src[b]
    <2>1. CASE pbuf_remove_header(h) BY <2>1 DEF pbuf_remove_header
    <2>2. CASE ~pbuf_remove_header(h) BY <1>2, <2>2, HeaderSteps DEF Stays
    <2> QED BY <2>1, <2>2
  <1>4. Owns(h, S)' BY <1>1, <1>2, <1>3, OwnsAfter
  <1> QED BY <1>4

(* A holder that does not move in a step.                                   *)
LEMMA OtherHeaderFits ==
    ASSUME PacketInv, [PbufNext]_allVars, NEW h \in Holder,
           doing'[h] = doing[h], then'[h] = then[h], cursor'[h] = cursor[h]
    PROVE  HeaderFits(h)'
  <1>1. then'[h] # "app" => Freeing(h)' BY DEF PacketInv, HeadersOwn, HeaderFits, Freeing
  <1>2. ASSUME InHeader(h)', hand'[h] # NoBuf PROVE \E S \in SUBSET PBUF : Owns(h, S)'
    <2>1. InHeader(h) BY <1>2 DEF InHeader
    <2>2. ~pbuf_free_header_cut(h)
      <3> SUFFICES ASSUME pbuf_free_header_cut(h) PROVE FALSE OBVIOUS
      <3>1. doing[h] = "header" /\ doing'[h] = "free"
            BY PbufTypes DEF pbuf_free_header_cut, StartFree
      <3> QED BY <3>1
    <2>3. ~pbuf_free_header_done(h)
      <3> SUFFICES ASSUME pbuf_free_header_done(h) PROVE FALSE OBVIOUS
      <3>1. doing[h] = "header" /\ doing'[h] = "app" BY PbufTypes DEF pbuf_free_header_done
      <3> QED BY <3>1
    <2> QED BY <1>2, <2>1, <2>2, <2>3, KeepsOwning
  <1>3. ASSUME Freeing(h)', then'[h] = "header"
        PROVE  next'[cursor'[h]] = NoBuf /\ (doing'[h] = "free" => ref'[cursor'[h]] = 1)
    <2>1. Freeing(h) BY <1>3 DEF Freeing
    <2> QED BY <1>3, <2>1, CutStays
  <1> QED BY <1>1, <1>2, <1>3 DEF HeaderFits

(* When a holder has moved: it is enough that its place fits and that it    *)
(* was in pbuf_free_header before.                                          *)
LEMMA HeaderFitsAfter ==
    ASSUME PacketInv, [PbufNext]_allVars, NEW h \in Holder,
           then'[h] # "app" => Freeing(h)',
           InHeader(h)' => InHeader(h) /\ ~pbuf_free_header_cut(h) /\ ~pbuf_free_header_done(h),
           Freeing(h)' /\ then'[h] = "header" => /\ next'[cursor'[h]] = NoBuf
                                                 /\ doing'[h] = "free" => ref'[cursor'[h]] = 1
    PROVE  HeaderFits(h)'
  <1>1. InHeader(h)' /\ hand'[h] # NoBuf => \E S \in SUBSET PBUF : Owns(h, S)' BY KeepsOwning
  <1> QED BY <1>1 DEF HeaderFits

(* In every step: the invariant on pbuf_free_header for every holder.       *)
LEMMA HeadersStep ==
    ASSUME PacketInv, [PbufNext]_allVars, NEW k \in Holder PROVE HeaderFits(k)'
  <1>0. /\ hand \in [Holder -> PBUF \cup {NoBuf}] /\ cursor \in [Holder -> PBUF \cup {NoBuf}]
        /\ doing \in [Holder -> {"app", "free", "release", "recycle", "alloc", "header"}]
        /\ then \in [Holder -> {"app", "alloc", "header"}]
        BY PbufTypes
  <1>a. HeaderFits(k) BY DEF PacketInv, HeadersOwn
  <1>b. ~Freeing(k) => then[k] = "app" BY <1>a DEF HeaderFits
  <1> DEFINE Same3 == doing'[k] = doing[k] /\ then'[k] = then[k] /\ cursor'[k] = cursor[k]
  <1>c. Same3 => HeaderFits(k)' BY OtherHeaderFits
  <1>1. ASSUME NEW h \in Holder, netbuf_free(h) \/ netbuf_alloc(h) PROVE HeaderFits(k)'
    <2>1. CASE h # k
      <3>1. Same3 BY <1>0, <1>1, <2>1 DEF netbuf_free, netbuf_alloc, StartFree
      <3> QED BY <1>c, <3>1
    <2>2. CASE h = k
      <3>1. doing[k] = "app" BY <1>1, <2>2 DEF netbuf_free, netbuf_alloc
      <3>2. \/ doing'[k] = "free" /\ then'[k] \in {"app", "alloc"}
            \/ doing'[k] \in {"app", "alloc"} /\ then'[k] = "app"
            BY <1>0, <1>1, <2>2 DEF netbuf_free, netbuf_alloc, StartFree
      <3>3. ~InHeader(k)' /\ then'[k] # "header" /\ (then'[k] # "app" => Freeing(k)')
            BY <3>2 DEF InHeader, Freeing
      <3> QED BY <3>3 DEF HeaderFits
    <2> QED BY <2>1, <2>2
  <1>2. ASSUME NEW h \in Holder, NEW src, NEW n, pbuf_alloc(h, src, n) PROVE HeaderFits(k)'
    <2>1. CASE h # k
      <3>1. Same3 BY <1>0, <1>2, <2>1 DEF pbuf_alloc
      <3> QED BY <1>c, <3>1
    <2>2. CASE h = k
      <3>1. doing[k] = "alloc" BY <1>2, <2>2 DEF pbuf_alloc
      <3>2. doing'[k] = "app" /\ then'[k] = then[k] BY <1>0, <1>2, <2>2 DEF pbuf_alloc
      <3>3. then'[k] = "app" BY <1>b, <3>1, <3>2 DEF Freeing
      <3>4. ~InHeader(k)' BY <3>2, <3>3 DEF InHeader
      <3> QED BY <3>3, <3>4 DEF HeaderFits
    <2> QED BY <2>1, <2>2
  <1>3. ASSUME NEW h \in Holder, NEW g \in Holder, pbuf_chain(h, g) \/ pbuf_ref(h, g)
        PROVE  HeaderFits(k)'
    <2>1. Same3 BY <1>3 DEF pbuf_chain, pbuf_ref, holderVars
    <2> QED BY <1>c, <2>1
  <1>4. ASSUME NEW h \in Holder, pbuf_free(h) PROVE HeaderFits(k)'
    <2>1. CASE h # k
      <3>1. Same3 BY <1>0, <1>4, <2>1 DEF pbuf_free, FreeNext
      <3> QED BY <1>c, <3>1
    <2>2. CASE h = k
      <3>1. doing[k] = "free" /\ next' = next BY <1>4, <2>2 DEF pbuf_free
      <3>2. \/ doing'[k] \in {"recycle", "release"} /\ then'[k] = then[k] /\ cursor'[k] = cursor[k]
            \/ doing'[k] = then[k] /\ then'[k] = "app"
            BY <1>0, <1>4, <2>2 DEF pbuf_free, FreeNext
      <3>3. then'[k] # "app" => Freeing(k)' BY <3>2 DEF Freeing
      <3>4. InHeader(k)' => InHeader(k) BY <3>2 DEF InHeader
      <3>5. ~pbuf_free_header_cut(k) /\ ~pbuf_free_header_done(k)
            BY <3>1 DEF pbuf_free_header_cut, pbuf_free_header_done
      <3>6. Freeing(k)' /\ then'[k] = "header" => next'[cursor'[k]] = NoBuf /\ doing'[k] # "free"
            BY <1>a, <3>1, <3>2 DEF HeaderFits, Freeing
      <3> QED BY <3>3, <3>4, <3>5, <3>6, HeaderFitsAfter
    <2> QED BY <2>1, <2>2
  <1>5. ASSUME NEW h \in Holder, pp_recycle_rx_pbuf(h) PROVE HeaderFits(k)'
    <2>1. CASE h # k
      <3>1. Same3 BY <1>0, <1>5, <2>1 DEF pp_recycle_rx_pbuf
      <3> QED BY <1>c, <3>1
    <2>2. CASE h = k
      <3>1. doing[k] = "recycle" /\ next' = next BY <1>5, <2>2 DEF pp_recycle_rx_pbuf
      <3>2. doing'[k] = "release" /\ then'[k] = then[k] /\ cursor'[k] = cursor[k]
            BY <1>0, <1>5, <2>2 DEF pp_recycle_rx_pbuf
      <3>3. then'[k] # "app" => Freeing(k)' BY <3>2 DEF Freeing
      <3>4. InHeader(k)' => InHeader(k) BY <3>2 DEF InHeader
      <3>5. ~pbuf_free_header_cut(k) /\ ~pbuf_free_header_done(k)
            BY <3>1 DEF pbuf_free_header_cut, pbuf_free_header_done
      <3>6. then'[k] = "header" => next'[cursor'[k]] = NoBuf /\ doing'[k] # "free"
            BY <1>a, <3>1, <3>2 DEF HeaderFits, Freeing
      <3> QED BY <3>3, <3>4, <3>5, <3>6, HeaderFitsAfter
    <2> QED BY <2>1, <2>2
  <1>6. ASSUME NEW h \in Holder, memp_free(h) PROVE HeaderFits(k)'
    <2>1. CASE h # k
      <3>1. Same3 BY <1>0, <1>6, <2>1 DEF memp_free, FreeNext
      <3> QED BY <1>c, <3>1
    <2>2. CASE h = k
      <3>1. doing[k] = "release" BY <1>6, <2>2 DEF memp_free
      <3>2. IF next[cursor[k]] = NoBuf THEN doing'[k] = then[k] /\ then'[k] = "app"
            ELSE doing'[k] = "free" /\ then'[k] = then[k]
            BY <1>0, <1>6, <2>2 DEF memp_free, FreeNext, AfterRelease
      <3>3. then[k] = "header" => next[cursor[k]] = NoBuf BY <1>a, <3>1 DEF HeaderFits, Freeing
      <3>4. then'[k] # "app" => Freeing(k)' BY <3>2 DEF Freeing
      <3>5. InHeader(k)' => InHeader(k) BY <3>2 DEF InHeader
      <3>6. ~pbuf_free_header_cut(k) /\ ~pbuf_free_header_done(k)
            BY <3>1 DEF pbuf_free_header_cut, pbuf_free_header_done
      <3>7. then'[k] # "header" BY <3>2, <3>3
      <3> QED BY <3>4, <3>5, <3>6, <3>7, HeaderFitsAfter
    <2> QED BY <2>1, <2>2
  <1>7. ASSUME NEW h \in Holder, NEW size, pbuf_free_header(h, size) PROVE HeaderFits(k)'
    <2>1. CASE h # k
      <3>1. Same3 BY <1>0, <1>7, <2>1 DEF pbuf_free_header
      <3> QED BY <1>c, <3>1
    <2>2. CASE h = k
      <3>1. doing[k] = "app" /\ hand[k] # NoBuf /\ Own(k) /\ UNCHANGED pbufVars /\ hand' = hand
            BY <1>7, <2>2 DEF pbuf_free_header
      <3>2. doing'[k] = "header" /\ then'[k] = "app"
            BY <1>0, <1>b, <1>7, <2>2, <3>1 DEF pbuf_free_header, Freeing
      <3>3. PICK S : S = InChain(hand[k]) OBVIOUS
      <3>4. Owns(k, S) BY <3>1, <3>3, OwnChain
      <3>5. Owns(k, S)' BY <3>1, <3>4, OwnsAfter DEF pbufVars
      <3>6. S \in SUBSET PBUF BY <3>4 DEF Owns
      <3> QED BY <3>2, <3>5, <3>6 DEF HeaderFits, Freeing
    <2> QED BY <2>1, <2>2
  <1>8. ASSUME NEW h \in Holder, pbuf_free_header_cut(h) PROVE HeaderFits(k)'
    <2>1. CASE h # k
      <3>1. Same3 BY <1>0, <1>8, <2>1 DEF pbuf_free_header_cut, StartFree
      <3> QED BY <1>c, <3>1
    <2>2. CASE h = k
      <3>1. PICK b \in PBUF : b = hand[k]
            BY <1>0, <1>8, <2>2 DEF pbuf_free_header_cut
      <3>2. /\ doing[k] = "header" /\ hand' = [hand EXCEPT ![k] = next[b]]
            /\ next' = [next EXCEPT ![b] = NoBuf] /\ UNCHANGED <<ref, alloc_src>>
            BY <1>8, <2>2, <3>1 DEF pbuf_free_header_cut, CutOff
      <3>3. doing'[k] = "free" /\ then'[k] = "header" /\ cursor'[k] = b
            BY <1>0, <1>8, <2>2, <3>1, PbufAssumption DEF pbuf_free_header_cut, StartFree
      <3>4. PICK S \in SUBSET PBUF : Owns(k, S)
            BY <1>a, <3>1, <3>2, PbufAssumption DEF HeaderFits, InHeader
      <3>5. b \in S BY <3>1, <3>4 DEF Owns
      <3>6. Before(b) = {} /\ ref[b] = 1 /\ Live(b) BY <3>1, <3>4, <3>5, OwnedAlone
      <3>7. \A x \in S : next[x] # b
        <4>1. \A x \in S : x \in PBUF /\ Live(x) BY <3>4 DEF Owns
        <4> QED BY <3>6, <4>1 DEF Before
      <3>8. next \in [PBUF -> PBUF \cup {NoBuf}] BY PbufTypes
      <3>9. next'[b] = NoBuf /\ ref'[b] = 1 BY <3>2, <3>6, <3>8
      <3>10. ASSUME hand'[k] # NoBuf PROVE Owns(k, S \ {b})'
        <4>1. hand'[k] = next[b] BY <1>0, <3>2
        <4>2. next[b] \in S \ {b} BY <3>4, <3>5, <3>7, <3>10, <4>1 DEF Owns
        <4>3. ASSUME NEW c \in S \ {b}
              PROVE  /\ Live(c)' /\ ref'[c] = 1 /\ next'[c] \in (S \ {b}) \cup {NoBuf}
                     /\ c = hand'[k] \/ \E y \in S \ {b} : next'[y] = c
          <5>1. Live(c) /\ ref[c] = 1 /\ next[c] \in S \cup {NoBuf} /\ c \in PBUF
                BY <3>4 DEF Owns
          <5>2. next'[c] = next[c] BY <3>2, <3>8, <5>1
          <5>3. Live(c)' /\ ref'[c] = 1 /\ next'[c] \in (S \ {b}) \cup {NoBuf}
                BY <3>2, <3>7, <5>1, <5>2 DEF Live
          <5>4. PICK y \in S : next[y] = c BY <3>1, <3>4 DEF Owns
          <5>5. CASE y = b BY <4>1, <5>3, <5>4, <5>5
          <5>6. CASE y # b
            <6>1. next'[y] = c BY <3>2, <3>8, <5>4, <5>6
            <6> QED BY <5>3, <5>4, <5>6, <6>1
          <5> QED BY <5>5, <5>6
        <4>4. S \ {b} \subseteq PBUF OBVIOUS
        <4>5. hand'[k] \in S \ {b} BY <4>1, <4>2
        <4> QED BY <4>3, <4>4, <4>5 DEF Owns
      <3>11. S \ {b} \in SUBSET PBUF OBVIOUS
      <3>12. InHeader(k)' /\ hand'[k] # NoBuf => \E T \in SUBSET PBUF : Owns(k, T)'
             BY <3>10, <3>11
      <3> QED BY <3>3, <3>9, <3>12 DEF HeaderFits, Freeing
    <2> QED BY <2>1, <2>2
  <1>9. ASSUME NEW h \in Holder, pbuf_remove_header(h) PROVE HeaderFits(k)'
    <2>1. Same3 BY <1>9 DEF pbuf_remove_header
    <2> QED BY <1>c, <2>1
  <1>10. ASSUME NEW h \in Holder, pbuf_free_header_done(h) PROVE HeaderFits(k)'
    <2>1. CASE h # k
      <3>1. Same3 BY <1>0, <1>10, <2>1 DEF pbuf_free_header_done
      <3> QED BY <1>c, <3>1
    <2>2. CASE h = k
      <3>1. doing[k] = "header" BY <1>10, <2>2 DEF pbuf_free_header_done
      <3>2. doing'[k] = "app" /\ then'[k] = then[k]
            BY <1>0, <1>10, <2>2 DEF pbuf_free_header_done
      <3>3. then'[k] = "app" BY <1>b, <3>1, <3>2 DEF Freeing
      <3>4. ~InHeader(k)' BY <3>2, <3>3 DEF InHeader
      <3> QED BY <3>3, <3>4 DEF HeaderFits
    <2> QED BY <2>1, <2>2
  <1>11. CASE UNCHANGED allVars
    <2>1. Same3 BY <1>11 DEF allVars, holderVars
    <2> QED BY <1>c, <2>1
  <1> QED BY <1>1, <1>2, <1>3, <1>4, <1>5, <1>6, <1>7, <1>8, <1>9, <1>10, <1>11 DEF PbufNext

(* What has been cut off remains so as long as it is live.                  *)
LEMMA CutRemains ==
    ASSUME PacketInv, [PbufNext]_allVars, NEW h \in Holder, NEW b, CutBy(h, b), Live(b)'
    PROVE  CutBy(h, b)'
  <1>0. /\ cursor \in [Holder -> PBUF \cup {NoBuf}]
        /\ doing \in [Holder -> {"app", "free", "release", "recycle", "alloc", "header"}]
        /\ then \in [Holder -> {"app", "alloc", "header"}]
        /\ alloc_src \in [PBUF -> AllocSrc \cup {"none"}]
        BY PbufTypes
  <1>1. Freeing(h) /\ then[h] = "header" /\ cursor[h] = b /\ b \in PBUF
    <2>1. Freeing(h) /\ then[h] = "header" /\ cursor[h] = b BY DEF CutBy
    <2>2. cursor[h] # NoBuf BY <2>1 DEF PacketInv, PInv, PlacesFit
    <2> QED BY <1>0, <2>1, <2>2
  <1>2. doing[h] \notin {"app", "alloc", "header"} BY <1>1 DEF Freeing
  <1> DEFINE Same2 == Freeing(h)' /\ then'[h] = then[h] /\ cursor'[h] = cursor[h]
  <1>3. Same2 => CutBy(h, b)' BY <1>1 DEF CutBy
  <1>4. ASSUME NEW g \in Holder, g # h,
               \/ netbuf_free(g) \/ netbuf_alloc(g) \/ pbuf_free(g) \/ pp_recycle_rx_pbuf(g)
               \/ memp_free(g) \/ pbuf_free_header_cut(g) \/ pbuf_remove_header(g)
               \/ pbuf_free_header_done(g)
        PROVE  Same2
        BY <1>0, <1>1, <1>4 DEF netbuf_free, netbuf_alloc, pbuf_free, pp_recycle_rx_pbuf, memp_free,
             pbuf_free_header_cut, pbuf_remove_header, pbuf_free_header_done, StartFree, FreeNext,
             Freeing
  <1>5. ASSUME NEW g \in Holder, NEW src, NEW n, pbuf_alloc(g, src, n) PROVE Same2
        BY <1>0, <1>1, <1>2, <1>5 DEF pbuf_alloc, Freeing
  <1>6. ASSUME NEW g \in Holder, NEW k \in Holder, pbuf_chain(g, k) \/ pbuf_ref(g, k) PROVE Same2
        BY <1>1, <1>6 DEF pbuf_chain, pbuf_ref, holderVars, Freeing
  <1>7. ASSUME NEW g \in Holder, NEW size, pbuf_free_header(g, size) PROVE Same2
        BY <1>0, <1>1, <1>2, <1>7 DEF pbuf_free_header, Freeing
  <1>8. ASSUME \/ netbuf_free(h) \/ netbuf_alloc(h) \/ pbuf_free_header_cut(h)
               \/ pbuf_remove_header(h) \/ pbuf_free_header_done(h)
        PROVE  FALSE
        BY <1>2, <1>8 DEF netbuf_free, netbuf_alloc, pbuf_free_header_cut, pbuf_remove_header,
             pbuf_free_header_done
  <1>9. ASSUME pbuf_free(h) PROVE Same2
    <2>1. doing[h] = "free" BY <1>9 DEF pbuf_free
    <2>2. ref[b] = 1 BY <1>1, <2>1 DEF PacketInv, HeadersOwn, HeaderFits
    <2>3. LastReference(ref[b] - 1) BY <2>2 DEF LastReference
    <2> QED BY <1>0, <1>1, <1>9, <2>3 DEF pbuf_free, Freeing
  <1>10. ASSUME pp_recycle_rx_pbuf(h) PROVE Same2
         BY <1>0, <1>1, <1>10 DEF pp_recycle_rx_pbuf, Freeing
  <1>11. ASSUME memp_free(h) PROVE FALSE
         BY <1>0, <1>1, <1>11 DEF memp_free, Live
  <1>12. CASE UNCHANGED allVars BY <1>1, <1>3, <1>12 DEF allVars, holderVars, Freeing
  <1>13. CASE PbufNext
         BY <1>3, <1>4, <1>5, <1>6, <1>7, <1>8, <1>9, <1>10, <1>11, <1>13 DEF PbufNext
  <1> QED BY <1>3, <1>12, <1>13

(* The total of a pbuf that keeps its fields, as does the next one, still   *)
(* fits.                                                                    *)
LEMMA TotalStays ==
    ASSUME NEW b, TotalFits(b), next'[b] = next[b], len'[b] = len[b], tot_len'[b] = tot_len[b],
           next[b] # NoBuf => tot_len'[next[b]] = tot_len[next[b]]
    PROVE  TotalFits(b)'
  BY DEF TotalFits

(* Every step keeps lengths natural: pbuf_remove_header takes less than     *)
(* there is.                                                                *)
LEMMA SizesStep ==
    ASSUME PacketInv, [PbufNext]_allVars PROVE SizesOK'
  <1>0. /\ next \in [PBUF -> PBUF \cup {NoBuf}]
        /\ len \in [PBUF -> Nat] /\ tot_len \in [PBUF -> Nat] /\ payload \in [PBUF -> Nat]
        /\ free_left \in [Holder -> Nat]
        /\ hand \in [Holder -> PBUF \cup {NoBuf}] /\ cursor \in [Holder -> PBUF \cup {NoBuf}]
        BY PbufTypes
  <1> SUFFICES /\ len' \in [PBUF -> Nat] /\ tot_len' \in [PBUF -> Nat]
               /\ payload' \in [PBUF -> Nat] /\ free_left' \in [Holder -> Nat]
      BY DEF SizesOK, Sizes
  <1>1. CASE UNCHANGED <<len, tot_len, payload, free_left>> BY <1>0, <1>1
  <1>2. ASSUME NEW h \in Holder,
               netbuf_free(h) \/ netbuf_alloc(h) \/ pbuf_free(h) \/ pp_recycle_rx_pbuf(h)
        PROVE  UNCHANGED <<len, tot_len, payload, free_left>>
        BY <1>2 DEF netbuf_free, netbuf_alloc, pbuf_free, pp_recycle_rx_pbuf, pbufVars
  <1>3. ASSUME NEW h \in Holder, NEW src, NEW n \in 1 .. MaxPayload, pbuf_alloc(h, src, n)
        PROVE  /\ len' \in [PBUF -> Nat] /\ tot_len' \in [PBUF -> Nat]
               /\ payload' \in [PBUF -> Nat] /\ free_left' \in [Holder -> Nat]
        BY <1>0, <1>3 DEF pbuf_alloc, pbufVars
  <1>4. ASSUME NEW h \in Holder, NEW g \in Holder, pbuf_ref(h, g)
        PROVE  UNCHANGED <<len, tot_len, payload, free_left>>
        BY <1>4 DEF pbuf_ref
  <1>5. ASSUME NEW h \in Holder, NEW g \in Holder, pbuf_chain(h, g)
        PROVE  /\ len' \in [PBUF -> Nat] /\ tot_len' \in [PBUF -> Nat]
               /\ payload' \in [PBUF -> Nat] /\ free_left' \in [Holder -> Nat]
    <2>1. PICK I : I = InChain(hand[h]) OBVIOUS
    <2>2. PICK tail \in PBUF : tail = hand[g] BY <1>0, <1>5 DEF pbuf_chain
    <2>3. /\ tot_len' = [b \in PBUF |-> IF b \in I THEN tot_len[b] + tot_len[tail] ELSE tot_len[b]]
          /\ UNCHANGED <<len, payload, free_left>>
          BY <1>5, <2>1, <2>2 DEF pbuf_chain, holderVars
    <2> QED BY <1>0, <2>3
  <1>6. ASSUME NEW h \in Holder, memp_free(h)
        PROVE  /\ len' \in [PBUF -> Nat] /\ tot_len' \in [PBUF -> Nat]
               /\ payload' \in [PBUF -> Nat] /\ free_left' \in [Holder -> Nat]
        BY <1>0, <1>6 DEF memp_free
  <1>7. ASSUME NEW h \in Holder, NEW size \in 0 .. MaxPayload * Cardinality(PBUF),
               pbuf_free_header(h, size)
        PROVE  /\ len' \in [PBUF -> Nat] /\ tot_len' \in [PBUF -> Nat]
               /\ payload' \in [PBUF -> Nat] /\ free_left' \in [Holder -> Nat]
    <2>1. size \in Nat BY SizeType, PbufAssumption DEF Size
    <2>2. UNCHANGED <<len, tot_len, payload>> /\ free_left' = [free_left EXCEPT ![h] = size]
          BY <1>7 DEF pbuf_free_header, pbufVars
    <2> QED BY <1>0, <2>1, <2>2
  <1>8. ASSUME NEW h \in Holder, pbuf_free_header_cut(h)
        PROVE  /\ len' \in [PBUF -> Nat] /\ tot_len' \in [PBUF -> Nat]
               /\ payload' \in [PBUF -> Nat] /\ free_left' \in [Holder -> Nat]
        BY <1>0, <1>8 DEF pbuf_free_header_cut
  <1>9. ASSUME NEW h \in Holder, pbuf_remove_header(h)
        PROVE  /\ len' \in [PBUF -> Nat] /\ tot_len' \in [PBUF -> Nat]
               /\ payload' \in [PBUF -> Nat] /\ free_left' \in [Holder -> Nat]
    <2>1. PICK b \in PBUF : b = hand[h] BY <1>0, <1>9 DEF pbuf_remove_header
    <2>2. h \in HeldBy(b) BY <2>1 DEF HeldBy
    <2>3. TotalFits(b) BY <2>2, InUseCounts
    <2>4. tot_len[b] >= len[b]
      <3>1. CASE next[b] = NoBuf BY <1>0, <2>3, <3>1 DEF TotalFits
      <3>2. CASE next[b] # NoBuf
        <4>1. next[b] \in PBUF BY <1>0, <3>2
        <4>2. tot_len[next[b]] \in Nat BY <1>0, <4>1
        <4> QED BY <1>0, <2>3, <3>2, <4>2 DEF TotalFits
      <3> QED BY <3>1, <3>2
    <2>5. PICK n \in Nat : n = free_left[h] BY <1>0
    <2>6. /\ n < len[b]
          /\ len' = [len EXCEPT ![b] = len[b] - n]
          /\ tot_len' = [tot_len EXCEPT ![b] = tot_len[b] - n]
          /\ payload' = [payload EXCEPT ![b] = payload[b] + n]
          /\ free_left' = [free_left EXCEPT ![h] = 0]
          BY <1>9, <2>1, <2>5 DEF pbuf_remove_header, ShortenTotal, MovePayload
    <2>7. len[b] - n \in Nat /\ tot_len[b] - n \in Nat /\ payload[b] + n \in Nat
          BY <1>0, <2>4, <2>6
    <2> QED BY <1>0, <2>6, <2>7
  <1>10. ASSUME NEW h \in Holder, pbuf_free_header_done(h)
        PROVE  /\ len' \in [PBUF -> Nat] /\ tot_len' \in [PBUF -> Nat]
               /\ payload' \in [PBUF -> Nat] /\ free_left' \in [Holder -> Nat]
        BY <1>0, <1>10 DEF pbuf_free_header_done, pbufVars
  <1>11. CASE UNCHANGED allVars BY <1>1, <1>11 DEF allVars, pbufVars, holderVars
  <1> QED BY <1>1, <1>2, <1>3, <1>4, <1>5, <1>6, <1>7, <1>8, <1>9, <1>10, <1>11 DEF PbufNext

(* A pbuf that becomes live has just been allocated, and its total is its   *)
(* length.                                                                  *)
LEMMA LiveBefore ==
    ASSUME PacketInv, [PbufNext]_allVars, NEW b \in PBUF, Live(b)', ~Live(b)
    PROVE  TotalFits(b)'
  <1>0. /\ next \in [PBUF -> PBUF \cup {NoBuf}] /\ alloc_src \in [PBUF -> AllocSrc \cup {"none"}]
        /\ len \in [PBUF -> Nat] /\ tot_len \in [PBUF -> Nat]
        /\ cursor \in [Holder -> PBUF \cup {NoBuf}]
        BY PbufTypes
  <1>1. alloc_src' # alloc_src BY DEF Live
  <1>2. ASSUME NEW h \in Holder, NEW src, NEW n \in 1 .. MaxPayload, pbuf_alloc(h, src, n)
        PROVE  TotalFits(b)'
    <2>1. PICK x \in PBUF : /\ alloc_src' = [alloc_src EXCEPT ![x] = src]
                            /\ next' = [next EXCEPT ![x] = NoBuf]
                            /\ len' = [len EXCEPT ![x] = n]
                            /\ tot_len' = [tot_len EXCEPT ![x] = n]
          BY <1>1, <1>2 DEF pbuf_alloc, pbufVars
    <2>2. x = b BY <1>0, <2>1 DEF Live
    <2>3. next'[b] = NoBuf /\ len'[b] = n /\ tot_len'[b] = n BY <1>0, <2>1, <2>2
    <2>4. n > 0 /\ n + 0 = n OBVIOUS
    <2> QED BY <2>3, <2>4 DEF TotalFits
  <1>3. ASSUME NEW h \in Holder, memp_free(h) PROVE FALSE
        BY <1>0, <1>3 DEF memp_free, Live
  <1>4. ASSUME NEW h \in Holder,
               \/ netbuf_free(h) \/ netbuf_alloc(h) \/ pbuf_free(h) \/ pp_recycle_rx_pbuf(h)
               \/ pbuf_free_header_cut(h) \/ pbuf_remove_header(h) \/ pbuf_free_header_done(h)
        PROVE  FALSE
        BY <1>1, <1>4 DEF netbuf_free, netbuf_alloc, pbuf_free, pp_recycle_rx_pbuf,
             pbuf_free_header_cut, pbuf_remove_header, pbuf_free_header_done, pbufVars
  <1>5. ASSUME NEW h \in Holder, NEW g \in Holder, pbuf_chain(h, g) \/ pbuf_ref(h, g) PROVE FALSE
        BY <1>1, <1>5 DEF pbuf_chain, pbuf_ref
  <1>6. ASSUME NEW h \in Holder, NEW size, pbuf_free_header(h, size) PROVE FALSE
        BY <1>1, <1>6 DEF pbuf_free_header, pbufVars
  <1>7. CASE UNCHANGED allVars BY <1>1, <1>7 DEF allVars, pbufVars
  <1> QED BY <1>2, <1>3, <1>4, <1>5, <1>6, <1>7 DEF PbufNext

(* Every step keeps totals: pbuf_chain adds the total of the tail to all    *)
(* pbufs of the head, which no link from outside leads to;                  *)
(* pbuf_remove_header shortens a first pbuf.                                *)
LEMMA TotalsStep ==
    ASSUME PacketInv, [PbufNext]_allVars, NEW b \in PBUF, Counts(b)'
    PROVE  TotalFits(b)'
  <1>0. /\ next \in [PBUF -> PBUF \cup {NoBuf}]
        /\ len \in [PBUF -> Nat] /\ tot_len \in [PBUF -> Nat]
        /\ free_left \in [Holder -> Nat]
        /\ hand \in [Holder -> PBUF \cup {NoBuf}] /\ cursor \in [Holder -> PBUF \cup {NoBuf}]
        BY PbufTypes
  <1>1. Live(b)' BY DEF Counts
  <1>2. CASE ~Live(b) BY <1>1, <1>2, LiveBefore
  <1>3. CASE Live(b)
    <2>1. Counts(b)
      <3>1. ASSUME NEW h \in Holder, CutBy(h, b) PROVE FALSE
        <4>1. CutBy(h, b)' BY <1>1, <3>1, CutRemains
        <4> QED BY <4>1 DEF Counts
      <3> QED BY <1>3, <3>1 DEF Counts
    <2>2. TotalFits(b) BY <2>1 DEF PacketInv, TotalsFit
    <2>3. PICK n : n = next[b] OBVIOUS
    <2>4. n # NoBuf => n \in PBUF /\ b \in Before(n) /\ Counts(n)
      <3> SUFFICES ASSUME n # NoBuf PROVE n \in PBUF /\ b \in Before(n) /\ Counts(n) OBVIOUS
      <3>1. n \in PBUF BY <1>0, <2>3
      <3>2. b \in Before(n) BY <1>3, <2>3 DEF Before
      <3> QED BY <3>1, <3>2, InUseCounts
    <2>5. n # NoBuf => Live(n) /\ ref[n] >= 1
      <3> SUFFICES ASSUME n # NoBuf PROVE Live(n) /\ ref[n] >= 1 OBVIOUS
      <3>1. PInv BY DEF PacketInv
      <3> QED BY <2>4, <3>1, Referred
    <2>6. ASSUME next'[b] = next[b], len'[b] = len[b], tot_len'[b] = tot_len[b],
                 n # NoBuf => tot_len'[n] = tot_len[n]
          PROVE  TotalFits(b)'
          BY <2>2, <2>3, <2>6, TotalStays
    <2>7. CASE UNCHANGED <<next, len, tot_len>> BY <2>6, <2>7
    <2>8. ASSUME NEW h \in Holder,
                 \/ netbuf_free(h) \/ netbuf_alloc(h) \/ pbuf_free(h) \/ pp_recycle_rx_pbuf(h)
                 \/ pbuf_free_header_done(h)
          PROVE  UNCHANGED <<next, len, tot_len>>
          BY <2>8 DEF netbuf_free, netbuf_alloc, pbuf_free, pp_recycle_rx_pbuf,
               pbuf_free_header_done, pbufVars
    <2>9. ASSUME NEW h \in Holder, NEW size, pbuf_free_header(h, size)
          PROVE  UNCHANGED <<next, len, tot_len>>
          BY <2>9 DEF pbuf_free_header, pbufVars
    <2>10. ASSUME NEW h \in Holder, NEW g \in Holder, pbuf_ref(h, g)
           PROVE  UNCHANGED <<next, len, tot_len>>
           BY <2>10 DEF pbuf_ref
    <2>11. ASSUME NEW h \in Holder, NEW src, NEW m, pbuf_alloc(h, src, m) PROVE TotalFits(b)'
      <3>1. SUFFICES ASSUME ~UNCHANGED <<next, len, tot_len>> PROVE TotalFits(b)' BY <2>7
      <3>2. PICK x \in PBUF : /\ ~Live(x)
                              /\ next' = [next EXCEPT ![x] = NoBuf]
                              /\ len' = [len EXCEPT ![x] = m]
                              /\ tot_len' = [tot_len EXCEPT ![x] = m]
            BY <2>11, <3>1 DEF pbuf_alloc, pbufVars
      <3>3. b # x /\ (n # NoBuf => n # x) BY <1>3, <2>5, <3>2
      <3> QED BY <1>0, <2>4, <2>6, <3>2, <3>3
    <2>12. ASSUME NEW h \in Holder, memp_free(h) PROVE TotalFits(b)'
      <3>1. PICK x : x = cursor[h] OBVIOUS
      <3>2. /\ alloc_src' = [alloc_src EXCEPT ![x] = "none"]
            /\ next' = [next EXCEPT ![x] = NoBuf]
            /\ len' = [len EXCEPT ![x] = 0]
            /\ tot_len' = [tot_len EXCEPT ![x] = 0]
            BY <2>12, <3>1 DEF memp_free
      <3>3. ref[x] = 0 BY <2>12, <3>1 DEF memp_free, PacketInv, PInv, PlacesFit, Releasing
      <3>4. alloc_src \in [PBUF -> AllocSrc \cup {"none"}] BY PbufTypes
      <3>5. b # x BY <1>1, <3>2, <3>4 DEF Live
      <3>6. n # NoBuf => n # x BY <2>5, <3>3
      <3> QED BY <1>0, <2>4, <2>6, <3>2, <3>5, <3>6
    <2>13. ASSUME NEW h \in Holder, pbuf_free_header_cut(h) PROVE TotalFits(b)'
      <3>1. PICK x \in PBUF : x = hand[h] BY <1>0, <2>13 DEF pbuf_free_header_cut
      <3>2. next' = [next EXCEPT ![x] = NoBuf] /\ UNCHANGED <<len, tot_len>>
            BY <2>13, <3>1 DEF pbuf_free_header_cut, CutOff
      <3>3. CutBy(h, x)'
        <4>1. doing \in [Holder -> {"app", "free", "release", "recycle", "alloc", "header"}]
              /\ then \in [Holder -> {"app", "alloc", "header"}]
              BY PbufTypes
        <4>2. doing'[h] = "free" /\ then'[h] = "header" /\ cursor'[h] = x
              BY <1>0, <2>13, <3>1, <4>1, PbufAssumption DEF pbuf_free_header_cut, StartFree
        <4> QED BY <4>2 DEF CutBy, Freeing
      <3>4. b # x BY <3>3 DEF Counts
      <3> QED BY <1>0, <2>6, <3>2, <3>4
    <2>14. ASSUME NEW h \in Holder, pbuf_remove_header(h) PROVE TotalFits(b)'
      <3>1. PICK x \in PBUF : x = hand[h] /\ doing[h] = "header"
            BY <1>0, <2>14 DEF pbuf_remove_header
      <3>2. PICK k \in Nat : k = free_left[h] BY <1>0
      <3>3. /\ next' = next /\ k < len[x]
            /\ len' = [len EXCEPT ![x] = len[x] - k]
            /\ tot_len' = [tot_len EXCEPT ![x] = tot_len[x] - k]
            BY <2>14, <3>1, <3>2 DEF pbuf_remove_header, ShortenTotal
      <3>4. PICK S : Owns(h, S)
            BY <3>1, PbufAssumption DEF PacketInv, HeadersOwn, HeaderFits, InHeader
      <3>5. x \in S BY <3>1, <3>4 DEF Owns
      <3>6. Before(x) = {} BY <3>1, <3>4, <3>5, OwnedAlone
      <3>7. n # NoBuf => n # x BY <2>4, <3>6
      <3>8. CASE b # x BY <1>0, <2>4, <2>6, <3>3, <3>7, <3>8
      <3>9. CASE b = x
        <4>1. n # NoBuf => tot_len'[n] = tot_len[n] /\ tot_len[n] \in Nat
              BY <1>0, <2>4, <3>3, <3>7
        <4>2. next'[b] = n BY <2>3, <3>3
        <4>3. len'[b] = len[b] - k /\ tot_len'[b] = tot_len[b] - k BY <1>0, <3>3, <3>9
        <4>4. tot_len[b] = len[b] + IF n = NoBuf THEN 0 ELSE tot_len[n]
              BY <2>2, <2>3 DEF TotalFits
        <4>5. len[b] - k > 0 /\ len[b] \in Nat BY <1>0, <3>3, <3>9
        <4>6. tot_len[b] - k = (len[b] - k) + IF n = NoBuf THEN 0 ELSE tot_len[n]
              BY <4>1, <4>4, <4>5
        <4> QED BY <4>1, <4>2, <4>3, <4>5, <4>6 DEF TotalFits
      <3> QED BY <3>8, <3>9
    <2>15. ASSUME NEW h \in Holder, NEW g \in Holder, pbuf_chain(h, g) PROVE TotalFits(b)'
      <3>1. PICK I : I = InChain(hand[h]) OBVIOUS
      <3>2. PICK tail \in PBUF : tail = hand[g] BY <1>0, <2>15 DEF pbuf_chain
      <3>3. /\ hand[h] # NoBuf /\ hand[g] # NoBuf /\ I \cap InChain(tail) = {}
            /\ next' = [c \in PBUF |-> IF c \in I /\ next[c] = NoBuf THEN tail ELSE next[c]]
            /\ tot_len' = [c \in PBUF |-> IF c \in I THEN tot_len[c] + tot_len[tail] ELSE tot_len[c]]
            /\ Own(h) /\ len' = len
            BY <2>15, <3>1, <3>2 DEF pbuf_chain, Own
      <3>4. Owns(h, I) BY <3>1, <3>3, OwnChain
      <3>5. tail \notin I
        <4>1. tail \in InChain(tail) BY <3>2, <3>3, ChainMembers
        <4> QED BY <3>3, <4>1
      <3>6. tot_len[tail] \in Nat /\ tot_len'[tail] = tot_len[tail] BY <1>0, <3>3, <3>5
      <3>7. CASE b \notin I
        <4>1. n # NoBuf => n \notin I
          <5> SUFFICES ASSUME n \in I, n # NoBuf PROVE FALSE OBVIOUS
          <5>1. b \in I BY <2>4, <3>4, OwnedAlone
          <5> QED BY <3>7, <5>1
        <4> QED BY <1>0, <2>4, <2>6, <3>3, <3>7, <4>1
      <3>8. CASE b \in I /\ n # NoBuf
        <4>1. n \in I BY <2>3, <3>4, <3>8 DEF Owns
        <4>2. /\ next'[b] = n /\ len'[b] = len[b] /\ tot_len'[b] = tot_len[b] + tot_len[tail]
              /\ tot_len'[n] = tot_len[n] + tot_len[tail]
              BY <1>0, <2>3, <2>4, <3>3, <3>8, <4>1
        <4>3. len[b] > 0 /\ tot_len[b] = len[b] + tot_len[n] BY <2>2, <2>3, <3>8 DEF TotalFits
        <4>4. len[b] \in Nat /\ tot_len[n] \in Nat BY <1>0, <2>4, <3>8
        <4>5. tot_len[b] + tot_len[tail] = len[b] + (tot_len[n] + tot_len[tail])
              BY <3>6, <4>3, <4>4
        <4> QED BY <3>8, <4>2, <4>3, <4>5 DEF TotalFits
      <3>9. CASE b \in I /\ n = NoBuf
        <4>1. next'[b] = tail /\ len'[b] = len[b] /\ tot_len'[b] = tot_len[b] + tot_len[tail]
              BY <1>0, <2>3, <3>3, <3>9
        <4>2. len[b] > 0 /\ tot_len[b] = len[b] + 0 BY <2>2, <2>3, <3>9 DEF TotalFits
        <4>3. tail # NoBuf /\ len[b] \in Nat BY <1>0, PbufAssumption
        <4>4. tot_len[b] + tot_len[tail] = len[b] + tot_len[tail] BY <3>6, <4>2, <4>3
        <4> QED BY <3>6, <4>1, <4>2, <4>3, <4>4 DEF TotalFits
      <3> QED BY <3>7, <3>8, <3>9
    <2>16. CASE UNCHANGED allVars BY <2>7, <2>16 DEF allVars, pbufVars
    <2> QED BY <2>7, <2>8, <2>9, <2>10, <2>11, <2>12, <2>13, <2>14, <2>15, <2>16 DEF PbufNext
  <1> QED BY <1>2, <1>3

(* The invariant holds at first.                                            *)
LEMMA PacketInit == PbufInit => PacketInv
  <1> SUFFICES ASSUME PbufInit PROVE PacketInv OBVIOUS
  <1>1. PInv BY PInit
  <1>2. SizesOK BY DEF PbufInit, SizesOK, Sizes
  <1>3. TotalsFit BY DEF PbufInit, TotalsFit, Counts, Live
  <1>4. HeadersOwn BY DEF PbufInit, HeadersOwn, HeaderFits, InHeader, Freeing
  <1> QED BY <1>1, <1>2, <1>3, <1>4 DEF PacketInv

(* Every step keeps it.                                                     *)
LEMMA PacketStep == PacketInv /\ [PbufNext]_allVars => PacketInv'
  <1> SUFFICES ASSUME PacketInv, [PbufNext]_allVars PROVE PacketInv' OBVIOUS
  <1>1. PInv' BY PStep DEF PacketInv
  <1>2. TotalsFit' BY TotalsStep DEF TotalsFit
  <1>3. HeadersOwn' BY HeadersStep DEF HeadersOwn
  <1> QED BY <1>1, <1>2, <1>3, SizesStep DEF PacketInv

(* A suffix that starts behind the first part of a concatenation.           *)
LEMMA DropFirst ==
    ASSUME NEW x \in Seq(Byte), NEW t \in Seq(Byte), NEW k \in Nat, k >= Len(x)
    PROVE  SubSeq(x \o t, k + 1, Len(x) + Len(t)) = SubSeq(t, (k - Len(x)) + 1, Len(t))
  <1>1. PICK lx, lt \in Nat : lx = Len(x) /\ lt = Len(t) BY LenProperties
  <1>2. CASE k < lx + lt
    <2>1. k + 1 \in lx + 1 .. lx + lt /\ lx + lt \in lx + 1 .. lx + lt BY <1>1, <1>2
    <2>2. SubSeq(x \o t, k + 1, lx + lt) = SubSeq(t, (k + 1) - lx, (lx + lt) - lx)
          BY <1>1, <2>1, SubSeqOfConcat2
    <2>3. (k + 1) - lx = (k - lx) + 1 /\ (lx + lt) - lx = lt BY <1>1
    <2> QED BY <1>1, <2>2, <2>3
  <1>3. CASE ~(k < lx + lt)
    <2>1. /\ k + 1 \in Int /\ lx + lt \in Int /\ lx + lt < k + 1
          /\ (k - lx) + 1 \in Int /\ lt \in Int /\ lt < (k - lx) + 1
          BY <1>3
    <2>2. SubSeq(x \o t, k + 1, lx + lt) = << >> BY <2>1, SubSeqEmpty
    <2>3. SubSeq(t, (k - lx) + 1, lt) = << >> BY <2>1, SubSeqEmpty
    <2> QED BY <1>1, <2>2, <2>3
  <1> QED BY <1>2, <1>3

(* A suffix that starts inside the first part of a concatenation.           *)
LEMMA CutFirst ==
    ASSUME NEW x \in Seq(Byte), NEW y \in Seq(Byte), NEW t \in Seq(Byte), NEW k \in Nat,
           k <= Len(x), Len(y) = Len(x) - k, \A i \in 1 .. Len(y) : y[i] = x[k + i]
    PROVE  y \o t = SubSeq(x \o t, k + 1, Len(x) + Len(t))
  <1>1. PICK lx, ly, lt \in Nat : lx = Len(x) /\ ly = Len(y) /\ lt = Len(t) BY LenProperties
  <1>2. PICK u : u = x \o t OBVIOUS
  <1>3. PICK v : v = y \o t OBVIOUS
  <1>4. PICK w : w = SubSeq(u, k + 1, lx + lt) OBVIOUS
  <1>5. /\ u \in Seq(Byte) /\ Len(u) = lx + lt
        /\ \A i \in 1 .. lx + lt : u[i] = IF i <= lx THEN x[i] ELSE t[i - lx]
        BY <1>1, <1>2, ConcatProperties
  <1>6. /\ v \in Seq(Byte) /\ Len(v) = ly + lt
        /\ \A i \in 1 .. ly + lt : v[i] = IF i <= ly THEN y[i] ELSE t[i - ly]
        BY <1>1, <1>3, ConcatProperties
  <1>7. ly = lx - k /\ k <= lx BY <1>1
  <1>8. /\ w \in Seq(Byte)
        /\ Len(w) = ly + lt
        /\ \A i \in 1 .. ly + lt : w[i] = u[k + i]
    <2>1. \A i \in k + 1 .. lx + lt : u[i] \in Byte
      <3> TAKE i \in k + 1 .. lx + lt
      <3>1. i \in 1 .. Len(u) BY <1>5
      <3> QED BY <1>5, <3>1, ElementOfSeq
    <2>2. PICK a : a = k + 1 /\ a \in Int BY <1>7
    <2>3. PICK z : z = lx + lt /\ z \in Int BY <1>7
    <2>4. /\ SubSeq(u, a, z) \in Seq(Byte)
          /\ Len(SubSeq(u, a, z)) = IF a <= z THEN z - a + 1 ELSE 0
          /\ \A i \in 1 .. z - a + 1 : SubSeq(u, a, z)[i] = u[a + i - 1]
          BY <2>1, <2>2, <2>3, SubSeqProperties
    <2>5. z - a + 1 = ly + lt /\ (~(a <= z) => ly + lt = 0) BY <1>7, <2>2, <2>3
    <2>6. Len(SubSeq(u, a, z)) = ly + lt BY <2>4, <2>5
    <2>7. \A i \in 1 .. ly + lt : a + i - 1 = k + i BY <2>2
    <2>8. w = SubSeq(u, a, z) BY <1>4, <2>2, <2>3
    <2> QED BY <2>4, <2>5, <2>6, <2>7, <2>8
  <1>9. ASSUME NEW i \in 1 .. Len(v) PROVE v[i] = w[i]
    <2>1. i \in 1 .. ly + lt /\ k + i \in 1 .. lx + lt BY <1>6, <1>7
    <2>2. CASE i <= ly
      <3>1. k + i <= lx /\ i \in 1 .. Len(y) BY <1>1, <1>7, <2>1, <2>2
      <3>2. v[i] = y[i] /\ u[k + i] = x[k + i] BY <1>5, <1>6, <2>1, <2>2, <3>1
      <3> QED BY <1>8, <2>1, <3>1, <3>2
    <2>3. CASE ~(i <= ly)
      <3>1. ~(k + i <= lx) /\ (k + i) - lx = i - ly BY <1>7, <2>1, <2>3
      <3>2. v[i] = t[i - ly] /\ u[k + i] = t[(k + i) - lx] BY <1>5, <1>6, <2>1, <2>3, <3>1
      <3> QED BY <1>8, <2>1, <3>1, <3>2
    <2> QED BY <2>2, <2>3
  <1>10. v = w BY <1>6, <1>8, <1>9, SeqEqual
  <1> QED BY <1>1, <1>2, <1>3, <1>4, <1>10

(* Remaining for any fields. *)
RemainingOf(nx, ln, pl, tl, b, n) ==
    IF b = NoBuf THEN << >> ELSE SubSeq(ContentsOf(nx, ln, pl, b), n + 1, tl[b])

(* It is Remaining when the fields are those of the state.                  *)
LEMMA RemainingIsOf ==
    \A h \in Holder :
        Remaining(h) = RemainingOf(next, len, payload, tot_len, hand[h], free_left[h])
  BY ContentsIsContentsOf DEF Remaining, RemainingOf

(* The invariant implies that reads are exact.                              *)
LEMMA ReadsFit == PacketInv => ReadsAreExact
  <1> SUFFICES ASSUME PacketInv, NEW h \in Holder, hand[h] # NoBuf
               PROVE  /\ tot_len[hand[h]] = Len(Contents(hand[h]))
                      /\ \A n, offset \in 0 .. Len(Contents(hand[h])) :
                            pbuf_copy_partial(hand[h], n, offset) =
                            Slice(Contents(hand[h]), offset, n)
      BY DEF ReadsAreExact, Slice
  <1>1. PICK b \in PBUF : b = hand[h] BY PbufTypes
  <1>2. b \in CountedPbufs
    <2>1. h \in HeldBy(b) BY <1>1 DEF HeldBy
    <2> QED BY <2>1, InUseCounts DEF CountedPbufs
  <1>3. Heap(next, len, tot_len, CountedPbufs) BY HeapFits
  <1>4. len \in Sizes /\ payload \in Sizes BY PbufTypes DEF Sizes
  <1>5. PICK bytes : bytes = Contents(b) OBVIOUS
  <1>6. bytes = ContentsOf(next, len, payload, b) BY <1>5, ContentsIsContentsOf
  <1>7. bytes \in Seq(Byte) /\ Len(bytes) = tot_len[b] BY <1>2, <1>3, <1>4, <1>6, ContentsFit
  <1>8. PICK c : c = ChainOf(next, b) OBVIOUS
  <1>9. c \in Seq(PBUF) BY <1>2, <1>3, <1>8, ChainIsPath DEF IsPath
  <1>10. bytes = JoinOf(len, payload, c) BY <1>6, <1>8 DEF ContentsOf
  <1>11. ASSUME NEW n \in 0 .. Len(bytes), NEW offset \in 0 .. Len(bytes)
         PROVE  pbuf_copy_partial(b, n, offset) = Slice(bytes, offset, n)
    <2>1. n \in Nat /\ offset \in Nat BY <1>7, LenProperties
    <2>2. CopiesOf(len, payload, c, n, offset)[Len(c)].data = Slice(bytes, offset, n)
          BY <1>4, <1>9, <1>10, <2>1, CopyIsSlice
    <2>3. pbuf_copy_partial(b, n, offset) = CopiesOf(len, payload, c, n, offset)[Len(c)].data
          BY <1>8, CopyIsCopiesOf
    <2> QED BY <2>2, <2>3
  <1> QED BY <1>1, <1>5, <1>7, <1>11

(* pbuf_copy_partial reads exactly the part of a packet that was asked for, *)
(* whatever way it is cut into pbufs, and tot_len is the number of its      *)
(* bytes, for any number of holders and pbufs and any payload, while        *)
(* packets are shared, chained, cut and freed.                              *)
THEOREM ReadsStayExact == PbufSpec => []ReadsAreExact
  <1>1. PbufSpec => []PacketInv BY PacketInit, PacketStep, PTL DEF PbufSpec
  <1> QED BY <1>1, ReadsFit, PTL

(* The packet that is being cut without its first pbuf: a heap that no link *)
(* leads back from.                                                         *)
LEMMA RestOwned ==
    ASSUME PacketInv, NEW h \in Holder, NEW S, Owns(h, S)
    PROVE  /\ hand[h] \in S /\ S \subseteq PBUF
           /\ Heap(next, len, tot_len, S)
           /\ Heap(next, len, tot_len, S \ {hand[h]})
           /\ next[hand[h]] # NoBuf => next[hand[h]] \in S \ {hand[h]}
           /\ \A x \in S : next[x] # hand[h]
  <1>1. hand[h] \in S /\ S \subseteq PBUF BY DEF Owns
  <1>2. Heap(next, len, tot_len, S) BY OwnedHeap
  <1>3. Before(hand[h]) = {} BY <1>1, OwnedAlone
  <1>4. \A x \in S : next[x] # hand[h]
    <2>1. \A x \in S : x \in PBUF /\ Live(x) BY DEF Owns
    <2> QED BY <1>3, <2>1 DEF Before
  <1>5. \A x \in S : next[x] \in S \cup {NoBuf} BY DEF Owns
  <1>6. next[hand[h]] # NoBuf => next[hand[h]] \in S \ {hand[h]} BY <1>1, <1>4, <1>5
  <1>7. Heap(next, len, tot_len, S \ {hand[h]})
    <2>1. PICK b : b = hand[h] OBVIOUS
    <2>2. \A x \in S \ {b} : next[x] \in (S \ {b}) \cup {NoBuf} BY <1>4, <1>5, <2>1
    <2> QED BY <1>2, <2>1, <2>2 DEF Heap
  <1> QED BY <1>1, <1>2, <1>4, <1>6, <1>7

(* The types of the fields before and after a step.                         *)
LEMMA TypesAfter ==
    ASSUME PacketInv, [PbufNext]_allVars
    PROVE  /\ next' \in Links /\ len' \in Sizes /\ tot_len' \in Sizes /\ payload' \in Sizes
           /\ next \in Links /\ len \in Sizes /\ tot_len \in Sizes /\ payload \in Sizes
  <1>1. PacketInv' BY PacketStep
  <1>2. next' \in Links BY <1>1 DEF PacketInv, PInv, PbufTypeOK, Links
  <1>3. next \in Links BY DEF PacketInv, PInv, PbufTypeOK, Links
  <1> QED BY <1>1, <1>2, <1>3 DEF PacketInv, SizesOK

(* What pbuf_free_header will leave, before and after a step.               *)
RemainingAfter(h) ==
    RemainingOf(next', len', payload', tot_len', hand'[h], free_left'[h])
RemainingNow(h) == RemainingOf(next, len, payload, tot_len, hand[h], free_left[h])

(* Cutting off a whole pbuf leaves what remains: its bytes were to go.      *)
LEMMA CutLeavesRest ==
    ASSUME PacketInv, [PbufNext]_allVars, NEW h \in Holder, NEW S, Owns(h, S),
           pbuf_free_header_cut(h)
    PROVE  RemainingAfter(h) = RemainingNow(h)
  <1>1. PICK b : b = hand[h] OBVIOUS
  <1>2. /\ b \in S /\ S \subseteq PBUF
        /\ Heap(next, len, tot_len, S) /\ Heap(next, len, tot_len, S \ {b})
        /\ next[b] # NoBuf => next[b] \in S \ {b}
        BY <1>1, RestOwned
  <1>3. /\ next' \in Links /\ len' \in Sizes /\ tot_len' \in Sizes /\ payload' \in Sizes
        /\ next \in Links /\ len \in Sizes /\ tot_len \in Sizes /\ payload \in Sizes
        BY TypesAfter
  <1>4. b \in PBUF /\ b # NoBuf BY <1>2, PbufAssumption
  <1>5. PICK n : n = next[b] OBVIOUS
  <1>5a. PICK T : T = S \ {b} OBVIOUS
  <1>6. PICK k \in Nat : k = free_left[h] BY PbufTypes
  <1>7. /\ k >= len[b] /\ hand'[h] = n /\ free_left'[h] = k - len[b]
        /\ next' = [next EXCEPT ![b] = NoBuf] /\ UNCHANGED <<len, tot_len, payload>>
        BY <1>1, <1>5, <1>6, PbufTypes DEF pbuf_free_header_cut, CutOff
  <1>8. PICK x : x = BytesOf(len, payload, b) OBVIOUS
  <1>9. x \in Seq(Byte) /\ Len(x) = len[b] BY <1>3, <1>4, <1>8, BytesType
  <1>10. PICK c : c = ContentsOf(next, len, payload, b) OBVIOUS
  <1>11. Len(c) = tot_len[b] BY <1>2, <1>3, <1>10, ContentsFit
  <1>12. c = IF n = NoBuf THEN x ELSE x \o ContentsOf(next, len, payload, n)
    <2>1. payload \in Sizes /\ Heap(next, len, tot_len, S) /\ b \in S BY <1>2, <1>3
    <2>2. ContentsOf(next, len, payload, b) =
              IF next[b] = NoBuf THEN BytesOf(len, payload, b)
              ELSE BytesOf(len, payload, b) \o ContentsOf(next, len, payload, next[b])
          BY <2>1, ContentsUnfold
    <2> QED BY <1>5, <1>8, <1>10, <2>2
  <1>13. RemainingNow(h) = SubSeq(c, k + 1, tot_len[b])
         BY <1>1, <1>4, <1>6, <1>10 DEF RemainingNow, RemainingOf
  <1>14. CASE n = NoBuf
    <2>1. RemainingAfter(h) = << >> BY <1>7, <1>14 DEF RemainingAfter, RemainingOf
    <2>2. tot_len[b] = len[b] BY <1>9, <1>11, <1>12, <1>14
    <2>3. k + 1 \in Int /\ tot_len[b] \in Int /\ tot_len[b] < k + 1
          BY <1>3, <1>4, <1>7, <2>2 DEF Sizes
    <2>4. SubSeq(c, k + 1, tot_len[b]) = << >> BY <2>3, SubSeqEmpty
    <2> QED BY <1>13, <2>1, <2>4
  <1>15. CASE n # NoBuf
    <2>1. n \in S \ {b} /\ n \in PBUF BY <1>2, <1>5, <1>15
    <2>2. PICK t : t = ContentsOf(next, len, payload, n) OBVIOUS
    <2>3. t \in Seq(Byte) /\ Len(t) = tot_len[n] BY <1>2, <1>3, <2>1, <2>2, ContentsFit
    <2>4. ContentsOf(next', len', payload', n) = t
      <3>1. \A y \in T : /\ next'[y] = next[y] /\ len'[y] = len[y]
                         /\ tot_len'[y] = tot_len[y] /\ payload'[y] = payload[y]
            BY <1>2, <1>3, <1>7, <1>5a DEF Links
      <3>2. /\ payload \in Sizes /\ Heap(next, len, tot_len, T) /\ n \in T
            /\ next' \in Links /\ len' \in Sizes /\ tot_len' \in Sizes /\ payload' \in Sizes
            BY <1>2, <1>3, <1>5a, <2>1
      <3>3. ContentsOf(next', len', payload', n) = ContentsOf(next, len, payload, n)
            BY <3>1, <3>2, ContentsSame
      <3> QED BY <2>2, <3>3
    <2>5. RemainingAfter(h) = SubSeq(t, (k - len[b]) + 1, tot_len[n])
          BY <1>7, <1>15, <2>4 DEF RemainingAfter, RemainingOf
    <2>6. c = x \o t BY <1>12, <1>15, <2>2
    <2>7. tot_len[b] = Len(x) + Len(t) BY <1>9, <1>11, <2>3, <2>6, ConcatProperties
    <2>8. SubSeq(x \o t, k + 1, Len(x) + Len(t)) = SubSeq(t, (k - Len(x)) + 1, Len(t))
          BY <1>7, <1>9, <2>3, DropFirst
    <2> QED BY <1>9, <1>13, <2>3, <2>5, <2>6, <2>7, <2>8
  <1> QED BY <1>14, <1>15

(* Shortening a pbuf leaves what remains: payload moves by what was to go.  *)
LEMMA RemoveLeavesRest ==
    ASSUME PacketInv, [PbufNext]_allVars, NEW h \in Holder, NEW S, Owns(h, S),
           pbuf_remove_header(h)
    PROVE  RemainingAfter(h) = RemainingNow(h)
  <1>1. PICK b : b = hand[h] OBVIOUS
  <1>2. /\ b \in S /\ S \subseteq PBUF
        /\ Heap(next, len, tot_len, S) /\ Heap(next, len, tot_len, S \ {b})
        /\ next[b] # NoBuf => next[b] \in S \ {b}
        BY <1>1, RestOwned
  <1>3. /\ next' \in Links /\ len' \in Sizes /\ tot_len' \in Sizes /\ payload' \in Sizes
        /\ next \in Links /\ len \in Sizes /\ tot_len \in Sizes /\ payload \in Sizes
        BY TypesAfter
  <1>4. b \in PBUF /\ b # NoBuf BY <1>2, PbufAssumption
  <1>5. PICK n : n = next[b] OBVIOUS
  <1>5a. PICK T : T = S \ {b} OBVIOUS
  <1>6. PICK k \in Nat : k = free_left[h] BY PbufTypes
  <1>7. /\ k < len[b] /\ hand'[h] = b /\ free_left'[h] = 0
        /\ next' = next
        /\ len' = [len EXCEPT ![b] = len[b] - k]
        /\ tot_len' = [tot_len EXCEPT ![b] = tot_len[b] - k]
        /\ payload' = [payload EXCEPT ![b] = payload[b] + k]
        BY <1>1, <1>6, PbufTypes DEF pbuf_remove_header, ShortenTotal, MovePayload
  <1>8. PICK x, y : x = BytesOf(len, payload, b) /\ y = BytesOf(len', payload', b) OBVIOUS
  <1>9. /\ x \in Seq(Byte) /\ Len(x) = len[b] /\ \A i \in 1 .. len[b] : x[i] = <<b, payload[b] + i>>
        /\ y \in Seq(Byte) /\ Len(y) = len'[b]
        /\ \A i \in 1 .. len'[b] : y[i] = <<b, payload'[b] + i>>
    <2>1. /\ x \in Seq(Byte) /\ Len(x) = len[b]
          /\ \A i \in 1 .. len[b] : x[i] = <<b, payload[b] + i>>
          BY <1>3, <1>4, <1>8, BytesType
    <2>2. /\ y \in Seq(Byte) /\ Len(y) = len'[b]
          /\ \A i \in 1 .. len'[b] : y[i] = <<b, payload'[b] + i>>
          BY <1>3, <1>4, <1>8, BytesType
    <2> QED BY <2>1, <2>2
  <1>10. PICK c, d : /\ c = ContentsOf(next, len, payload, b)
                     /\ d = ContentsOf(next', len', payload', b)
         OBVIOUS
  <1>11. c \in Seq(Byte) /\ Len(c) = tot_len[b] BY <1>2, <1>3, <1>10, ContentsFit
  <1>12. c = IF n = NoBuf THEN x ELSE x \o ContentsOf(next, len, payload, n)
    <2>1. payload \in Sizes /\ Heap(next, len, tot_len, S) /\ b \in S BY <1>2, <1>3
    <2>2. ContentsOf(next, len, payload, b) =
              IF next[b] = NoBuf THEN BytesOf(len, payload, b)
              ELSE BytesOf(len, payload, b) \o ContentsOf(next, len, payload, next[b])
          BY <2>1, ContentsUnfold
    <2> QED BY <1>5, <1>8, <1>10, <2>2
  <1>13. Heap(next', len', tot_len', S)
    <2>1. ASSUME NEW z \in S
          PROVE  /\ len'[z] > 0 /\ next'[z] \in S \cup {NoBuf}
                 /\ tot_len'[z] = len'[z] + IF next'[z] = NoBuf THEN 0 ELSE tot_len'[next'[z]]
      <3>1. z \in PBUF /\ Counts(z) BY <1>2, OwnedAlone
      <3>2. Counts(z)'
        <4>1. UNCHANGED <<alloc_src, doing, cursor, then>> BY DEF pbuf_remove_header
        <4> QED BY <3>1, <4>1 DEF Counts, Live, CutBy, Freeing
      <3>3. TotalFits(z)' BY <3>1, <3>2, TotalsStep
      <3>4. next'[z] \in S \cup {NoBuf} BY <1>7 DEF Owns
      <3> QED BY <3>3, <3>4 DEF TotalFits
    <2> QED BY <1>2, <1>3, <2>1 DEF Heap, Sizes
  <1>14. d = IF n = NoBuf THEN y ELSE y \o ContentsOf(next', len', payload', n)
    <2>1. n = next'[b] BY <1>5, <1>7
    <2>2. payload' \in Sizes /\ Heap(next', len', tot_len', S) /\ b \in S BY <1>2, <1>3, <1>13
    <2>3. ContentsOf(next', len', payload', b) =
              IF next'[b] = NoBuf THEN BytesOf(len', payload', b)
              ELSE BytesOf(len', payload', b) \o ContentsOf(next', len', payload', next'[b])
          BY <2>2, ContentsUnfold
    <2> QED BY <1>8, <1>10, <2>1, <2>3
  <1>15. d \in Seq(Byte) /\ Len(d) = tot_len'[b] BY <1>2, <1>3, <1>10, <1>13, ContentsFit
  <1>16. RemainingNow(h) = SubSeq(c, k + 1, Len(c))
         BY <1>1, <1>4, <1>6, <1>10, <1>11 DEF RemainingNow, RemainingOf
  <1>17. RemainingAfter(h) = d
    <2>1. RemainingAfter(h) = SubSeq(d, 0 + 1, Len(d))
          BY <1>4, <1>7, <1>10, <1>15 DEF RemainingAfter, RemainingOf
    <2>2. RemainingAfter(h) = SubSeq(d, 1, Len(d)) BY <2>1
    <2> QED BY <1>15, <2>2, SubSeqFull
  <1>18. PICK t \in Seq(Byte) : c = x \o t /\ d = y \o t
    <2>1. CASE n = NoBuf
      <3>1. << >> \in Seq(Byte) /\ x \o << >> = x /\ y \o << >> = y
            BY <1>9, EmptySeq, ConcatEmptySeq
      <3> QED BY <1>12, <1>14, <2>1, <3>1
    <2>2. CASE n # NoBuf
      <3>1. n \in S \ {b} /\ n \in PBUF BY <1>2, <1>5, <2>2
      <3>2. PICK t : t = ContentsOf(next, len, payload, n) OBVIOUS
      <3>3. t \in Seq(Byte) BY <1>2, <1>3, <3>1, <3>2, ContentsFit
      <3>4. ContentsOf(next', len', payload', n) = t
        <4>1. \A z \in T : /\ next'[z] = next[z] /\ len'[z] = len[z]
                           /\ tot_len'[z] = tot_len[z] /\ payload'[z] = payload[z]
              BY <1>2, <1>3, <1>7, <1>5a DEF Sizes
        <4>2. /\ payload \in Sizes /\ Heap(next, len, tot_len, T) /\ n \in T
              /\ next' \in Links /\ len' \in Sizes /\ tot_len' \in Sizes /\ payload' \in Sizes
              BY <1>2, <1>3, <1>5a, <3>1
        <4>3. ContentsOf(next', len', payload', n) = ContentsOf(next, len, payload, n)
              BY <4>1, <4>2, ContentsSame
        <4> QED BY <3>2, <4>3
      <3> QED BY <1>12, <1>14, <2>2, <3>2, <3>3, <3>4
    <2> QED BY <2>1, <2>2
  <1>19. Len(c) = Len(x) + Len(t) BY <1>9, <1>18, ConcatProperties
  <1>20. len'[b] = len[b] - k /\ payload'[b] = payload[b] + k /\ len[b] \in Nat /\ payload[b] \in Nat
         BY <1>3, <1>4, <1>7 DEF Sizes
  <1>21. \A i \in 1 .. Len(y) : y[i] = x[k + i]
    <2> TAKE i \in 1 .. Len(y)
    <2>1. i \in 1 .. len'[b] /\ k + i \in 1 .. len[b] BY <1>9, <1>20
    <2>2. payload'[b] + i = payload[b] + (k + i) BY <1>20
    <2> QED BY <1>9, <2>1, <2>2
  <1>22. k <= Len(x) /\ Len(y) = Len(x) - k BY <1>7, <1>9, <1>20
  <1>23. y \o t = SubSeq(x \o t, k + 1, Len(x) + Len(t)) BY <1>9, <1>21, <1>22, CutFirst
  <1> QED BY <1>16, <1>17, <1>18, <1>19, <1>23

(* So does every step, of this holder or another.                           *)
LEMMA HeaderLeavesRest ==
    ASSUME PacketInv, [PbufNext]_allVars, NEW h \in Holder, InHeader(h)
    PROVE  RemainingAfter(h) = RemainingNow(h)
  <1>1. CASE hand[h] = NoBuf
    <2>1. ~pbuf_free_header_cut(h) /\ ~pbuf_remove_header(h)
          BY <1>1 DEF pbuf_free_header_cut, pbuf_remove_header
    <2>2. pbuf_free_header_done(h) => hand'[h] = hand[h] BY DEF pbuf_free_header_done
    <2>3. hand'[h] = hand[h] BY <2>1, <2>2, HeaderSteps
    <2> QED BY <1>1, <2>3 DEF RemainingAfter, RemainingNow, RemainingOf
  <1>2. CASE hand[h] # NoBuf
    <2>1. PICK S \in SUBSET PBUF : Owns(h, S) BY <1>2 DEF PacketInv, HeadersOwn, HeaderFits
    <2>2. CASE pbuf_free_header_cut(h) BY <2>1, <2>2, CutLeavesRest
    <2>3. CASE pbuf_remove_header(h) BY <2>1, <2>3, RemoveLeavesRest
    <2>4. ASSUME hand'[h] = hand[h], free_left'[h] = free_left[h], \A b \in S : Stays(b)
          PROVE  RemainingAfter(h) = RemainingNow(h)
      <3>1. hand[h] \in S /\ Heap(next, len, tot_len, S) BY <2>1, RestOwned
      <3>2. /\ next' \in Links /\ len' \in Sizes /\ tot_len' \in Sizes /\ payload' \in Sizes
            /\ payload \in Sizes
            BY TypesAfter
      <3>3. \A y \in S : /\ next'[y] = next[y] /\ len'[y] = len[y]
                         /\ tot_len'[y] = tot_len[y] /\ payload'[y] = payload[y]
            BY <2>4 DEF Stays
      <3>4. PICK b : b = hand[h] OBVIOUS
      <3>5. ContentsOf(next', len', payload', b) = ContentsOf(next, len, payload, b)
            BY <3>1, <3>2, <3>3, <3>4, ContentsSame
      <3>6. tot_len'[b] = tot_len[b] BY <3>1, <3>3, <3>4
      <3> QED BY <2>4, <3>4, <3>5, <3>6 DEF RemainingAfter, RemainingNow, RemainingOf
    <2>5. CASE pbuf_free_header_done(h)
      <3>1. hand' = hand /\ free_left[h] = 0 /\ UNCHANGED pbufVars
            BY <1>2, <2>5 DEF pbuf_free_header_done
      <3>2. free_left'[h] = free_left[h] BY <2>5, <3>1, PbufTypes DEF pbuf_free_header_done
      <3>3. \A b \in S : Stays(b) BY <3>1 DEF Stays, pbufVars
      <3> QED BY <2>4, <3>1, <3>2, <3>3
    <2> QED BY <2>1, <2>2, <2>3, <2>4, <2>5, HeaderSteps
  <1> QED BY <1>1, <1>2

(* pbuf_free_header takes away the bytes it was told to and no other, for   *)
(* any number of holders and pbufs and any payload: no step, of its own or  *)
(* of another task, while pbuf_free runs in between, changes what will      *)
(* remain of the packet.                                                    *)
THEOREM HeadersStayExact == PbufSpec => HeadersAreCutExactly
  <1>1. PbufSpec => []PacketInv BY PacketInit, PacketStep, PTL DEF PbufSpec
  <1>2. (\A h \in Holder : Remaining(h) = RemainingNow(h))' BY RemainingIsOf, PTL DEF RemainingNow
  <1>3. ASSUME PacketInv, [PbufNext]_allVars
        PROVE  [\A h \in Holder : "header" \in {doing[h], then[h]} =>
                                  Remaining(h)' = Remaining(h)]_allVars
    <2>1. ASSUME NEW h \in Holder, InHeader(h) PROVE Remaining(h)' = Remaining(h)
      <3>1. Remaining(h) = RemainingNow(h) BY RemainingIsOf DEF RemainingNow
      <3>2. Remaining(h)' = RemainingAfter(h) BY <1>2 DEF RemainingNow, RemainingAfter
      <3> QED BY <1>3, <2>1, <3>1, <3>2, HeaderLeavesRest
    <2> QED BY <2>1 DEF InHeader
  <1> QED BY <1>1, <1>3, PTL DEF PbufSpec, HeadersAreCutExactly
-----------------------------------------------------------------------------
(* The invariant: types, and fd_used is exact.  It is inductive as it is:   *)
(* where a function stands in the code determines how often it uses a slot. *)
SocketInv == SocketTypeOK /\ UsesAreCounted

(* The uses of a slot are finitely many.                                    *)
LEMMA UsersAreFinite == ASSUME NEW s PROVE IsFiniteSet(Users(s))
  <1>1. IsFiniteSet({1, 2})
    <2>1. IsFiniteSet({1} \cup {2}) BY FS_Singleton, FS_AddElement
    <2> QED BY <2>1
  <1>2. IsFiniteSet(Task \X {1, 2}) BY <1>1, FS_Product, SocketAssumption
  <1>3. Users(s) \subseteq Task \X {1, 2} BY DEF Users
  <1> QED BY <1>2, <1>3, FS_Subset

(* What UsesAt can be.                                                      *)
LEMMA UsesType == ASSUME NEW l PROVE UsesAt(l) \in {0, 1, 2}
  BY DEF UsesAt

(* A step of t that leaves the number of its uses alone leaves all of them  *)
(* alone.                                                                   *)
LEMMA SameUses ==
    ASSUME SocketInv, NEW t \in Task,
           \A u \in Task \ {t} : pc'[u] = pc[u] /\ sock'[u] = sock[u],
           UsesAt(pc'[t]) = UsesAt(pc[t]),
           UsesAt(pc[t]) # 0 => sock'[t] = sock[t],
           fd_used' = fd_used
    PROVE  UsesAreCounted'
  <1> SUFFICES ASSUME NEW s \in Slot PROVE fd_used'[s] = Cardinality(Users(s)')
      BY DEF UsesAreCounted
  <1>1. Users(s)' = Users(s)
    <2>1. \A u \in Task, k \in {1, 2} :
              (sock'[u] = s /\ k <= UsesAt(pc'[u])) <=> (sock[u] = s /\ k <= UsesAt(pc[u]))
          BY UsesType
    <2> QED BY <2>1 DEF Users
  <1> QED BY <1>1 DEF SocketInv, UsesAreCounted

(* A step of t that uses slot s once more.                                  *)
LEMMA OneMoreUse ==
    ASSUME SocketInv, NEW t \in Task, NEW s \in Slot,
           \A u \in Task \ {t} : pc'[u] = pc[u] /\ sock'[u] = sock[u],
           UsesAt(pc'[t]) = UsesAt(pc[t]) + 1,
           sock'[t] = s,
           UsesAt(pc[t]) # 0 => sock[t] = s,
           fd_used' = [fd_used EXCEPT ![s] = fd_used[s] + 1]
    PROVE  UsesAreCounted'
  <1> SUFFICES ASSUME NEW r \in Slot PROVE fd_used'[r] = Cardinality(Users(r)')
      BY DEF UsesAreCounted
  <1> DEFINE new == <<t, UsesAt(pc'[t])>>
  <1>1. fd_used \in [Slot -> Nat] /\ fd_used[r] = Cardinality(Users(r))
        BY DEF SocketInv, SocketTypeOK, UsesAreCounted
  <1>2. UsesAt(pc[t]) \in {0, 1} /\ UsesAt(pc'[t]) \in {1, 2}
        BY UsesType
  <1>3. \A u \in Task \ {t}, k \in {1, 2} :
            (sock'[u] = r /\ k <= UsesAt(pc'[u])) <=> (sock[u] = r /\ k <= UsesAt(pc[u]))
        OBVIOUS
  <1>4. CASE r = s
    <2>1. \A k \in {1, 2} : (sock'[t] = r /\ k <= UsesAt(pc'[t]))
              <=> ((sock[t] = r /\ k <= UsesAt(pc[t])) \/ k = UsesAt(pc'[t]))
          BY <1>2, <1>4
    <2>2. Users(r)' = Users(r) \cup {new} BY <1>2, <1>3, <2>1 DEF Users
    <2>3. new \notin Users(r) BY <1>2 DEF Users
    <2>4. Cardinality(Users(r)') = Cardinality(Users(r)) + 1
          BY <2>2, <2>3, UsersAreFinite, FS_AddElement
    <2> QED BY <1>1, <1>4, <2>4
  <1>5. CASE r # s
    <2>1. \A k \in {1, 2} : ~(sock'[t] = r /\ k <= UsesAt(pc'[t]))
                            /\ ~(sock[t] = r /\ k <= UsesAt(pc[t]))
          BY <1>2, <1>5
    <2>2. Users(r)' = Users(r) BY <1>3, <2>1 DEF Users
    <2> QED BY <1>1, <1>5, <2>2
  <1> QED BY <1>4, <1>5

(* A step of t that is done with one use of slot s.                         *)
LEMMA OneUseLess ==
    ASSUME SocketInv, NEW t \in Task, NEW s \in Slot,
           \A u \in Task \ {t} : pc'[u] = pc[u] /\ sock'[u] = sock[u],
           UsesAt(pc[t]) = UsesAt(pc'[t]) + 1,
           sock[t] = s,
           UsesAt(pc'[t]) # 0 => sock'[t] = s,
           fd_used' = [fd_used EXCEPT ![s] = fd_used[s] - 1]
    PROVE  UsesAreCounted'
  <1> SUFFICES ASSUME NEW r \in Slot PROVE fd_used'[r] = Cardinality(Users(r)')
      BY DEF UsesAreCounted
  <1> DEFINE old == <<t, UsesAt(pc[t])>>
  <1>1. fd_used \in [Slot -> Nat] /\ fd_used[r] = Cardinality(Users(r))
        BY DEF SocketInv, SocketTypeOK, UsesAreCounted
  <1>2. UsesAt(pc'[t]) \in {0, 1} /\ UsesAt(pc[t]) \in {1, 2}
        BY UsesType
  <1>3. \A u \in Task \ {t}, k \in {1, 2} :
            (sock'[u] = r /\ k <= UsesAt(pc'[u])) <=> (sock[u] = r /\ k <= UsesAt(pc[u]))
        OBVIOUS
  <1>4. CASE r = s
    <2>1. \A k \in {1, 2} : (sock'[t] = r /\ k <= UsesAt(pc'[t]))
              <=> ((sock[t] = r /\ k <= UsesAt(pc[t])) /\ k # UsesAt(pc[t]))
          BY <1>2, <1>4
    <2>2. Users(r)' = Users(r) \ {old} BY <1>2, <1>3, <2>1 DEF Users
    <2>3. old \in Users(r) BY <1>2, <1>4 DEF Users
    <2>4. Cardinality(Users(r)') = Cardinality(Users(r)) - 1
          BY <2>2, <2>3, UsersAreFinite, FS_RemoveElement
    <2> QED BY <1>1, <1>4, <2>4
  <1>5. CASE r # s
    <2>1. \A k \in {1, 2} : ~(sock'[t] = r /\ k <= UsesAt(pc'[t]))
                            /\ ~(sock[t] = r /\ k <= UsesAt(pc[t]))
          BY <1>2, <1>5
    <2>2. Users(r)' = Users(r) BY <1>3, <2>1 DEF Users
    <2> QED BY <1>1, <1>5, <2>2
  <1> QED BY <1>4, <1>5

(* A slot that is used has a count; two uses make a count of two.           *)
LEMMA UsedSlots ==
    ASSUME SocketInv, NEW t \in Task, UsesAt(pc[t]) # 0
    PROVE  /\ fd_used[sock[t]] \in Nat \ {0}
           /\ UsesAt(pc[t]) = 2 => fd_used[sock[t]] > 1
           /\ \A u \in Task \ {t} : sock[u] = sock[t] /\ UsesAt(pc[u]) # 0
                                    => fd_used[sock[t]] > 1
  <1> DEFINE s == sock[t]
  <1>1. s \in Slot /\ fd_used[s] = Cardinality(Users(s)) /\ fd_used[s] \in Nat
        BY DEF SocketInv, SocketTypeOK, UsesAreCounted
  <1>2. <<t, 1>> \in Users(s) BY UsesType DEF Users
  <1>3. fd_used[s] # 0 BY <1>1, <1>2, UsersAreFinite, FS_EmptySet
  <1>4. ASSUME NEW a, NEW b, a # b, a \in Users(s), b \in Users(s) PROVE fd_used[s] > 1
    <2>1. /\ IsFiniteSet(Users(s) \ {a})
          /\ Cardinality(Users(s) \ {a}) = Cardinality(Users(s)) - 1
          BY <1>4, UsersAreFinite, FS_RemoveElement
    <2>2. Cardinality(Users(s) \ {a}) # 0 BY <1>4, <2>1, FS_EmptySet
    <2>3. fd_used[s] - 1 # 0 /\ fd_used[s] # 0 BY <1>1, <1>3, <2>1, <2>2
    <2> QED BY <1>1, <2>3
  <1>5. ASSUME UsesAt(pc[t]) = 2 PROVE fd_used[s] > 1
    <2>1. <<t, 2>> \in Users(s) BY <1>5 DEF Users
    <2>2. <<t, 1>> # <<t, 2>> OBVIOUS
    <2> QED BY <1>2, <1>4, <2>1, <2>2
  <1>6. ASSUME NEW u \in Task \ {t}, sock[u] = s, UsesAt(pc[u]) # 0 PROVE fd_used[s] > 1
    <2>1. <<u, 1>> \in Users(s) BY <1>6, UsesType DEF Users
    <2>2. <<t, 1>> # <<u, 1>> OBVIOUS
    <2> QED BY <1>2, <1>4, <2>1, <2>2
  <1> QED BY <1>1, <1>3, <1>5, <1>6
-----------------------------------------------------------------------------
(* One lemma per action.  First those that leave the number of uses alone,  *)
(* and sock_inc_used.                                                       *)
USE SocketAssumption DEF Goto, Keep, Return, Release, tableVars, Slot

(* sock_inc_used adds the use that get_socket owes.                         *)
LEMMA sock_inc_used_Inv ==
    ASSUME SocketInv, NEW t \in Task, sock_inc_used(t)
    PROVE  SocketInv'
  <1>1. SocketTypeOK' BY SMTT(40) DEF SocketInv, SocketTypeOK, sock_inc_used, Label, Function
  <1>2. UsesAreCounted'
    <2>1. /\ \A u \in Task \ {t} : pc'[u] = pc[u] /\ sock'[u] = sock[u]
          /\ UsesAt(pc'[t]) = UsesAt(pc[t]) + 1
          /\ sock'[t] = sock[t] /\ sock[t] \in 0 .. NUM_SOCKETS - 1
          /\ fd_used' = [fd_used EXCEPT ![sock[t]] = fd_used[sock[t]] + 1]
          BY DEF SocketInv, SocketTypeOK, sock_inc_used, UsesAt
    <2> QED BY <2>1, OneMoreUse
  <1> QED BY <1>1, <1>2 DEF SocketInv

(* tryget_socket returns with the use it has, or goes to undo it.           *)
LEMMA tryget_socket_Inv ==
    ASSUME SocketInv, NEW t \in Task, tryget_socket(t)
    PROVE  SocketInv'
  <1>1. SocketTypeOK'
        BY DEF SocketInv, SocketTypeOK, tryget_socket, AfterGet, Label, Function
  <1>2. UsesAreCounted'
    <2>1. /\ \A u \in Task \ {t} : pc'[u] = pc[u] /\ sock'[u] = sock[u]
          /\ UsesAt(pc'[t]) = UsesAt(pc[t])
          /\ UsesAt(pc[t]) # 0 => sock'[t] = sock[t]
          /\ fd_used' = fd_used
          BY DEF SocketInv, SocketTypeOK, tryget_socket, AfterGet, UsesAt
    <2> QED BY <2>1, SameUses
  <1> QED BY <1>1, <1>2 DEF SocketInv

(* A call into netconn keeps its use.                                       *)
LEMMA netconn_call_Inv ==
    ASSUME SocketInv, NEW t \in Task, netconn_call(t)
    PROVE  SocketInv'
  <1>1. SocketTypeOK'
    <2>1. pc' \in [Task -> Label]
          BY ZenonT(60) DEF SocketInv, SocketTypeOK, netconn_call, Label
    <2>2. kind' \in [Buf -> {"none", "pbuf", "netbuf"}]
          BY ZenonT(60) DEF SocketInv, SocketTypeOK, netconn_call
    <2>3. p' \in [Task -> Buf \cup {NULL}]
          BY SMTT(40) DEF SocketInv, SocketTypeOK, netconn_call
    <2>4. on' \in [Task -> Conn \cup {NULL}]
          BY DEF SocketInv, SocketTypeOK, netconn_call
    <2> QED BY <2>1, <2>2, <2>3, <2>4 DEF SocketInv, SocketTypeOK, netconn_call
  <1>2. UsesAreCounted'
    <2>1. /\ \A u \in Task \ {t} : pc'[u] = pc[u] /\ sock'[u] = sock[u]
          /\ UsesAt(pc'[t]) = UsesAt(pc[t])
          /\ UsesAt(pc[t]) # 0 => sock'[t] = sock[t]
          /\ fd_used' = fd_used
          BY DEF SocketInv, SocketTypeOK, netconn_call, UsesAt
    <2> QED BY <2>1, SameUses
  <1> QED BY <1>1, <1>2 DEF SocketInv

(* So does the return from it, whatever the answer.                         *)
LEMMA netconn_return_Inv ==
    ASSUME SocketInv, NEW t \in Task, netconn_return(t)
    PROVE  SocketInv'
  <1>1. SocketTypeOK' BY DEF SocketInv, SocketTypeOK, netconn_return, Label, Function
  <1>2. UsesAreCounted'
    <2>1. /\ \A u \in Task \ {t} : pc'[u] = pc[u] /\ sock'[u] = sock[u]
          /\ UsesAt(pc'[t]) = UsesAt(pc[t])
          /\ UsesAt(pc[t]) # 0 => sock'[t] = sock[t]
          /\ fd_used' = fd_used
          BY DEF SocketInv, SocketTypeOK, netconn_return, UsesAt
    <2> QED BY <2>1, SameUses
  <1> QED BY <1>1, <1>2 DEF SocketInv

(* Looking for leftover data keeps the use.                                 *)
LEMMA lwip_recv_Inv == ASSUME SocketInv, NEW t \in Task, lwip_recv(t) PROVE SocketInv'
  <1>1. SocketTypeOK'
    <2>1. pc' \in [Task -> Label]
      <3>1. \E l \in {"copy", "fetch"} : pc' = [pc EXCEPT ![t] = l] BY DEF lwip_recv
      <3>2. pc \in [Task -> Label] BY DEF SocketInv, SocketTypeOK
      <3> QED BY <3>1, <3>2 DEF Label
    <2>2. p' \in [Task -> Buf \cup {NULL}]
          BY DEF SocketInv, SocketTypeOK, lwip_recv
    <2>3. on' \in [Task -> Conn \cup {NULL}]
          BY DEF SocketInv, SocketTypeOK, lwip_recv
    <2> QED BY <2>1, <2>2, <2>3 DEF SocketInv, SocketTypeOK, lwip_recv
  <1>2. UsesAreCounted'
    <2>1. /\ \A u \in Task \ {t} : pc'[u] = pc[u] /\ sock'[u] = sock[u]
          /\ UsesAt(pc'[t]) = UsesAt(pc[t])
          /\ UsesAt(pc[t]) # 0 => sock'[t] = sock[t]
          /\ fd_used' = fd_used
          BY DEF SocketInv, SocketTypeOK, lwip_recv, UsesAt
    <2> QED BY <2>1, SameUses
  <1> QED BY <1>1, <1>2 DEF SocketInv

(* So does the return of netconn_recv with a buffer or an error.            *)
LEMMA lwip_recv_fetched_Inv ==
    ASSUME SocketInv, NEW t \in Task, lwip_recv_fetched(t)
    PROVE  SocketInv'
  <1>1. SocketTypeOK'
    <2>1. pc' \in [Task -> Label]
      <3>1. \E l \in {"copy", "done", "netconn"} : pc' = [pc EXCEPT ![t] = l]
            BY DEF lwip_recv_fetched, KindOf
      <3>2. pc \in [Task -> Label] BY DEF SocketInv, SocketTypeOK
      <3> QED BY <3>1, <3>2 DEF Label
    <2>2. kind' \in [Buf -> {"none", "pbuf", "netbuf"}]
      <3>1. \/ kind' = kind
            \/ \E b \in Buf, k \in {"pbuf", "netbuf"} : kind' = [kind EXCEPT ![b] = k]
            BY DEF lwip_recv_fetched, KindOf
      <3>2. kind \in [Buf -> {"none", "pbuf", "netbuf"}] BY DEF SocketInv, SocketTypeOK
      <3> QED BY <3>1, <3>2
    <2>3. lastdata' \in [Slot -> Buf \cup {NULL}]
          BY DEF SocketInv, SocketTypeOK, lwip_recv_fetched, KindOf
    <2>4. p' \in [Task -> Buf \cup {NULL}]
          BY DEF SocketInv, SocketTypeOK, lwip_recv_fetched, KindOf
    <2>5. on' \in [Task -> Conn \cup {NULL}]
          BY DEF SocketInv, SocketTypeOK, lwip_recv_fetched, KindOf
    <2> QED BY <2>1, <2>2, <2>3, <2>4, <2>5
            DEF SocketInv, SocketTypeOK, lwip_recv_fetched
  <1>2. UsesAreCounted'
    <2>1. /\ \A u \in Task \ {t} : pc'[u] = pc[u] /\ sock'[u] = sock[u]
          /\ UsesAt(pc'[t]) = UsesAt(pc[t])
          /\ UsesAt(pc[t]) # 0 => sock'[t] = sock[t]
          /\ fd_used' = fd_used
          BY DEF SocketInv, SocketTypeOK, lwip_recv_fetched, KindOf, UsesAt
    <2> QED BY <2>1, SameUses
  <1> QED BY <1>1, <1>2 DEF SocketInv

(* So does the copy, whether or not it consumes the buffer.                 *)
LEMMA lwip_recv_copy_Inv ==
    ASSUME SocketInv, NEW t \in Task, lwip_recv_copy(t)
    PROVE  SocketInv'
  <1>1. SocketTypeOK'
    <2>1. pc' \in [Task -> Label]
      <3>1. \E l \in {"done", "netconn", "recv"} : pc' = [pc EXCEPT ![t] = l]
            BY DEF lwip_recv_copy, ClearConsumed
      <3>2. pc \in [Task -> Label] BY DEF SocketInv, SocketTypeOK
      <3> QED BY <3>1, <3>2 DEF Label
    <2>2. kind' \in [Buf -> {"none", "pbuf", "netbuf"}]
          BY DEF SocketInv, SocketTypeOK, lwip_recv_copy, ClearConsumed
    <2>3. lastdata' \in [Slot -> Buf \cup {NULL}]
          BY DEF SocketInv, SocketTypeOK, lwip_recv_copy, ClearConsumed
    <2>4. p' \in [Task -> Buf \cup {NULL}]
          BY DEF SocketInv, SocketTypeOK, lwip_recv_copy, ClearConsumed
    <2> QED BY <2>1, <2>2, <2>3, <2>4 DEF SocketInv, SocketTypeOK, lwip_recv_copy
  <1>2. UsesAreCounted'
    <2>1. /\ \A u \in Task \ {t} : pc'[u] = pc[u] /\ sock'[u] = sock[u]
          /\ UsesAt(pc'[t]) = UsesAt(pc[t])
          /\ UsesAt(pc[t]) # 0 => sock'[t] = sock[t]
          /\ fd_used' = fd_used
          BY DEF SocketInv, SocketTypeOK, lwip_recv_copy, ClearConsumed, UsesAt
    <2> QED BY <2>1, SameUses
  <1> QED BY <1>1, <1>2 DEF SocketInv

(* lwip_close keeps its use until free_socket.                              *)
LEMMA lwip_close_Inv == ASSUME SocketInv, NEW t \in Task, lwip_close(t) PROVE SocketInv'
  <1>1. SocketTypeOK' BY DEF SocketInv, SocketTypeOK, lwip_close, Label, Function
  <1>2. UsesAreCounted'
    <2>1. /\ \A u \in Task \ {t} : pc'[u] = pc[u] /\ sock'[u] = sock[u]
          /\ UsesAt(pc'[t]) = UsesAt(pc[t])
          /\ UsesAt(pc[t]) # 0 => sock'[t] = sock[t]
          /\ fd_used' = fd_used
          BY DEF SocketInv, SocketTypeOK, lwip_close, UsesAt
    <2> QED BY <2>1, SameUses
  <1> QED BY <1>1, <1>2 DEF SocketInv

(* So does the deletion of the connection.                                  *)
LEMMA netconn_delete_Inv ==
    ASSUME SocketInv, NEW t \in Task, netconn_delete(t)
    PROVE  SocketInv'
  <1>1. SocketTypeOK' BY DEF SocketInv, SocketTypeOK, netconn_delete, Label, Function
  <1>2. UsesAreCounted'
    <2>1. /\ \A u \in Task \ {t} : pc'[u] = pc[u] /\ sock'[u] = sock[u]
          /\ UsesAt(pc'[t]) = UsesAt(pc[t])
          /\ UsesAt(pc[t]) # 0 => sock'[t] = sock[t]
          /\ fd_used' = fd_used
          BY DEF SocketInv, SocketTypeOK, netconn_delete, UsesAt
    <2> QED BY <2>1, SameUses
  <1> QED BY <1>1, <1>2 DEF SocketInv

(* A new connection has no slot yet.                                        *)
LEMMA lwip_socket_Inv ==
    ASSUME SocketInv, NEW t \in Task, lwip_socket(t)
    PROVE  SocketInv'
  <1>1. SocketTypeOK' BY DEF SocketInv, SocketTypeOK, lwip_socket, Label, Function
  <1>2. UsesAreCounted'
    <2>1. /\ \A u \in Task \ {t} : pc'[u] = pc[u] /\ sock'[u] = sock[u]
          /\ UsesAt(pc'[t]) = UsesAt(pc[t])
          /\ UsesAt(pc[t]) # 0 => sock'[t] = sock[t]
          /\ fd_used' = fd_used
          BY DEF SocketInv, SocketTypeOK, lwip_socket, UsesAt
    <2> QED BY <2>1, SameUses
  <1> QED BY <1>1, <1>2 DEF SocketInv

(* alloc_socket clears a slot with the use counted before.                  *)
LEMMA alloc_socket_clear_Inv ==
    ASSUME SocketInv, NEW t \in Task, alloc_socket_clear(t)
    PROVE  SocketInv'
  <1>1. SocketTypeOK'
        BY DEF SocketInv, SocketTypeOK, alloc_socket_clear, Label, Function
  <1>2. UsesAreCounted'
    <2>1. /\ \A u \in Task \ {t} : pc'[u] = pc[u] /\ sock'[u] = sock[u]
          /\ UsesAt(pc'[t]) = UsesAt(pc[t])
          /\ UsesAt(pc[t]) # 0 => sock'[t] = sock[t]
          /\ fd_used' = fd_used
          BY DEF SocketInv, SocketTypeOK, alloc_socket_clear, UsesAt
    <2> QED BY <2>1, SameUses
  <1> QED BY <1>1, <1>2 DEF SocketInv

(* With the table full no slot was touched.                                 *)
LEMMA lwip_socket_full_Inv ==
    ASSUME SocketInv, NEW t \in Task, lwip_socket_full(t)
    PROVE  SocketInv'
  <1>1. SocketTypeOK' BY DEF SocketInv, SocketTypeOK, lwip_socket_full, Label, Function
  <1>2. UsesAreCounted'
    <2>1. /\ \A u \in Task \ {t} : pc'[u] = pc[u] /\ sock'[u] = sock[u]
          /\ UsesAt(pc'[t]) = UsesAt(pc[t])
          /\ UsesAt(pc[t]) # 0 => sock'[t] = sock[t]
          /\ fd_used' = fd_used
          BY DEF SocketInv, SocketTypeOK, lwip_socket_full, UsesAt
    <2> QED BY <2>1, SameUses
  <1> QED BY <1>1, <1>2 DEF SocketInv

(* The leftover data is freed after the use was returned.                   *)
LEMMA free_socket_lastdata_Inv ==
    ASSUME SocketInv, NEW t \in Task, free_socket_lastdata(t)
    PROVE  SocketInv'
  <1>1. SocketTypeOK'
    <2>1. pc' \in [Task -> Label]
          BY DEF SocketInv, SocketTypeOK, free_socket_lastdata, Label
    <2>2. kind' \in [Buf -> {"none", "pbuf", "netbuf"}]
          BY DEF SocketInv, SocketTypeOK, free_socket_lastdata
    <2>3. p' \in [Task -> Buf \cup {NULL}]
          BY DEF SocketInv, SocketTypeOK, free_socket_lastdata
    <2>4. fn' \in [Task -> Function \cup {"none"}]
          BY DEF SocketInv, SocketTypeOK, free_socket_lastdata
    <2>5. known' \in SUBSET Slot
          BY DEF SocketInv, SocketTypeOK, free_socket_lastdata
    <2> QED BY SMTT(40), <2>1, <2>2, <2>3, <2>4, <2>5
            DEF SocketInv, SocketTypeOK, free_socket_lastdata
  <1>2. UsesAreCounted'
    <2>1. /\ \A u \in Task \ {t} : pc'[u] = pc[u] /\ sock'[u] = sock[u]
          /\ UsesAt(pc'[t]) = UsesAt(pc[t])
          /\ UsesAt(pc[t]) # 0 => sock'[t] = sock[t]
          /\ fd_used' = fd_used
          BY DEF SocketInv, SocketTypeOK, free_socket_lastdata, UsesAt
    <2> QED BY <2>1, SameUses
  <1> QED BY <1>1, <1>2 DEF SocketInv

(* What the end of a use leaves of the table: the slot keeps its connection *)
(* while it has another user.                                               *)
LEMMA FreeSlotFacts ==
    ASSUME SocketInv, NEW s \in Slot, NEW n \in Nat \ {0}, n = fd_used[s],
           NEW tcp, FreeSlot(s, n, tcp)
    PROVE  /\ fd_used' = [fd_used EXCEPT ![s] = fd_used[s] - 1]
           /\ fd_used' \in [Slot -> Nat]
           /\ conn' \in [Slot -> Conn \cup {NULL}]
           /\ lastdata' \in [Slot -> Buf \cup {NULL}]
           /\ fd_free_pending' \in [Slot -> 0 .. 3]
           /\ \A r \in Slot : r # s \/ n > 1 => conn'[r] = conn[r]
  <1>1. /\ fd_used \in [Slot -> Nat] /\ conn \in [Slot -> Conn \cup {NULL}]
        /\ lastdata \in [Slot -> Buf \cup {NULL}] /\ fd_free_pending \in [Slot -> 0 .. 3]
        BY DEF SocketInv, SocketTypeOK
  <1>2. FreeFlags(tcp) \in 0 .. 3
        BY DEF FreeFlags, LWIP_SOCK_FD_FREE_FREE, LWIP_SOCK_FD_FREE_TCP
  <1>3. n - 1 \in Nat OBVIOUS
  <1> HIDE DEF Slot
  <1>4. CASE n > 1 BY <1>1, <1>2, <1>3, <1>4 DEF FreeSlot
  <1>5. CASE ~(n > 1) BY <1>1, <1>3, <1>5 DEF FreeSlot
  <1> QED BY <1>4, <1>5

(* done_socket takes one use off the count and, as the last one, frees.     *)
LEMMA DoneSlotFacts ==
    ASSUME SocketInv, NEW s \in Slot, fd_used[s] \in Nat \ {0}, DoneSlot(s)
    PROVE  /\ fd_used' = [fd_used EXCEPT ![s] = fd_used[s] - 1]
           /\ fd_used' \in [Slot -> Nat]
           /\ conn' \in [Slot -> Conn \cup {NULL}]
           /\ lastdata' \in [Slot -> Buf \cup {NULL}]
           /\ fd_free_pending' \in [Slot -> 0 .. 3]
           /\ kind' \in [Buf -> {"none", "pbuf", "netbuf"}]
           /\ \A r \in Slot : r # s \/ fd_used[s] > 1 => conn'[r] = conn[r]
  <1>1. /\ fd_used \in [Slot -> Nat] /\ conn \in [Slot -> Conn \cup {NULL}]
        /\ lastdata \in [Slot -> Buf \cup {NULL}] /\ fd_free_pending \in [Slot -> 0 .. 3]
        /\ kind \in [Buf -> {"none", "pbuf", "netbuf"}]
        BY DEF SocketInv, SocketTypeOK
  <1> HIDE DEF Slot
  <1>2. CASE fd_used[s] = 1 /\ fd_free_pending[s] # 0
    <2>1. FreeSlot(s, 1, fd_free_pending[s] % 2 = 1) /\ Release(lastdata[s])
          BY <1>2 DEF DoneSlot
    <2>2. kind' \in [Buf -> {"none", "pbuf", "netbuf"}] BY <1>1, <2>1
    <2> QED BY <1>2, <2>1, <2>2, FreeSlotFacts
  <1>3. CASE ~(fd_used[s] = 1 /\ fd_free_pending[s] # 0)
        BY <1>1, <1>3 DEF DoneSlot
  <1> QED BY <1>2, <1>3

(* done_socket gives back the one use of the call.                          *)
LEMMA done_socket_Inv ==
    ASSUME SocketInv, NEW t \in Task, done_socket(t)
    PROVE  SocketInv'
  <1>1. sock[t] \in Slot /\ UsesAt(pc[t]) = 1
        BY DEF SocketInv, SocketTypeOK, done_socket, UsesAt
  <1>2. fd_used[sock[t]] \in Nat \ {0} BY <1>1, UsedSlots
  <1>3. DoneSlot(sock[t]) BY DEF done_socket
  <1> HIDE DEF Slot
  <1>4. SocketTypeOK'
    <2>1. /\ fd_used' \in [Slot -> Nat] /\ conn' \in [Slot -> Conn \cup {NULL}]
          /\ lastdata' \in [Slot -> Buf \cup {NULL}] /\ fd_free_pending' \in [Slot -> 0 .. 3]
          /\ kind' \in [Buf -> {"none", "pbuf", "netbuf"}]
          BY <1>1, <1>2, <1>3, DoneSlotFacts
    <2>2. pc' \in [Task -> Label] BY DEF SocketInv, SocketTypeOK, done_socket, Label
    <2>3. fn' \in [Task -> Function \cup {"none"}]
          BY DEF SocketInv, SocketTypeOK, done_socket, Function
    <2>4. known' \subseteq Slot BY <1>1 DEF SocketInv, SocketTypeOK, done_socket
    <2>5. 0 \in Slot BY DEF Slot
    <2>6. sock' \in [Task -> Slot] BY <2>5 DEF SocketInv, SocketTypeOK, done_socket
    <2> QED BY <2>1, <2>2, <2>3, <2>4, <2>6 DEF SocketInv, SocketTypeOK, done_socket
  <1>5. UsesAreCounted'
    <2>1. /\ \A u \in Task \ {t} : pc'[u] = pc[u] /\ sock'[u] = sock[u]
          /\ UsesAt(pc[t]) = UsesAt(pc'[t]) + 1 /\ ~(UsesAt(pc'[t]) # 0)
          BY DEF SocketInv, SocketTypeOK, done_socket, UsesAt
    <2>2. fd_used' = [fd_used EXCEPT ![sock[t]] = fd_used[sock[t]] - 1]
          BY <1>1, <1>2, <1>3, DoneSlotFacts
    <2> QED BY <1>1, <2>1, <2>2, OneUseLess
  <1> QED BY <1>4, <1>5 DEF SocketInv

(* lwip_send and lwip_sendto return their use before they call each other.  *)
LEMMA done_socket_other_Inv ==
    ASSUME SocketInv, NEW t \in Task, done_socket_other(t)
    PROVE  SocketInv'
  <1>1. sock[t] \in Slot /\ UsesAt(pc[t]) = 1
        BY DEF SocketInv, SocketTypeOK, done_socket_other, UsesAt
  <1>2. fd_used[sock[t]] \in Nat \ {0} BY <1>1, UsedSlots
  <1>3. DoneSlot(sock[t]) BY DEF done_socket_other
  <1> HIDE DEF Slot
  <1>4. SocketTypeOK'
    <2>1. /\ fd_used' \in [Slot -> Nat] /\ conn' \in [Slot -> Conn \cup {NULL}]
          /\ lastdata' \in [Slot -> Buf \cup {NULL}] /\ fd_free_pending' \in [Slot -> 0 .. 3]
          /\ kind' \in [Buf -> {"none", "pbuf", "netbuf"}]
          BY <1>1, <1>2, <1>3, DoneSlotFacts
    <2>2. pc' \in [Task -> Label]
          BY DEF SocketInv, SocketTypeOK, done_socket_other, Label
    <2>3. fn' \in [Task -> Function \cup {"none"}]
          BY DEF SocketInv, SocketTypeOK, done_socket_other, Function, OtherSend
    <2>4. known' \subseteq Slot BY <1>1 DEF SocketInv, SocketTypeOK, done_socket_other
    <2>5. 0 \in Slot BY DEF Slot
    <2>6. sock' \in [Task -> Slot]
          BY <2>5 DEF SocketInv, SocketTypeOK, done_socket_other
    <2> QED BY <2>1, <2>2, <2>3, <2>4, <2>6
            DEF SocketInv, SocketTypeOK, done_socket_other
  <1>5. UsesAreCounted'
    <2>1. /\ \A u \in Task \ {t} : pc'[u] = pc[u] /\ sock'[u] = sock[u]
          /\ UsesAt(pc[t]) = UsesAt(pc'[t]) + 1 /\ ~(UsesAt(pc'[t]) # 0)
          BY DEF SocketInv, SocketTypeOK, done_socket_other, UsesAt
    <2>2. fd_used' = [fd_used EXCEPT ![sock[t]] = fd_used[sock[t]] - 1]
          BY <1>1, <1>2, <1>3, DoneSlotFacts
    <2> QED BY <1>1, <2>1, <2>2, OneUseLess
  <1> QED BY <1>4, <1>5 DEF SocketInv

(* free_socket gives back the use of lwip_close.                            *)
LEMMA free_socket_Inv ==
    ASSUME SocketInv, NEW t \in Task, free_socket(t)
    PROVE  SocketInv'
  <1>1. sock[t] \in Slot /\ UsesAt(pc[t]) = 1
        BY DEF SocketInv, SocketTypeOK, free_socket, UsesAt
  <1>2. fd_used[sock[t]] \in Nat \ {0} BY <1>1, UsedSlots
  <1>3. FreeSlot(sock[t], fd_used[sock[t]], is_tcp[t]) BY DEF free_socket
  <1> HIDE DEF Slot
  <1>4. SocketTypeOK'
    <2>1. /\ fd_used' \in [Slot -> Nat] /\ conn' \in [Slot -> Conn \cup {NULL}]
          /\ lastdata' \in [Slot -> Buf \cup {NULL}] /\ fd_free_pending' \in [Slot -> 0 .. 3]
          BY <1>1, <1>2, <1>3, FreeSlotFacts
    <2>2. pc' \in [Task -> Label] BY DEF SocketInv, SocketTypeOK, free_socket, Label
    <2>3. p' \in [Task -> Buf \cup {NULL}]
          BY <1>1 DEF SocketInv, SocketTypeOK, free_socket
    <2> QED BY <2>1, <2>2, <2>3 DEF SocketInv, SocketTypeOK, free_socket
  <1>5. UsesAreCounted'
    <2>1. /\ \A u \in Task \ {t} : pc'[u] = pc[u] /\ sock'[u] = sock[u]
          /\ UsesAt(pc[t]) = UsesAt(pc'[t]) + 1 /\ ~(UsesAt(pc'[t]) # 0)
          BY DEF SocketInv, SocketTypeOK, free_socket, UsesAt
    <2>2. fd_used' = [fd_used EXCEPT ![sock[t]] = fd_used[sock[t]] - 1]
          BY <1>1, <1>2, <1>3, FreeSlotFacts
    <2> QED BY <1>1, <2>1, <2>2, OneUseLess
  <1> QED BY <1>4, <1>5 DEF SocketInv

(* A call on a descriptor counts its user.                                  *)
LEMMA Call_Inv ==
    ASSUME SocketInv, NEW t \in Task, NEW f \in Function,
           NEW fd \in 0 .. FILE_DESCRIPTOR_OFFSET, Call(t, f, fd)
    PROVE  SocketInv'
  <1> DEFINE s == SlotOf(fd)
  <1>1. s \in Slot BY DEF SocketInv, SocketTypeOK, Call
  <1>2. /\ pc[t] = "app" /\ pc' = [pc EXCEPT ![t] = "got"]
        /\ sock' = [sock EXCEPT ![t] = s] /\ fn' = [fn EXCEPT ![t] = f]
        /\ fd_used' = [fd_used EXCEPT ![s] = fd_used[s] + 1]
        /\ UNCHANGED <<conn, fd_free_pending, lastdata, known, memberships, open, kind,
                       is_tcp, on, p>>
        BY DEF Call
  <1> HIDE DEF s, Slot
  <1>3. SocketTypeOK' BY <1>1, <1>2 DEF SocketInv, SocketTypeOK, Label
  <1>4. UsesAreCounted'
    <2>1. /\ \A u \in Task \ {t} : pc'[u] = pc[u] /\ sock'[u] = sock[u]
          /\ UsesAt(pc'[t]) = UsesAt(pc[t]) + 1 /\ ~(UsesAt(pc[t]) # 0) /\ sock'[t] = s
          BY <1>2 DEF SocketInv, SocketTypeOK, UsesAt
    <2> QED BY <1>1, <1>2, <2>1, OneMoreUse
  <1> QED BY <1>3, <1>4 DEF SocketInv

(* alloc_socket takes a slot that nobody uses, or goes on to the next one.  *)
LEMMA alloc_socket_Inv ==
    ASSUME SocketInv, NEW t \in Task, alloc_socket(t)
    PROVE  SocketInv'
  <1> DEFINE s == sock[t]
  <1>1. s \in Slot /\ pc[t] = "alloc" /\ UsesAt(pc[t]) = 0
        BY DEF SocketInv, SocketTypeOK, alloc_socket, UsesAt
  <1>2. CASE IsFree(s)
    <2>1. /\ fd_used[s] = 0
          /\ conn' = [conn EXCEPT ![s] = on[t]]
          /\ fd_used' = [fd_used EXCEPT ![s] = 1]
          /\ fd_free_pending' = [fd_free_pending EXCEPT ![s] = 0]
          /\ pc' = [pc EXCEPT ![t] = "clear"]
          /\ UNCHANGED <<sock, on, lastdata, known, memberships, open, kind, fn, is_tcp, p>>
          BY <1>2 DEF alloc_socket, IsFree
    <2> HIDE DEF s, Slot
    <2>2. SocketTypeOK' BY <1>1, <2>1 DEF SocketInv, SocketTypeOK, Label
    <2>3. UsesAreCounted'
      <3>1. /\ \A u \in Task \ {t} : pc'[u] = pc[u] /\ sock'[u] = sock[u]
            /\ UsesAt(pc'[t]) = UsesAt(pc[t]) + 1 /\ ~(UsesAt(pc[t]) # 0) /\ sock'[t] = s
            /\ fd_used' = [fd_used EXCEPT ![s] = fd_used[s] + 1]
            BY <1>1, <2>1 DEF SocketInv, SocketTypeOK, UsesAt, s
      <3> QED BY <1>1, <3>1, OneMoreUse
    <2> QED BY <2>2, <2>3 DEF SocketInv
  <1>3. CASE ~IsFree(s)
    <2>1. /\ \/ /\ s + 1 < NUM_SOCKETS /\ sock' = [sock EXCEPT ![t] = s + 1]
                /\ pc' = [pc EXCEPT ![t] = "alloc"]
             \/ sock' = sock /\ pc' = [pc EXCEPT ![t] = "full"]
          /\ UNCHANGED <<tableVars, on, known, memberships, open, kind, fn, is_tcp, p>>
          BY <1>3 DEF alloc_socket
    <2>2. SocketTypeOK'
      <3>1. sock' \in [Task -> Slot]
        <4>1. sock \in [Task -> Slot] BY DEF SocketInv, SocketTypeOK
        <4>2. CASE s + 1 < NUM_SOCKETS /\ sock' = [sock EXCEPT ![t] = s + 1]
          <5>1. s + 1 \in Slot BY <1>1, <4>2
          <5> HIDE DEF Slot, s
          <5> QED BY <4>1, <4>2, <5>1
        <4> QED BY <2>1, <4>1, <4>2
      <3>2. pc' \in [Task -> Label] BY <2>1 DEF SocketInv, SocketTypeOK, Label
      <3> QED BY <2>1, <3>1, <3>2 DEF SocketInv, SocketTypeOK
    <2>3. UsesAreCounted'
      <3>1. /\ \A u \in Task \ {t} : pc'[u] = pc[u] /\ sock'[u] = sock[u]
            /\ UsesAt(pc'[t]) = 0 /\ fd_used' = fd_used
            BY <2>1 DEF SocketInv, SocketTypeOK, UsesAt
      <3> QED BY <1>1, <3>1, SameUses
    <2> QED BY <2>2, <2>3 DEF SocketInv
  <1> QED BY <1>2, <1>3

(* lwip_close gets the socket once more to drop memberships.                *)
LEMMA drop_Inv ==
    ASSUME SocketInv, NEW t \in Task,
           lwip_socket_drop_registered_memberships(t)
           \/ lwip_socket_drop_registered_mld6_memberships(t)
    PROVE  SocketInv'
  <1> USE DEF lwip_socket_drop_registered_memberships,
              lwip_socket_drop_registered_mld6_memberships
  <1>1. sock[t] \in Slot BY DEF SocketInv, SocketTypeOK
  <1>2. CASE drop_get(t, "get4", "drop4") \/ drop_get(t, "get6", "drop6")
    <2>1. /\ pc[t] \in {"get4", "get6"}
          /\ \E l \in {"drop4", "drop6"} : pc' = [pc EXCEPT ![t] = l]
          /\ fd_used' = [fd_used EXCEPT ![sock[t]] = fd_used[sock[t]] + 1]
          /\ UNCHANGED <<conn, fd_free_pending, lastdata, known, memberships, open, kind,
                         fn, sock, is_tcp, on, p>>
          BY <1>2 DEF drop_get
    <2>2. SocketTypeOK' BY <1>1, <2>1 DEF SocketInv, SocketTypeOK, Label
    <2>3. UsesAreCounted'
      <3>1. /\ \A u \in Task \ {t} : pc'[u] = pc[u] /\ sock'[u] = sock[u]
            /\ UsesAt(pc'[t]) = UsesAt(pc[t]) + 1 /\ sock'[t] = sock[t]
            BY <2>1 DEF SocketInv, SocketTypeOK, UsesAt
      <3> QED BY <1>1, <2>1, <3>1, OneMoreUse
    <2> QED BY <2>2, <2>3 DEF SocketInv
  <1>3. CASE drop_memberships(t, "4", "drop4", "done4")
             \/ drop_memberships(t, "6", "drop6", "done6")
    <2>1. /\ pc[t] \in {"drop4", "drop6"}
          /\ \E l \in {"done4", "done6"} : pc' = [pc EXCEPT ![t] = l]
          /\ memberships' \subseteq memberships
          /\ UNCHANGED <<conn, fd_used, fd_free_pending, lastdata, known, open, kind,
                         fn, sock, is_tcp, on, p>>
          BY <1>3 DEF drop_memberships
    <2>2. SocketTypeOK' BY <2>1 DEF SocketInv, SocketTypeOK, Label
    <2>3. UsesAreCounted'
      <3>1. /\ \A u \in Task \ {t} : pc'[u] = pc[u] /\ sock'[u] = sock[u]
            /\ UsesAt(pc'[t]) = UsesAt(pc[t]) /\ sock'[t] = sock[t]
            BY <2>1 DEF SocketInv, SocketTypeOK, UsesAt
      <3> QED BY <2>1, <3>1, SameUses
    <2> QED BY <2>2, <2>3 DEF SocketInv
  <1>4. CASE drop_done(t, "done4", "get6") \/ drop_done(t, "done6", "delete")
    <2>1. /\ pc[t] \in {"done4", "done6"}
          /\ \E l \in {"get6", "delete"} : pc' = [pc EXCEPT ![t] = l]
          /\ DoneSlot(sock[t])
          /\ UNCHANGED <<known, memberships, open, fn, sock, is_tcp, on, p>>
          BY <1>4 DEF drop_done
    <2>2. UsesAt(pc[t]) = 2 BY <2>1 DEF UsesAt
    <2>3. fd_used[sock[t]] \in Nat \ {0} BY <2>2, UsedSlots
    <2> HIDE DEF Slot
    <2>4. SocketTypeOK'
      <3>1. /\ fd_used' \in [Slot -> Nat] /\ conn' \in [Slot -> Conn \cup {NULL}]
            /\ lastdata' \in [Slot -> Buf \cup {NULL}] /\ fd_free_pending' \in [Slot -> 0 .. 3]
            /\ kind' \in [Buf -> {"none", "pbuf", "netbuf"}]
            BY <1>1, <2>1, <2>3, DoneSlotFacts
      <3>2. pc' \in [Task -> Label] BY <2>1 DEF SocketInv, SocketTypeOK, Label
      <3> QED BY <2>1, <3>1, <3>2 DEF SocketInv, SocketTypeOK
    <2>5. UsesAreCounted'
      <3>1. /\ \A u \in Task \ {t} : pc'[u] = pc[u] /\ sock'[u] = sock[u]
            /\ UsesAt(pc[t]) = UsesAt(pc'[t]) + 1 /\ sock'[t] = sock[t]
            BY <2>1 DEF SocketInv, SocketTypeOK, UsesAt
      <3>2. fd_used' = [fd_used EXCEPT ![sock[t]] = fd_used[sock[t]] - 1]
            BY <1>1, <2>1, <2>3, DoneSlotFacts
      <3> QED BY <1>1, <2>2, <3>1, <3>2, OneUseLess
    <2> QED BY <2>4, <2>5 DEF SocketInv
  <1> QED BY <1>2, <1>3, <1>4
-----------------------------------------------------------------------------
(* An empty table has no uses.                                              *)
LEMMA InitSocketInv == Init => SocketInv
  <1> SUFFICES ASSUME Init PROVE SocketInv
      OBVIOUS
  <1>1. SocketTypeOK BY DEF Init, SocketTypeOK, Label
  <1>2. ASSUME NEW s \in Slot PROVE fd_used[s] = Cardinality(Users(s))
    <2>1. \A t \in Task : UsesAt(pc[t]) = 0 BY DEF Init, UsesAt
    <2>2. Users(s) = {} BY <2>1 DEF Users
    <2> QED BY <2>2, FS_EmptySet DEF Init
  <1> QED BY <1>1, <1>2 DEF SocketInv, UsesAreCounted

(* Every step of every task preserves the invariant.                        *)
LEMMA NextSocketInv == ASSUME SocketInv, [Next]_vars PROVE SocketInv'
  <1>1. ASSUME NEW t \in Task, NEW f \in Function,
               NEW fd \in 0 .. FILE_DESCRIPTOR_OFFSET, Call(t, f, fd)
        PROVE  SocketInv'
        BY <1>1, Call_Inv
  <1>2. ASSUME NEW t \in Task, Get(t) \/ Done(t) PROVE SocketInv'
        BY <1>2, sock_inc_used_Inv, tryget_socket_Inv, done_socket_Inv, done_socket_other_Inv
        DEF Get, Done
  <1>3. ASSUME NEW t \in Task, Netconn(t) \/ Recv(t) PROVE SocketInv'
        BY <1>3, netconn_call_Inv, netconn_return_Inv, lwip_recv_Inv, lwip_recv_fetched_Inv,
           lwip_recv_copy_Inv
        DEF Netconn, Recv
  <1>4. ASSUME NEW t \in Task, Close(t) PROVE SocketInv'
        BY <1>4, drop_Inv, lwip_close_Inv, netconn_delete_Inv, free_socket_Inv,
           free_socket_lastdata_Inv
        DEF Close
  <1>5. ASSUME NEW t \in Task, Socket(t) PROVE SocketInv'
        BY <1>5, lwip_socket_Inv, alloc_socket_Inv, alloc_socket_clear_Inv,
           lwip_socket_full_Inv
        DEF Socket
  <1>6. CASE UNCHANGED vars
        BY <1>6 DEF vars, taskVars, SocketInv, SocketTypeOK, UsesAreCounted, Users
  <1> QED BY <1>1, <1>2, <1>3, <1>4, <1>5, <1>6 DEF Next

(* The counts are exact in every reachable state.                           *)
LEMMA SocketInvHolds == Spec => []SocketInv
  BY InitSocketInv, NextSocketInv, PTL DEF Spec

(* fd_used is exact for any number of tasks and slots, on every path of     *)
(* every function of the socket layer.                                      *)
THEOREM UsesStayCounted == Spec => []UsesAreCounted
  <1>1. SocketInv => UsesAreCounted BY DEF SocketInv
  <1> QED BY <1>1, SocketInvHolds, PTL
-----------------------------------------------------------------------------
(* A step that changes the connection of a slot in use is the end of its    *)
(* last use.                                                                *)
LEMMA KeepsConn ==
    ASSUME SocketInv, Next, NEW u \in Task, UsesAt(pc[u]) # 0, UsesAt(pc'[u]) # 0
    PROVE  conn'[sock[u]] = conn[sock[u]]
  <1>1. sock[u] \in Slot BY DEF SocketInv, SocketTypeOK
  <1>2. ASSUME NEW t \in Task, UsesAt(pc[t]) = 1, UsesAt(pc'[t]) = 0,
               \A r \in Slot : r # sock[t] \/ fd_used[sock[t]] > 1 => conn'[r] = conn[r]
        PROVE  conn'[sock[u]] = conn[sock[u]]
    <2>1. u # t BY <1>2
    <2>2. CASE sock[u] = sock[t]
      <3>1. fd_used[sock[t]] > 1 BY <1>2, <2>1, <2>2, UsedSlots
      <3> QED BY <1>1, <1>2, <3>1
    <2> QED BY <1>1, <1>2, <2>2
  <1>3. ASSUME NEW t \in Task, done_socket(t) \/ done_socket_other(t)
        PROVE  conn'[sock[u]] = conn[sock[u]]
    <2>1. /\ sock[t] \in Slot /\ UsesAt(pc[t]) = 1 /\ UsesAt(pc'[t]) = 0 /\ DoneSlot(sock[t])
          BY <1>3 DEF SocketInv, SocketTypeOK, done_socket, done_socket_other, UsesAt
    <2>2. fd_used[sock[t]] \in Nat \ {0} BY <2>1, UsedSlots
    <2> QED BY <1>2, <2>1, <2>2, DoneSlotFacts
  <1>4. ASSUME NEW t \in Task, free_socket(t)
        PROVE  conn'[sock[u]] = conn[sock[u]]
    <2>1. /\ sock[t] \in Slot /\ UsesAt(pc[t]) = 1 /\ UsesAt(pc'[t]) = 0
          /\ FreeSlot(sock[t], fd_used[sock[t]], is_tcp[t])
          BY <1>4 DEF SocketInv, SocketTypeOK, free_socket, UsesAt
    <2>2. fd_used[sock[t]] \in Nat \ {0} BY <2>1, UsedSlots
    <2> QED BY <1>2, <2>1, <2>2, FreeSlotFacts
  <1>5. ASSUME NEW t \in Task,
               drop_done(t, "done4", "get6") \/ drop_done(t, "done6", "delete")
        PROVE  conn'[sock[u]] = conn[sock[u]]
    <2>1. sock[t] \in Slot /\ UsesAt(pc[t]) = 2 /\ DoneSlot(sock[t])
          BY <1>5 DEF SocketInv, SocketTypeOK, drop_done, UsesAt
    <2>2. fd_used[sock[t]] \in Nat \ {0} /\ fd_used[sock[t]] > 1 BY <2>1, UsedSlots
    <2> QED BY <1>1, <2>1, <2>2, DoneSlotFacts
  <1>6. ASSUME NEW t \in Task, alloc_socket(t)
        PROVE  conn'[sock[u]] = conn[sock[u]]
    <2>1. fd_used[sock[u]] # 0 BY UsedSlots
    <2>2. CASE IsFree(sock[t])
      <3>1. /\ fd_used[sock[t]] = 0 /\ conn' = [conn EXCEPT ![sock[t]] = on[t]]
            /\ conn \in [Slot -> Conn \cup {NULL}]
            BY <1>6, <2>2 DEF alloc_socket, IsFree, SocketInv, SocketTypeOK
      <3> QED BY <1>1, <2>1, <3>1
    <2>3. CASE ~IsFree(sock[t]) BY <1>6, <2>3 DEF alloc_socket
    <2> QED BY <2>2, <2>3
  <1>7. \/ \E t \in Task : done_socket(t) \/ done_socket_other(t)
        \/ \E t \in Task : free_socket(t)
        \/ \E t \in Task : drop_done(t, "done4", "get6") \/ drop_done(t, "done6", "delete")
        \/ \E t \in Task : alloc_socket(t)
        \/ UNCHANGED conn
        BY DEF Next, Call, Get, sock_inc_used, tryget_socket, Done, Netconn, netconn_call,
           netconn_return, Recv, lwip_recv, lwip_recv_fetched, lwip_recv_copy, Close,
           lwip_socket_drop_registered_memberships, drop_get, drop_memberships,
           lwip_socket_drop_registered_mld6_memberships, lwip_close, netconn_delete,
           free_socket_lastdata, Socket, lwip_socket, alloc_socket_clear, lwip_socket_full
  <1> QED BY <1>3, <1>4, <1>5, <1>6, <1>7

(* No slot in use is freed or given to another socket, whatever the tasks   *)
(* that share it do.                                                        *)
THEOREM SlotStaysKeptInCalls == Spec => SlotIsKeptInCalls
  <1> DEFINE Keeps ==
          \A t \in Task :
              pc[t] \in Label \ {"app", "get", "got", "freed", "alloc", "full", "clear"}
              /\ UsesAt(pc'[t]) >= 1
              => conn'[sock[t]] = conn[sock[t]]
  <1>1. SocketInv /\ [Next]_vars => [Keeps]_vars
    <2> SUFFICES ASSUME SocketInv, Next, NEW t \in Task,
                        pc[t] \in Label \ {"app", "get", "got", "freed", "alloc", "full", "clear"},
                        UsesAt(pc'[t]) >= 1
                 PROVE  conn'[sock[t]] = conn[sock[t]]
        OBVIOUS
    <2>1. UsesAt(pc[t]) # 0 /\ UsesAt(pc'[t]) # 0 BY UsesType DEF UsesAt
    <2> QED BY <2>1, KeepsConn
  <1> QED BY <1>1, SocketInvHolds, PTL DEF Spec, SlotIsKeptInCalls
-----------------------------------------------------------------------------
HIDE DEF Slot

(* What opt.h allows of LWIP_NETCONN_FULLDUPLEX: "reading from one thread,  *)
(* writing from a 2nd thread and closing from a 3rd thread".  One task      *)
(* reads, and one opens, closes and joins groups; any number write.         *)
Manage == {"socket", "setsockopt", "close"}

RolesAreApart ==
    /\ \A t, u \in Task : "recv" \in Program[t] /\ "recv" \in Program[u] => t = u
    /\ \A t, u \in Task : \A f, g \in Manage : f \in Program[t] /\ g \in Program[u] => t = u

(* Which function a task is in, by where it stands, and when p is set.      *)
FnAt(l) ==
    IF l = "app" THEN {"none"}
    ELSE IF l \in {"get", "other"} THEN {"send", "sendto"}
    ELSE IF l \in {"got", "done"} THEN Function
    ELSE IF l \in {"netconn", "wait"} THEN {"send", "sendto", "setsockopt", "recv"}
    ELSE IF l \in {"recv", "fetch", "copy"} THEN {"recv"}
    ELSE IF l \in {"alloc", "clear", "full"} THEN {"socket"}
    ELSE {"close"}

CallFits(t) ==
    /\ fn[t] \in FnAt(pc[t])
    /\ pc[t] = "got" => fn[t] # "socket"
    /\ fn[t] \in {"recv"} \cup Manage => fn[t] \in Program[t]
    /\ p[t] # NULL => pc[t] \in {"wait", "copy", "freed"}
    /\ pc[t] = "alloc" => on[t] # NULL

CallsFit == \A t \in Task : CallFits(t)

Step(t) ==
    \/ \E f \in Function, fd \in 0 .. FILE_DESCRIPTOR_OFFSET : Call(t, f, fd)
    \/ Get(t) \/ Done(t) \/ Netconn(t) \/ Recv(t) \/ Close(t) \/ Socket(t)

(* A task changes only its own local variables.                             *)
OthersStay(t) ==
    \A u \in Task \ {t} :
        /\ pc'[u] = pc[u] /\ fn'[u] = fn[u] /\ sock'[u] = sock[u]
        /\ is_tcp'[u] = is_tcp[u] /\ on'[u] = on[u] /\ p'[u] = p[u]

(* A step of a task leaves the local variables of the others alone.         *)
LEMMA OnlyOwnLocals == ASSUME SocketInv, NEW t \in Task, Step(t) PROVE OthersStay(t)
  <1> USE DEF OthersStay, SocketInv, SocketTypeOK
  <1>1. ASSUME NEW f, NEW fd, Call(t, f, fd) PROVE OthersStay(t) BY <1>1 DEF Call
  <1>2. CASE Get(t) BY <1>2 DEF Get, sock_inc_used, tryget_socket
  <1>3. CASE Done(t) BY <1>3 DEF Done, done_socket, done_socket_other
  <1>4. CASE Netconn(t) BY <1>4 DEF Netconn, netconn_call, netconn_return
  <1>5. CASE Recv(t)
        BY <1>5 DEF Recv, lwip_recv, lwip_recv_fetched, lwip_recv_copy
  <1>6. CASE Close(t)
        BY <1>6 DEF Close, lwip_socket_drop_registered_memberships, drop_get, drop_memberships,
           drop_done, lwip_socket_drop_registered_mld6_memberships, lwip_close, netconn_delete,
           free_socket, free_socket_lastdata
  <1>7. CASE Socket(t)
        BY <1>7 DEF Socket, lwip_socket, alloc_socket, alloc_socket_clear, lwip_socket_full
  <1> QED BY <1>1, <1>2, <1>3, <1>4, <1>5, <1>6, <1>7 DEF Step

(* Every step leaves the tasks in functions that fit where they stand.      *)
LEMMA CallsStep ==
    ASSUME SocketInv, CallsFit, NEW t \in Task, Step(t)
    PROVE  CallsFit'
  <1>1. OthersStay(t) BY OnlyOwnLocals
  <1>2. ASSUME NEW u \in Task \ {t} PROVE CallFits(u)' BY <1>1 DEF OthersStay, CallsFit, CallFits
  <1>3. CallFits(t) /\ fn[t] \in Function \cup {"none"} /\ pc[t] \in Label
        BY DEF CallsFit, SocketInv, SocketTypeOK
  <1>4. CallFits(t)'
    <2> USE DEF CallFits, SocketInv, SocketTypeOK
    <2>1. ASSUME NEW f \in Function, NEW fd, Call(t, f, fd) PROVE CallFits(t)'
          BY <1>3, <2>1 DEF Call, FnAt
    <2>2. CASE Get(t)
          BY <1>3, <2>2 DEF Get, sock_inc_used, tryget_socket, AfterGet, FnAt, Function
    <2>3. CASE Done(t)
          BY <1>3, <2>3 DEF Done, done_socket, done_socket_other, OtherSend, FnAt, Manage
    <2>4. CASE Netconn(t)
          BY <1>3, <2>4 DEF Netconn, netconn_call, netconn_return, FnAt, Function
    <2>5. CASE Recv(t)
          BY <1>3, <2>5 DEF Recv, lwip_recv, lwip_recv_fetched, lwip_recv_copy, FnAt, Function
    <2>6. CASE Close(t)
          BY <1>3, <2>6 DEF Close, lwip_socket_drop_registered_memberships, drop_get,
             drop_memberships, drop_done, lwip_socket_drop_registered_mld6_memberships,
             lwip_close, netconn_delete, free_socket, free_socket_lastdata, FnAt, Function, Manage
    <2>7. CASE Socket(t)
          BY <1>3, <2>7 DEF Socket, lwip_socket, alloc_socket, alloc_socket_clear,
             lwip_socket_full, FnAt, Function, Manage
    <2> QED BY <2>1, <2>2, <2>3, <2>4, <2>5, <2>6, <2>7 DEF Step
  <1> QED BY <1>2, <1>4 DEF CallsFit

(* What a step does to the connection of a slot and to the note that it is  *)
(* to be freed.                                                             *)
SlotStays(r) == conn'[r] = conn[r] /\ fd_free_pending'[r] = fd_free_pending[r]
LastUserFrees(t, r) ==
    /\ pc[t] \in {"done", "other"} /\ fd_used[r] = 1 /\ fd_free_pending[r] # 0
    /\ conn'[r] = NULL /\ fd_free_pending'[r] = fd_free_pending[r]
CloserFrees(t, r) ==
    /\ pc[t] = "free" /\ pc'[t] = "freed" /\ sock'[t] = r
    /\ \/ conn'[r] = conn[r] /\ fd_free_pending'[r] = FreeFlags(is_tcp[t]) /\ fd_used[r] > 1
       \/ conn'[r] = NULL /\ fd_free_pending'[r] = fd_free_pending[r] /\ ~(fd_used[r] > 1)
TaskAllocs(t, r) ==
    /\ pc[t] = "alloc" /\ pc'[t] = "clear" /\ sock'[t] = r /\ IsFree(r)
    /\ conn'[r] = on[t] /\ fd_free_pending'[r] = 0

(* The four things a step can do to a slot.                                 *)
LEMMA SlotEffect ==
    ASSUME SocketInv, NEW t \in Task, Step(t), NEW r \in Slot
    PROVE  \/ SlotStays(r)
           \/ /\ r = sock[t]
              /\ LastUserFrees(t, r) \/ CloserFrees(t, r) \/ TaskAllocs(t, r)
  <1> USE DEF SlotStays
  <1>1. /\ sock[t] \in Slot /\ conn \in [Slot -> Conn \cup {NULL}]
        /\ fd_free_pending \in [Slot -> 0 .. 3] /\ pc \in [Task -> Label] /\ sock \in [Task -> Slot]
        BY DEF SocketInv, SocketTypeOK
  <1>2. ASSUME DoneSlot(sock[t]), pc[t] \in {"done", "other"}
        PROVE  SlotStays(r) \/ (r = sock[t] /\ LastUserFrees(t, r))
        BY <1>1, <1>2 DEF DoneSlot, FreeSlot, LastUserFrees
  <1>3. CASE free_socket(t)
        BY <1>1, <1>3 DEF free_socket, FreeSlot, CloserFrees
  <1>4. CASE alloc_socket(t)
        BY <1>1, <1>4 DEF alloc_socket, TaskAllocs
  <1>5. CASE drop_done(t, "done4", "get6") \/ drop_done(t, "done6", "delete")
    <2>1. DoneSlot(sock[t]) /\ UsesAt(pc[t]) = 2 BY <1>5 DEF drop_done, UsesAt
    <2>2. fd_used[sock[t]] # 1 BY <2>1, UsedSlots
    <2> QED BY <2>1, <2>2 DEF DoneSlot
  <1>6. CASE Done(t) BY <1>2, <1>6 DEF Done, done_socket, done_socket_other
  <1>7. CASE UNCHANGED <<conn, fd_free_pending>> BY <1>7
  <1>8. \/ free_socket(t) \/ alloc_socket(t) \/ Done(t)
        \/ drop_done(t, "done4", "get6") \/ drop_done(t, "done6", "delete")
        \/ UNCHANGED <<conn, fd_free_pending>>
        BY DEF Step, Call, Get, sock_inc_used, tryget_socket, Netconn, netconn_call,
           netconn_return, Recv, lwip_recv, lwip_recv_fetched, lwip_recv_copy, Close,
           lwip_socket_drop_registered_memberships, drop_get, drop_memberships,
           lwip_socket_drop_registered_mld6_memberships, lwip_close, netconn_delete,
           free_socket_lastdata, Socket, lwip_socket, alloc_socket_clear, lwip_socket_full
  <1> QED BY <1>3, <1>4, <1>5, <1>6, <1>7, <1>8

(* A task in a call has the connection it found, and its type.              *)
Connected ==
    {"other", "netconn", "wait", "recv", "fetch", "copy", "get4", "drop4", "done4",
     "get6", "drop6", "done6", "delete", "deleting", "free"}

ConnsFit ==
    \A t \in Task : pc[t] \in Connected =>
        conn[sock[t]] # NULL /\ (is_tcp[t] <=> conn[sock[t]] \in TcpConn)

(* No step takes the connection from under a call that has found it.        *)
LEMMA ConnsStep ==
    ASSUME SocketInv, ConnsFit, NEW t \in Task, Step(t)
    PROVE  ConnsFit'
  <1> SUFFICES ASSUME NEW u \in Task, pc'[u] \in Connected
               PROVE  conn'[sock'[u]] # NULL /\ (is_tcp'[u] <=> conn'[sock'[u]] \in TcpConn)
        BY DEF ConnsFit
  <1>1. OthersStay(t) /\ Next BY OnlyOwnLocals DEF Next, Step
  <1>2. ASSUME pc[u] \in Connected, sock'[u] = sock[u], is_tcp'[u] = is_tcp[u]
        PROVE  conn'[sock'[u]] # NULL /\ (is_tcp'[u] <=> conn'[sock'[u]] \in TcpConn)
    <2>1. UsesAt(pc[u]) # 0 /\ UsesAt(pc'[u]) # 0 BY <1>2 DEF UsesAt, Connected
    <2>2. conn'[sock[u]] = conn[sock[u]] BY <1>1, <2>1, KeepsConn
    <2> QED BY <1>2, <2>2 DEF ConnsFit
  <1>3. CASE u # t BY <1>1, <1>2, <1>3 DEF OthersStay
  <1>4. CASE u = t /\ tryget_socket(t)
    <2>1. /\ pc' = [pc EXCEPT ![t] = IF conn[sock[t]] = NULL THEN "done" ELSE AfterGet(fn[t], conn[sock[t]] \in TcpConn)]
          /\ is_tcp' = [is_tcp EXCEPT ![t] = conn[sock[t]] \in TcpConn]
          /\ conn' = conn /\ sock' = sock
          BY <1>4 DEF tryget_socket
    <2>2. pc \in [Task -> Label] /\ is_tcp \in [Task -> BOOLEAN] BY DEF SocketInv, SocketTypeOK
    <2>3. is_tcp'[t] = (conn[sock[t]] \in TcpConn) BY <2>1, <2>2, Zenon
    <2>4. conn[sock[t]] # NULL
      <3> SUFFICES ASSUME conn[sock[t]] = NULL PROVE FALSE OBVIOUS
      <3>1. pc'[t] = "done" BY <2>1, <2>2
      <3> QED BY <1>4, <3>1 DEF Connected
    <2> QED BY <1>4, <2>1, <2>3, <2>4
  <1>5. CASE u = t /\ ~tryget_socket(t)
    <2>1. pc[t] \in Connected /\ sock'[t] = sock[t] /\ is_tcp'[t] = is_tcp[t]
      <3> USE DEF SocketInv, SocketTypeOK, Connected
      <3>1. ASSUME NEW f, NEW fd, Call(t, f, fd) PROVE FALSE BY <1>5, <3>1 DEF Call
      <3>2. CASE Get(t) BY <1>5, <3>2 DEF Get, sock_inc_used
      <3>3. CASE Done(t) BY <1>5, <3>3 DEF Done, done_socket, done_socket_other
      <3>4. CASE Netconn(t) BY <1>5, <3>4 DEF Netconn, netconn_call, netconn_return
      <3>5. CASE Recv(t)
            BY <1>5, <3>5 DEF Recv, lwip_recv, lwip_recv_fetched, lwip_recv_copy
      <3>6. CASE Close(t)
            BY <1>5, <3>6 DEF Close, lwip_socket_drop_registered_memberships, drop_get,
               drop_memberships, drop_done, lwip_socket_drop_registered_mld6_memberships,
               lwip_close, netconn_delete, free_socket, free_socket_lastdata
      <3>7. CASE Socket(t)
            BY <1>5, <3>7 DEF Socket, lwip_socket, alloc_socket, alloc_socket_clear, lwip_socket_full
      <3> QED BY <3>1, <3>2, <3>3, <3>4, <3>5, <3>6, <3>7 DEF Step
    <2> QED BY <1>2, <1>5, <2>1
  <1> QED BY <1>3, <1>4, <1>5

(* The note on a slot says of which type its connection is.                 *)
PendingFits ==
    \A s \in Slot : fd_free_pending[s] # 0 /\ conn[s] # NULL =>
        (fd_free_pending[s] % 2 = 1 <=> conn[s] \in TcpConn)

(* The note is made with the type of the connection it is about.            *)
LEMMA PendingStep ==
    ASSUME SocketInv, ConnsFit, PendingFits, NEW t \in Task, Step(t)
    PROVE  PendingFits'
  <1> SUFFICES ASSUME NEW r \in Slot, fd_free_pending'[r] # 0, conn'[r] # NULL
               PROVE  fd_free_pending'[r] % 2 = 1 <=> conn'[r] \in TcpConn
        BY DEF PendingFits
  <1>1. CASE SlotStays(r) BY <1>1 DEF SlotStays, PendingFits
  <1>2. CASE r = sock[t] /\ CloserFrees(t, r)
    <2>1. /\ conn'[r] = conn[r] /\ fd_free_pending'[r] = FreeFlags(is_tcp[t]) /\ pc[t] = "free"
          BY <1>2 DEF CloserFrees
    <2>2. is_tcp[t] <=> conn[r] \in TcpConn BY <1>2, <2>1 DEF ConnsFit, Connected
    <2>3. FreeFlags(is_tcp[t]) % 2 = 1 <=> is_tcp[t]
          BY DEF FreeFlags, LWIP_SOCK_FD_FREE_FREE, LWIP_SOCK_FD_FREE_TCP
    <2> QED BY <2>1, <2>2, <2>3
  <1>3. CASE LastUserFrees(t, r) \/ TaskAllocs(t, r) BY <1>3 DEF LastUserFrees, TaskAllocs
  <1> QED BY <1>1, <1>2, <1>3, SlotEffect

(* The known descriptors are those of open sockets, but for the one that is *)
(* being closed; a new socket is nobody's but its opener's and of writers   *)
(* that still use its number; and no group is joined while it is closed.    *)
IsNew(t) == pc[t] = "clear" \/ (pc[t] = "done" /\ fn[t] = "socket")

KnownFits ==
    \A s \in known :
        \/ conn[s] # NULL /\ fd_free_pending[s] = 0
        \/ \E t \in Task : pc[t] = "freed" /\ sock[t] = s

NewFits(t) ==
    IsNew(t) =>
        /\ conn[sock[t]] # NULL /\ fd_free_pending[sock[t]] = 0 /\ sock[t] \notin known
        /\ lastdata[sock[t]] = NULL
        /\ \A u \in Task : fn[u] = "recv" /\ sock[u] = sock[t] => UsesAt(pc[u]) = 0

JoinFits(t) ==
    fn[t] = "setsockopt" /\ pc[t] \in {"got", "netconn", "wait"} => fd_free_pending[sock[t]] = 0

TableFits == KnownFits /\ \A t \in Task : NewFits(t) /\ JoinFits(t)

(* Which action a task takes from where it stands, as far as it matters.    *)
LEMMA WhichAction ==
    ASSUME NEW t \in Task, Step(t)
    PROVE  /\ pc[t] = "done" => done_socket(t)
           /\ pc[t] = "other" => done_socket_other(t)
           /\ pc[t] = "netconn" => netconn_call(t)
           /\ pc[t] = "wait" => netconn_return(t)
           /\ pc[t] = "recv" => lwip_recv(t)
           /\ pc[t] = "fetch" => lwip_recv_fetched(t)
           /\ pc[t] = "copy" => lwip_recv_copy(t)
           /\ pc[t] = "drop4" => drop_memberships(t, "4", "drop4", "done4")
           /\ pc[t] = "drop6" => drop_memberships(t, "6", "drop6", "done6")
           /\ pc[t] = "free" => free_socket(t)
           /\ pc[t] = "freed" => free_socket_lastdata(t)
           /\ pc[t] = "alloc" => alloc_socket(t)
           /\ pc[t] = "clear" => alloc_socket_clear(t)
  BY DEF Step, Call, Get, sock_inc_used, tryget_socket, Done, done_socket, done_socket_other,
     Netconn, netconn_call, netconn_return, Recv, lwip_recv, lwip_recv_fetched, lwip_recv_copy,
     Close, lwip_socket_drop_registered_memberships, drop_get, drop_memberships, drop_done,
     lwip_socket_drop_registered_mld6_memberships, lwip_close, netconn_delete, free_socket,
     free_socket_lastdata, Socket, lwip_socket, alloc_socket, alloc_socket_clear, lwip_socket_full

(* A descriptor is made known by the task that opened the socket, and       *)
(* forgotten by the one that closed it.                                     *)
LEMMA KnownEffect ==
    ASSUME NEW t \in Task, Step(t)
    PROVE  \/ known' = known /\ pc[t] # "freed"
           \/ pc[t] = "freed" /\ known' = known \ {sock[t]}
           \/ pc[t] = "done" /\ fn[t] = "socket" /\ known' = known \cup {sock[t]}
  BY DEF Step, Call, Get, sock_inc_used, tryget_socket, Done, done_socket, done_socket_other,
     Netconn, netconn_call, netconn_return, Recv, lwip_recv, lwip_recv_fetched, lwip_recv_copy,
     Close, lwip_socket_drop_registered_memberships, drop_get, drop_memberships, drop_done,
     lwip_socket_drop_registered_mld6_memberships, lwip_close, netconn_delete, free_socket,
     free_socket_lastdata, Socket, lwip_socket, alloc_socket, alloc_socket_clear, lwip_socket_full

(* A known descriptor stays that of an open socket until its close returns. *)
LEMMA KnownStep ==
    ASSUME SocketInv, CallsFit, TableFits, NEW t \in Task, Step(t)
    PROVE  KnownFits'
  <1> SUFFICES ASSUME NEW s \in known'
               PROVE  \/ conn'[s] # NULL /\ fd_free_pending'[s] = 0
                      \/ \E u \in Task : pc'[u] = "freed" /\ sock'[u] = s
        BY DEF KnownFits
  <1>1. OthersStay(t) BY OnlyOwnLocals
  <1>2. s \in Slot
    <2>1. SocketInv' BY NextSocketInv DEF Next, Step
    <2> QED BY <2>1 DEF SocketInv, SocketTypeOK
  <1>3. \/ SlotStays(s)
        \/ s = sock[t] /\ (LastUserFrees(t, s) \/ CloserFrees(t, s) \/ TaskAllocs(t, s))
        BY <1>2, SlotEffect
  <1>4. CASE s \in known /\ ~(pc[t] = "freed" /\ sock[t] = s)
    <2>1. ASSUME NEW u \in Task, pc[u] = "freed", sock[u] = s
          PROVE  \E v \in Task : pc'[v] = "freed" /\ sock'[v] = s
          BY <1>1, <1>4, <2>1 DEF OthersStay
    <2>2. \/ conn[s] # NULL /\ fd_free_pending[s] = 0
          \/ \E u \in Task : pc[u] = "freed" /\ sock[u] = s
          BY <1>4 DEF TableFits, KnownFits
    <2> QED BY <1>3, <2>1, <2>2
            DEF SlotStays, LastUserFrees, CloserFrees, TaskAllocs, IsFree
  <1>5. CASE s \in known /\ pc[t] = "freed" /\ sock[t] = s BY <1>5, KnownEffect
  <1>6. CASE s \notin known
    <2>1. pc[t] = "done" /\ fn[t] = "socket" /\ s = sock[t] BY <1>6, KnownEffect
    <2>2. conn[s] # NULL /\ fd_free_pending[s] = 0 BY <2>1 DEF TableFits, NewFits, IsNew
    <2> QED BY <1>3, <2>1, <2>2 DEF SlotStays, LastUserFrees, CloserFrees, TaskAllocs
  <1> QED BY <1>4, <1>5, <1>6

(* Only a receive puts data into a slot.                                    *)
LEMMA DataEffect ==
    ASSUME SocketInv, NEW t \in Task, Step(t), NEW r \in Slot
    PROVE  lastdata'[r] \in {lastdata[r], NULL} \/ (pc[t] = "fetch" /\ r = sock[t])
  <1>1. lastdata \in [Slot -> Buf \cup {NULL}] /\ sock[t] \in Slot BY DEF SocketInv, SocketTypeOK
  <1>2. CASE Done(t)
        BY <1>1, <1>2 DEF Done, done_socket, done_socket_other, DoneSlot, FreeSlot
  <1>3. CASE Recv(t)
        BY <1>1, <1>3
        DEF Recv, lwip_recv, lwip_recv_fetched, lwip_recv_copy, ClearConsumed
  <1>4. CASE Close(t)
        BY <1>1, <1>4
        DEF Close, lwip_socket_drop_registered_memberships, drop_get, drop_memberships,
            drop_done, lwip_socket_drop_registered_mld6_memberships, lwip_close,
            netconn_delete, free_socket, free_socket_lastdata, DoneSlot, FreeSlot
  <1>5. CASE Socket(t)
        BY <1>1, <1>5 DEF Socket, lwip_socket, alloc_socket, alloc_socket_clear, lwip_socket_full
  <1>6. CASE ~(Done(t) \/ Recv(t) \/ Close(t) \/ Socket(t))
        BY <1>1, <1>6 DEF Step, Call, Get, sock_inc_used, tryget_socket, Netconn, netconn_call,
           netconn_return
  <1> QED BY <1>2, <1>3, <1>4, <1>5, <1>6

(* How a task comes to read from a slot, and to join a group with one.      *)
LEMMA EntersCall ==
    ASSUME SocketInv, CallsFit, NEW t \in Task, Step(t)
    PROVE  /\ fn'[t] = "recv" /\ UsesAt(pc'[t]) # 0 =>
                  \/ pc[t] = "app" /\ sock'[t] \in known
                  \/ fn[t] = "recv" /\ sock'[t] = sock[t] /\ UsesAt(pc[t]) # 0
           /\ fn'[t] = "setsockopt" /\ pc'[t] \in {"got", "netconn", "wait"} =>
                  \/ pc[t] = "app" /\ sock'[t] \in known /\ "setsockopt" \in Program[t]
                  \/ fn[t] = "setsockopt" /\ sock'[t] = sock[t] /\ pc[t] \in {"got", "netconn"}
           /\ IsNew(t)' =>
                  \/ pc[t] = "alloc" /\ pc'[t] = "clear" /\ sock'[t] = sock[t] /\ IsFree(sock[t])
                  \/ pc[t] = "clear" /\ sock'[t] = sock[t] /\ UsesAt(pc'[t]) # 0
  <1> USE DEF SocketInv, SocketTypeOK, IsNew
  <1>0. /\ fn[t] \in FnAt(pc[t]) /\ (pc[t] = "got" => fn[t] # "socket")
        /\ pc[t] \in Label /\ fn[t] \in Function \cup {"none"}
        BY DEF CallsFit, CallFits
  <1>1. ASSUME NEW f \in Function, NEW fd, Call(t, f, fd)
        PROVE  pc[t] = "app" /\ sock'[t] \in known /\ fn'[t] \in Program[t] \ {"socket"}
               /\ pc'[t] = "got"
    <2>1. /\ pc[t] = "app" /\ SlotOf(fd) \in known /\ sock' = [sock EXCEPT ![t] = SlotOf(fd)]
          /\ fn' = [fn EXCEPT ![t] = f] /\ f \in Program[t] \ {"socket"} /\ pc' = [pc EXCEPT ![t] = "got"]
          BY <1>1 DEF Call
    <2> QED BY <2>1
  <1>2. CASE \E f \in Function, fd \in 0 .. FILE_DESCRIPTOR_OFFSET : Call(t, f, fd)
        BY <1>1, <1>2
  <1>3. CASE Get(t) BY <1>0, <1>3 DEF FnAt, Get, sock_inc_used, tryget_socket, AfterGet, UsesAt
  <1>4. CASE Done(t) BY <1>0, <1>4 DEF FnAt, Done, done_socket, done_socket_other, OtherSend, UsesAt
  <1>5. CASE Netconn(t) BY <1>0, <1>5 DEF FnAt, Netconn, netconn_call, netconn_return, UsesAt
  <1>6. CASE Recv(t) BY <1>0, <1>6 DEF FnAt, Recv, lwip_recv, lwip_recv_fetched, lwip_recv_copy, UsesAt
  <1>7. CASE Close(t)
        BY <1>0, <1>7 DEF FnAt, Close, lwip_socket_drop_registered_memberships, drop_get,
           drop_memberships, drop_done, lwip_socket_drop_registered_mld6_memberships,
           lwip_close, netconn_delete, free_socket, free_socket_lastdata, UsesAt
  <1>8. CASE Socket(t)
        BY <1>0, <1>8 DEF FnAt, Socket, lwip_socket, alloc_socket, alloc_socket_clear, lwip_socket_full, UsesAt
  <1> QED BY <1>2, <1>3, <1>4, <1>5, <1>6, <1>7, <1>8 DEF Step

(* A socket stays its opener's until its descriptor is known.               *)
LEMMA NewStep ==
    ASSUME SocketInv, CallsFit, TableFits, RolesAreApart, NEW t \in Task, Step(t),
           \A s \in Slot : lastdata[s] # NULL => conn[s] # NULL,
           NEW u \in Task
    PROVE  NewFits(u)'
  <1> SUFFICES ASSUME IsNew(u)'
               PROVE  /\ conn'[sock'[u]] # NULL /\ fd_free_pending'[sock'[u]] = 0
                      /\ sock'[u] \notin known' /\ lastdata'[sock'[u]] = NULL
                      /\ \A v \in Task : fn'[v] = "recv" /\ sock'[v] = sock'[u] => UsesAt(pc'[v]) = 0
        BY DEF NewFits
  <1>1. OthersStay(t) /\ Next BY OnlyOwnLocals DEF Next, Step
  <1>2. /\ \A v \in Task : sock[v] \in Slot /\ CallFits(v)
        BY DEF SocketInv, SocketTypeOK, CallsFit
  <1>3. \A v, w \in Task : fn[v] \in Manage /\ fn[w] \in Manage => v = w
        BY <1>2 DEF CallFits, RolesAreApart
  <1>4. \A v \in Task : /\ pc[v] \in {"alloc", "clear", "full"} => fn[v] = "socket"
                        /\ pc[v] \in {"free", "freed"} => fn[v] = "close"
                        /\ pc[v] = "fetch" => fn[v] = "recv"
                        /\ pc[v] = "app" => fn[v] = "none"
        BY <1>2 DEF CallFits, FnAt
  <1>5. CASE IsNew(u) /\ sock'[u] = sock[u] /\ UsesAt(pc'[u]) # 0
    <2> DEFINE s == sock[u]
    <2>1. /\ conn[s] # NULL /\ fd_free_pending[s] = 0 /\ s \notin known /\ lastdata[s] = NULL
          /\ \A v \in Task : fn[v] = "recv" /\ sock[v] = s => UsesAt(pc[v]) = 0
          BY <1>5 DEF TableFits, NewFits
    <2>2. UsesAt(pc[u]) # 0 /\ fn[u] = "socket" BY <1>4, <1>5 DEF IsNew, UsesAt
    <2>3. conn'[s] = conn[s] BY <1>1, <1>5, <2>2, KeepsConn
    <2>4. fd_free_pending'[s] = 0
      <3>1. CASE SlotStays(s) BY <2>1, <3>1 DEF SlotStays
      <3>2. CASE LastUserFrees(t, s) \/ TaskAllocs(t, s)
            BY <2>1, <3>2 DEF LastUserFrees, TaskAllocs
      <3>3. CASE CloserFrees(t, s)
        <4>1. pc[t] = "free" BY <3>3 DEF CloserFrees
        <4>2. fn[t] = "close" /\ fn[u] = "socket" /\ t # u
              BY <1>4, <2>2, <4>1
        <4> QED BY <1>3, <4>2 DEF Manage
      <3> QED BY <1>2, <3>1, <3>2, <3>3, SlotEffect
    <2>5. s \notin known'
      <3>1. CASE pc[t] = "done" /\ fn[t] = "socket"
        <4>1. t = u BY <1>3, <2>2, <3>1 DEF Manage
        <4>2. done_socket(t) BY <3>1, WhichAction
        <4>3. pc'[t] = "app" BY <4>2 DEF done_socket, SocketInv, SocketTypeOK
        <4> QED BY <1>5, <4>1, <4>3 DEF UsesAt
      <3>2. CASE ~(pc[t] = "done" /\ fn[t] = "socket") BY <2>1, <3>2, KnownEffect
      <3> QED BY <3>1, <3>2
    <2>6. lastdata'[s] = NULL
      <3>1. ASSUME pc[t] = "fetch", s = sock[t] PROVE FALSE
        <4>1. fn[t] = "recv" /\ UsesAt(pc[t]) # 0 BY <1>4, <3>1 DEF UsesAt
        <4> QED BY <2>1, <3>1, <4>1
      <3> QED BY <1>2, <2>1, <3>1, DataEffect
    <2>7. ASSUME NEW v \in Task, fn'[v] = "recv", sock'[v] = s PROVE UsesAt(pc'[v]) = 0
      <3>1. CASE v # t BY <1>1, <2>1, <2>7, <3>1 DEF OthersStay
      <3>2. CASE v = t
        <4> SUFFICES ASSUME UsesAt(pc'[t]) # 0 PROVE FALSE BY <3>2
        <4>1. \/ sock'[t] \in known
              \/ fn[t] = "recv" /\ sock'[t] = sock[t] /\ UsesAt(pc[t]) # 0
              BY <2>7, <3>2, EntersCall
        <4> QED BY <2>1, <2>7, <3>2, <4>1
      <3> QED BY <3>1, <3>2
    <2> QED BY <1>5, <2>1, <2>3, <2>4, <2>5, <2>6, <2>7
  <1>6. CASE /\ u = t /\ pc[t] = "alloc" /\ pc'[t] = "clear" /\ sock'[t] = sock[t]
             /\ IsFree(sock[t])
    <2> DEFINE s == sock[t]
    <2>1. alloc_socket(t) BY <1>6, WhichAction
    <2>2. /\ conn' = [conn EXCEPT ![s] = on[t]] /\ fd_free_pending' = [fd_free_pending EXCEPT ![s] = 0]
          /\ known' = known /\ lastdata' = lastdata
          BY <1>6, <2>1 DEF alloc_socket
    <2>3. conn'[s] # NULL /\ fd_free_pending'[s] = 0
          BY <1>2, <1>6, <2>2 DEF CallFits, SocketInv, SocketTypeOK
    <2>4. lastdata[s] = NULL BY <1>2, <1>6 DEF IsFree
    <2>5. s \notin known
      <3> SUFFICES ASSUME s \in known PROVE FALSE OBVIOUS
      <3>1. PICK v \in Task : pc[v] = "freed" /\ sock[v] = s
            BY <1>6 DEF TableFits, KnownFits, IsFree
      <3>2. fn[v] = "close" /\ fn[t] = "socket" BY <1>4, <1>6, <3>1
      <3>3. v = t BY <1>3, <3>2 DEF Manage
      <3> QED BY <3>2, <3>3
    <2>6. ASSUME NEW v \in Task, fn'[v] = "recv", sock'[v] = s PROVE UsesAt(pc'[v]) = 0
      <3>1. v # t
        <4>1. fn' = fn /\ fn[t] = "socket" BY <1>4, <1>6, <2>1 DEF alloc_socket
        <4> QED BY <2>6, <4>1
      <3>2. pc'[v] = pc[v] /\ sock[v] = s BY <1>1, <2>6, <3>1 DEF OthersStay
      <3>3. fd_used[s] = 0 BY <1>6 DEF IsFree
      <3>4. UsesAt(pc[v]) # 0 => fd_used[s] # 0 BY <3>2, UsedSlots
      <3> QED BY <3>2, <3>3, <3>4
    <2> QED BY <1>6, <2>2, <2>3, <2>4, <2>5, <2>6
  <1>7. CASE u # t
    <2>1. IsNew(u) /\ sock'[u] = sock[u] /\ pc'[u] = pc[u] BY <1>1, <1>7 DEF IsNew, OthersStay
    <2>2. UsesAt(pc'[u]) # 0 BY <2>1 DEF IsNew, UsesAt
    <2> QED BY <1>5, <2>1, <2>2
  <1>8. CASE u = t BY <1>5, <1>6, <1>8, EntersCall DEF IsNew
  <1> QED BY <1>7, <1>8

(* Nobody joins a group with a socket that waits to be freed.               *)
LEMMA JoinStep ==
    ASSUME SocketInv, CallsFit, TableFits, RolesAreApart, NEW t \in Task, Step(t), NEW u \in Task
    PROVE  JoinFits(u)'
  <1> SUFFICES ASSUME fn'[u] = "setsockopt", pc'[u] \in {"got", "netconn", "wait"}
               PROVE  fd_free_pending'[sock'[u]] = 0
        BY DEF JoinFits
  <1>1. OthersStay(t) BY OnlyOwnLocals
  <1>2. /\ \A v \in Task : sock[v] \in Slot /\ CallFits(v)
        BY DEF SocketInv, SocketTypeOK, CallsFit
  <1>3. \A v, w \in Task : \A f \in Manage : fn[v] \in Manage /\ f \in Program[w] => v = w
        BY <1>2 DEF CallFits, RolesAreApart
  <1>4. \A v \in Task : pc[v] \in {"free", "freed"} => fn[v] = "close" BY <1>2 DEF CallFits, FnAt
  <1>5. "setsockopt" \in Program[u]
    <2>1. CallsFit' BY CallsStep
    <2> QED BY <2>1 DEF CallsFit, CallFits, Manage
  <1>6. ASSUME NEW s \in Slot, fd_free_pending[s] = 0, pc[u] # "free" PROVE fd_free_pending'[s] = 0
    <2>1. CASE SlotStays(s) BY <1>6, <2>1 DEF SlotStays
    <2>2. CASE LastUserFrees(t, s) \/ TaskAllocs(t, s) BY <1>6, <2>2 DEF LastUserFrees, TaskAllocs
    <2>3. CASE CloserFrees(t, s)
      <3>1. pc[t] = "free" /\ fn[t] = "close" BY <1>4, <2>3 DEF CloserFrees
      <3>2. t = u BY <1>3, <1>5, <3>1 DEF Manage
      <3> QED BY <1>6, <3>1, <3>2
    <2> QED BY <2>1, <2>2, <2>3, SlotEffect
  <1>7. CASE /\ fn[u] = "setsockopt" /\ sock'[u] = sock[u]
             /\ pc[u] \in {"got", "netconn", "wait"}
        BY <1>2, <1>6, <1>7 DEF TableFits, JoinFits
  <1>8. CASE u = t /\ pc[t] = "app" /\ sock'[t] \in known
    <2>1. sock'[t] \in Slot BY <1>8 DEF SocketInv, SocketTypeOK
    <2>2. fd_free_pending[sock'[t]] = 0
      <3> SUFFICES ASSUME fd_free_pending[sock'[t]] # 0 PROVE FALSE OBVIOUS
      <3>1. PICK v \in Task : pc[v] = "freed" BY <1>8 DEF TableFits, KnownFits
      <3>2. v = u BY <1>3, <1>4, <1>5, <3>1 DEF Manage
      <3> QED BY <1>8, <3>1, <3>2
    <2> QED BY <1>6, <1>8, <2>1, <2>2
  <1>9. CASE u # t BY <1>1, <1>7, <1>9 DEF OthersStay
  <1>10. CASE u = t BY <1>7, <1>8, <1>10, EntersCall
  <1> QED BY <1>9, <1>10

(* A slot with a membership is in use and nobody has closed it; who closes  *)
(* it has dropped its memberships before.                                   *)
Dropped4 == {"done4", "get6", "drop6", "done6", "delete", "deleting", "free"}
Dropped6 == {"done6", "delete", "deleting", "free"}

GroupsFit ==
    /\ \A s \in Slot, f \in Family :
          <<s, f>> \in memberships => conn[s] # NULL /\ fd_free_pending[s] = 0
    /\ \A t \in Task : /\ pc[t] \in Dropped4 => <<sock[t], "4">> \notin memberships
                       /\ pc[t] \in Dropped6 => <<sock[t], "6">> \notin memberships

(* Who changes the memberships.                                             *)
LEMMA GroupsEffect ==
    ASSUME SocketInv, ConnsFit, NEW t \in Task, Step(t)
    PROVE  /\ ~(pc[t] = "wait" /\ fn[t] = "setsockopt") => memberships' \subseteq memberships
           /\ memberships' \subseteq memberships \cup {<<sock[t], f>> : f \in Family}
           /\ pc[t] = "drop4" => <<sock[t], "4">> \notin memberships'
           /\ pc[t] = "drop6" => <<sock[t], "6">> \notin memberships'
           /\ pc'[t] \in Dropped4 => sock'[t] = sock[t] /\ pc[t] \in Dropped4 \cup {"drop4"}
           /\ pc'[t] \in Dropped6 => sock'[t] = sock[t] /\ pc[t] \in Dropped6 \cup {"drop6"}
  <1>1. ASSUME pc[t] \in {"drop4", "drop6"} PROVE conn[sock[t]] # NULL
        BY <1>1 DEF ConnsFit, Connected
  <1>2. /\ pc[t] = "drop4" => <<sock[t], "4">> \notin memberships'
        /\ pc[t] = "drop6" => <<sock[t], "6">> \notin memberships'
        BY <1>1, WhichAction DEF drop_memberships
  <1>3. /\ ~(pc[t] = "wait" /\ fn[t] = "setsockopt") => memberships' \subseteq memberships
        /\ memberships' \subseteq memberships \cup {<<sock[t], f>> : f \in Family}
        BY DEF Step, Call, Get, sock_inc_used, tryget_socket, Done, done_socket, done_socket_other,
           Netconn, netconn_call, netconn_return, Recv, lwip_recv, lwip_recv_fetched, lwip_recv_copy,
           Close, lwip_socket_drop_registered_memberships, drop_get, drop_memberships, drop_done,
           lwip_socket_drop_registered_mld6_memberships, lwip_close, netconn_delete, free_socket,
           free_socket_lastdata, Socket, lwip_socket, alloc_socket, alloc_socket_clear, lwip_socket_full
  <1>4. /\ pc'[t] \in Dropped4 => sock'[t] = sock[t] /\ pc[t] \in Dropped4 \cup {"drop4"}
        /\ pc'[t] \in Dropped6 => sock'[t] = sock[t] /\ pc[t] \in Dropped6 \cup {"drop6"}
    <2> USE DEF SocketInv, SocketTypeOK, Dropped4, Dropped6
    <2>1. ASSUME NEW f, NEW fd, Call(t, f, fd) PROVE pc'[t] = "got" BY <2>1 DEF Call
    <2>2. CASE Get(t) BY <2>2 DEF Get, sock_inc_used, tryget_socket, AfterGet
    <2>3. CASE Done(t) BY <2>3 DEF Done, done_socket, done_socket_other
    <2>4. CASE Netconn(t) BY <2>4 DEF Netconn, netconn_call, netconn_return
    <2>5. CASE Recv(t) BY <2>5 DEF Recv, lwip_recv, lwip_recv_fetched, lwip_recv_copy
    <2>6. CASE Close(t)
          BY <2>6 DEF Close, lwip_socket_drop_registered_memberships, drop_get,
             drop_memberships, drop_done, lwip_socket_drop_registered_mld6_memberships,
             lwip_close, netconn_delete, free_socket, free_socket_lastdata
    <2>7. CASE Socket(t)
          BY <2>7 DEF Socket, lwip_socket, alloc_socket, alloc_socket_clear, lwip_socket_full
    <2> QED BY <2>1, <2>2, <2>3, <2>4, <2>5, <2>6, <2>7 DEF Step
  <1> QED BY <1>2, <1>3, <1>4

(* No step leaves a membership with a slot that is closed.                  *)
LEMMA GroupsStep ==
    ASSUME SocketInv, CallsFit, ConnsFit, TableFits, GroupsFit, RolesAreApart,
           NEW t \in Task, Step(t)
    PROVE  GroupsFit'
  <1>1. OthersStay(t) BY OnlyOwnLocals
  <1>2. /\ \A v \in Task : sock[v] \in Slot /\ CallFits(v)
        BY DEF SocketInv, SocketTypeOK, CallsFit
  <1>3. \A v, w \in Task : fn[v] \in Manage /\ fn[w] \in Manage => v = w
        BY <1>2 DEF CallFits, RolesAreApart
  <1>4. ASSUME NEW s \in Slot, NEW f \in Family, <<s, f>> \in memberships'
        PROVE  conn'[s] # NULL /\ fd_free_pending'[s] = 0
    <2>1. CASE <<s, f>> \in memberships
      <3>1. conn[s] # NULL /\ fd_free_pending[s] = 0 BY <2>1 DEF GroupsFit
      <3>2. CASE SlotStays(s) BY <3>1, <3>2 DEF SlotStays
      <3>3. CASE LastUserFrees(t, s) \/ TaskAllocs(t, s)
            BY <3>1, <3>3 DEF LastUserFrees, TaskAllocs, IsFree
      <3>4. CASE s = sock[t] /\ CloserFrees(t, s)
        <4>1. pc[t] = "free" BY <3>4 DEF CloserFrees
        <4>2. <<s, "4">> \notin memberships /\ <<s, "6">> \notin memberships
              BY <3>4, <4>1 DEF GroupsFit, Dropped4, Dropped6
        <4> QED BY <2>1, <4>2 DEF Family
      <3> QED BY <3>2, <3>3, <3>4, SlotEffect
    <2>2. CASE <<s, f>> \notin memberships
      <3>1. pc[t] = "wait" /\ fn[t] = "setsockopt" /\ s = sock[t] BY <1>4, <2>2, GroupsEffect
      <3>2. conn' = conn /\ fd_free_pending' = fd_free_pending
            BY <3>1, WhichAction DEF netconn_return
      <3> QED BY <3>1, <3>2 DEF ConnsFit, Connected, TableFits, JoinFits
    <2> QED BY <2>1, <2>2
  <1>5. ASSUME NEW u \in Task
        PROVE  /\ pc'[u] \in Dropped4 => <<sock'[u], "4">> \notin memberships'
               /\ pc'[u] \in Dropped6 => <<sock'[u], "6">> \notin memberships'
    <2>1. CASE u # t
      <3>1. pc'[u] = pc[u] /\ sock'[u] = sock[u] BY <1>1, <2>1 DEF OthersStay
      <3>2. ASSUME pc[u] \in Dropped4 \cup Dropped6 PROVE memberships' \subseteq memberships
        <4>1. fn[u] = "close" BY <1>2, <3>2 DEF CallFits, FnAt, Dropped4, Dropped6
        <4>2. fn[t] # "setsockopt" BY <1>3, <2>1, <4>1 DEF Manage
        <4> QED BY <4>2, GroupsEffect
      <3> QED BY <3>1, <3>2 DEF GroupsFit
    <2>2. CASE u = t
      <3>1. pc[t] # "wait" => memberships' \subseteq memberships BY GroupsEffect
      <3>2. "wait" \notin Dropped4 \cup Dropped6 \cup {"drop4", "drop6"} BY DEF Dropped4, Dropped6
      <3> QED BY <2>2, <3>1, <3>2, GroupsEffect DEF GroupsFit
    <2> QED BY <2>1, <2>2
  <1> QED BY <1>4, <1>5 DEF GroupsFit

(* What a task owns itself: what it copies from belongs to the slot.        *)
Mine(t) == IF pc[t] = "copy" THEN NULL ELSE p[t]

OwnersFit ==
    /\ \A r, s \in Slot : lastdata[r] = lastdata[s] /\ lastdata[r] # NULL => r = s
    /\ \A t, u \in Task : Mine(t) = Mine(u) /\ Mine(t) # NULL => t = u
    /\ \A s \in Slot, t \in Task : lastdata[s] = Mine(t) => Mine(t) = NULL
    /\ \A b \in Buf : kind[b] = "none" <=>
          (\A s \in Slot : lastdata[s] # b) /\ (\A t \in Task : Mine(t) # b)

(* The ways a step of t on slot s moves buffers.                            *)
BufsStay(t, s) == lastdata'[s] = lastdata[s] /\ Mine(t)' = Mine(t) /\ kind' = kind
SlotGets(t, s) ==
    /\ lastdata[s] = NULL /\ lastdata'[s] \in Buf /\ kind[lastdata'[s]] = "none"
    /\ kind' = [kind EXCEPT ![lastdata'[s]] = KindOf(is_tcp[t])] /\ Mine(t)' = Mine(t)
TaskGets(t, s) ==
    /\ Mine(t) = NULL /\ Mine(t)' \in Buf /\ kind[Mine(t)'] = "none"
    /\ kind' = [kind EXCEPT ![Mine(t)'] = "pbuf"] /\ lastdata'[s] = lastdata[s]
SlotFrees(t, s) == Release(lastdata[s]) /\ lastdata'[s] = NULL /\ Mine(t)' = Mine(t)
TaskFrees(t, s) == Release(Mine(t)) /\ Mine(t)' = NULL /\ lastdata'[s] = lastdata[s]
SlotGives(t, s) ==
    /\ Mine(t) = NULL /\ Mine(t)' = lastdata[s] /\ lastdata'[s] = NULL
    /\ kind' = kind

BufsMove(t, s) ==
    \/ BufsStay(t, s) \/ SlotGets(t, s) \/ TaskGets(t, s)
    \/ SlotFrees(t, s) \/ TaskFrees(t, s) \/ SlotGives(t, s)

(* None of them gives a buffer two owners or none.                          *)
LEMMA OwnersStep ==
    ASSUME SocketInv, OwnersFit, NEW t \in Task, NEW s \in Slot, BufsMove(t, s),
           \A u \in Task \ {t} : Mine(u)' = Mine(u),
           \A r \in Slot \ {s} : lastdata'[r] = lastdata[r]
    PROVE  /\ OwnersFit'
           /\ \A b \in Buf : kind'[b] = kind[b] \/ kind[b] = "none" \/ kind'[b] = "none"
  <1>1. /\ kind \in [Buf -> {"none", "pbuf", "netbuf"}] /\ NULL \notin Buf
        /\ \A r \in Slot : lastdata[r] \in Buf \cup {NULL}
        /\ \A u \in Task : Mine(u) \in Buf \cup {NULL}
        BY DEF SocketInv, SocketTypeOK, Mine
  <1>2. KindOf(is_tcp[t]) \in {"pbuf", "netbuf"} BY DEF KindOf
  <1>3. CASE BufsStay(t, s)
    <2>1. \A r \in Slot : lastdata'[r] = lastdata[r] BY <1>3 DEF BufsStay
    <2>2. \A u \in Task : Mine(u)' = Mine(u) BY <1>3 DEF BufsStay
    <2>3. kind' = kind BY <1>3 DEF BufsStay
    <2> HIDE DEF Mine
    <2> QED BY <1>1, <2>1, <2>2, <2>3 DEF OwnersFit
  <1>4. CASE SlotGets(t, s)
    <2>1. \A u \in Task : Mine(u)' = Mine(u) BY <1>4 DEF SlotGets
    <2>2. PICK b \in Buf : /\ lastdata'[s] = b /\ kind[b] = "none" /\ lastdata[s] = NULL
                           /\ kind' = [kind EXCEPT ![b] = KindOf(is_tcp[t])]
          BY <1>4 DEF SlotGets
    <2>3. (\A r \in Slot : lastdata[r] # b) /\ (\A u \in Task : Mine(u) # b) BY <2>2 DEF OwnersFit
    <2> QED BY <1>1, <1>2, <2>1, <2>2, <2>3 DEF OwnersFit
  <1>5. CASE TaskGets(t, s)
    <2>1. \A r \in Slot : lastdata'[r] = lastdata[r] BY <1>5 DEF TaskGets
    <2>2. PICK b \in Buf : /\ Mine(t)' = b /\ kind[b] = "none" /\ Mine(t) = NULL
                           /\ kind' = [kind EXCEPT ![b] = "pbuf"]
          BY <1>5 DEF TaskGets
    <2>3. (\A r \in Slot : lastdata[r] # b) /\ (\A u \in Task : Mine(u) # b) BY <2>2 DEF OwnersFit
    <2> QED BY <1>1, <2>1, <2>2, <2>3 DEF OwnersFit
  <1>6. CASE SlotFrees(t, s)
    <2>1. \A u \in Task : Mine(u)' = Mine(u) BY <1>6 DEF SlotFrees
    <2>2. lastdata'[s] = NULL /\ \A x \in Buf : kind'[x] = IF x = lastdata[s] THEN "none" ELSE kind[x]
          BY <1>6 DEF SlotFrees
    <2> QED BY <1>1, <2>1, <2>2 DEF OwnersFit
  <1>7. CASE TaskFrees(t, s)
    <2>1. \A r \in Slot : lastdata'[r] = lastdata[r] BY <1>7 DEF TaskFrees
    <2>2. Mine(t)' = NULL /\ \A x \in Buf : kind'[x] = IF x = Mine(t) THEN "none" ELSE kind[x]
          BY <1>7 DEF TaskFrees
    <2> QED BY <1>1, <2>1, <2>2 DEF OwnersFit
  <1>8. CASE SlotGives(t, s) BY <1>1, <1>8 DEF SlotGives, OwnersFit
  <1> QED BY <1>3, <1>4, <1>5, <1>6, <1>7, <1>8 DEF BufsMove

(* The data of a slot is of the kind its connection delivers; a reader      *)
(* copies from the data of its slot, and fetches only into an empty one;    *)
(* the closer frees what fits the type it found.                            *)
DataFits ==
    \A s \in Slot : lastdata[s] # NULL =>
        conn[s] # NULL /\ kind[lastdata[s]] = KindOf(conn[s] \in TcpConn)
CopyFits(t) ==
    /\ pc[t] = "copy" => p[t] # NULL /\ p[t] = lastdata[sock[t]]
    /\ pc[t] = "fetch" => lastdata[sock[t]] = NULL
FreedFits(t) == pc[t] = "freed" /\ p[t] # NULL => kind[p[t]] = KindOf(is_tcp[t])

BufsFit ==
    OwnersFit /\ DataFits /\ \A t \in Task : CopyFits(t) /\ FreedFits(t)

(* Every step moves buffers in one of those ways: readers put data into     *)
(* slots and take it away, and so does the last user of a closed slot.      *)
LEMMA BufsEffect ==
    ASSUME SocketInv, CallsFit, TableFits, BufsFit, NEW t \in Task, Step(t)
    PROVE  /\ BufsMove(t, sock[t])
           /\ \A r \in Slot \ {sock[t]} : lastdata'[r] = lastdata[r]
           /\ \/ lastdata'[sock[t]] = lastdata[sock[t]]
              \/ fn[t] = "recv" /\ pc[t] \in {"fetch", "copy"} /\ conn' = conn
              \/ UsesAt(pc[t]) # 0 /\ fd_used[sock[t]] = 1 /\ lastdata'[sock[t]] = NULL
           /\ LastUserFrees(t, sock[t]) => lastdata'[sock[t]] = NULL
           /\ CloserFrees(t, sock[t]) /\ ~(fd_used[sock[t]] > 1) => lastdata'[sock[t]] = NULL
  <1> DEFINE s == sock[t]
  <1>1. /\ s \in Slot /\ lastdata \in [Slot -> Buf \cup {NULL}] /\ p \in [Task -> Buf \cup {NULL}]
        /\ pc \in [Task -> Label] /\ NULL \notin Buf /\ kind \in [Buf -> {"none", "pbuf", "netbuf"}]
        /\ fd_used[s] \in Nat
        BY DEF SocketInv, SocketTypeOK
  <1>2. CallFits(t) /\ CopyFits(t) BY DEF CallsFit, BufsFit
  <1>3. p[t] # NULL => pc[t] \in {"wait", "copy", "freed"} BY <1>2 DEF CallFits
  <1>4. CASE /\ lastdata' = lastdata /\ kind' = kind
             /\ Mine(t)' = Mine(t) /\ pc[t] \notin {"done", "other", "free"}
        BY <1>4 DEF BufsMove, BufsStay, LastUserFrees, CloserFrees
  <1>5. CASE DoneSlot(s) /\ Mine(t)' = Mine(t) /\ UsesAt(pc[t]) = 1 /\ pc[t] # "free"
    <2>1. CASE fd_used[s] = 1 /\ fd_free_pending[s] # 0
      <3>1. lastdata' = [lastdata EXCEPT ![s] = NULL] /\ Release(lastdata[s])
            BY <1>5, <2>1 DEF DoneSlot, FreeSlot
      <3>2. lastdata'[s] = NULL /\ \A r \in Slot \ {s} : lastdata'[r] = lastdata[r] BY <1>1, <3>1
      <3> QED BY <1>5, <2>1, <3>1, <3>2 DEF BufsMove, SlotFrees
    <2>2. CASE ~(fd_used[s] = 1 /\ fd_free_pending[s] # 0)
      <3>1. lastdata' = lastdata /\ kind' = kind BY <1>5, <2>2 DEF DoneSlot
      <3> QED BY <1>5, <2>2, <3>1 DEF BufsMove, BufsStay, LastUserFrees, CloserFrees
    <2> QED BY <2>1, <2>2
  <1>6. CASE pc[t] \in {"done", "other"}
    <2>1. /\ DoneSlot(s) /\ p' = p /\ pc'[t] \in {"app", "get"}
          BY <1>1, <1>6, WhichAction DEF done_socket, done_socket_other
    <2>2. p[t] = NULL BY <1>3, <1>6
    <2> QED BY <1>5, <1>6, <2>1, <2>2 DEF Mine, UsesAt
  <1>7. CASE pc[t] = "netconn"
    <2>1. netconn_call(t) /\ p[t] = NULL BY <1>3, <1>7, WhichAction
    <2>2. lastdata' = lastdata BY <2>1 DEF netconn_call
    <2>3. CASE kind' = kind /\ p' = p BY <1>4, <1>7, <2>1, <2>2, <2>3 DEF Mine
    <2>4. CASE ~(kind' = kind /\ p' = p)
      <3>1. PICK b \in Buf : /\ kind[b] = "none" /\ kind' = [kind EXCEPT ![b] = "pbuf"]
                             /\ p' = [p EXCEPT ![t] = b] /\ pc' = [pc EXCEPT ![t] = "wait"]
            BY <2>1, <2>4 DEF netconn_call
      <3>2. Mine(t)' = b /\ Mine(t) = NULL BY <1>1, <1>7, <2>1, <3>1 DEF Mine
      <3>3. TaskGets(t, s) BY <2>2, <3>1, <3>2 DEF TaskGets
      <3> QED BY <1>7, <2>2, <3>3 DEF BufsMove, LastUserFrees, CloserFrees
    <2> QED BY <2>3, <2>4
  <1>8. CASE pc[t] \in {"wait", "freed"}
    <2>1. /\ Release(p[t]) /\ p' = [p EXCEPT ![t] = NULL] /\ lastdata' = lastdata
          BY <1>8, WhichAction DEF netconn_return, free_socket_lastdata
    <2>2. Mine(t) = p[t] /\ Mine(t)' = NULL BY <1>1, <1>8, <2>1 DEF Mine
    <2>3. TaskFrees(t, s) BY <2>1, <2>2 DEF TaskFrees
    <2> QED BY <1>8, <2>1, <2>3 DEF BufsMove, LastUserFrees, CloserFrees
  <1>9. CASE pc[t] = "recv"
    <2>1. lwip_recv(t) /\ p[t] = NULL BY <1>3, <1>9, WhichAction
    <2>2. lastdata' = lastdata /\ kind' = kind /\ (p'[t] = NULL \/ pc'[t] = "copy")
          BY <1>1, <2>1 DEF lwip_recv
    <2> QED BY <1>4, <1>9, <2>1, <2>2 DEF Mine
  <1>10. CASE pc[t] = "fetch"
    <2>1. /\ lwip_recv_fetched(t) /\ p[t] = NULL /\ lastdata[s] = NULL /\ fn[t] = "recv"
          BY <1>2, <1>3, <1>10, WhichAction DEF CopyFits, CallFits, FnAt
    <2>2. CASE lastdata' = lastdata /\ kind' = kind /\ p' = p BY <1>4, <1>10, <2>1, <2>2 DEF Mine
    <2>3. CASE ~(lastdata' = lastdata /\ kind' = kind /\ p' = p)
      <3>1. PICK b \in Buf : /\ kind[b] = "none" /\ kind' = [kind EXCEPT ![b] = KindOf(is_tcp[t])]
                             /\ lastdata' = [lastdata EXCEPT ![s] = b]
                             /\ pc' = [pc EXCEPT ![t] = "copy"] /\ conn' = conn
            BY <2>1, <2>3 DEF lwip_recv_fetched
      <3>2. lastdata'[s] = b /\ \A r \in Slot \ {s} : lastdata'[r] = lastdata[r] BY <1>1, <3>1
      <3>3. Mine(t)' = NULL /\ Mine(t) = NULL BY <1>1, <1>10, <2>1, <3>1 DEF Mine
      <3>4. SlotGets(t, s) BY <2>1, <3>1, <3>2, <3>3 DEF SlotGets
      <3> QED BY <1>10, <2>1, <3>1, <3>2, <3>4 DEF BufsMove, LastUserFrees, CloserFrees
    <2> QED BY <2>2, <2>3
  <1>11. CASE pc[t] = "copy"
    <2>1. /\ lwip_recv_copy(t) /\ p[t] = lastdata[s] /\ fn[t] = "recv" /\ p' = [p EXCEPT ![t] = NULL]
          /\ conn' = conn
          BY <1>2, <1>11, WhichAction DEF CopyFits, CallFits, FnAt, lwip_recv_copy
    <2>2. Mine(t) = NULL /\ Mine(t)' = NULL BY <1>1, <1>11, <2>1 DEF Mine
    <2>3. CASE lastdata' = lastdata /\ kind' = kind BY <1>4, <1>11, <2>2, <2>3
    <2>4. CASE ~(lastdata' = lastdata /\ kind' = kind)
      <3>1. lastdata' = [lastdata EXCEPT ![s] = NULL] /\ Release(lastdata[s])
            BY <2>1, <2>4 DEF lwip_recv_copy, ClearConsumed
      <3>2. lastdata'[s] = NULL /\ \A r \in Slot \ {s} : lastdata'[r] = lastdata[r] BY <1>1, <3>1
      <3> QED BY <1>11, <2>1, <2>2, <3>1, <3>2 DEF BufsMove, SlotFrees
    <2> QED BY <2>3, <2>4
  <1>12. CASE pc[t] = "free"
    <2>1. /\ FreeSlot(s, fd_used[s], is_tcp[t]) /\ kind' = kind /\ pc' = [pc EXCEPT ![t] = "freed"]
          /\ p' = [p EXCEPT ![t] = IF fd_used[s] > 1 THEN NULL ELSE lastdata[s]]
          BY <1>12, WhichAction DEF free_socket
    <2>2. Mine(t) = NULL /\ Mine(t)' = IF fd_used[s] > 1 THEN NULL ELSE lastdata[s]
          BY <1>1, <1>3, <1>12, <2>1 DEF Mine
    <2>3. CASE fd_used[s] > 1
      <3>1. lastdata' = lastdata BY <2>1, <2>3 DEF FreeSlot
      <3> QED BY <1>12, <2>1, <2>2, <2>3, <3>1 DEF BufsMove, BufsStay, LastUserFrees
    <2>4. CASE ~(fd_used[s] > 1)
      <3>1. lastdata' = [lastdata EXCEPT ![s] = NULL] BY <2>1, <2>4 DEF FreeSlot
      <3>2. lastdata'[s] = NULL /\ \A r \in Slot \ {s} : lastdata'[r] = lastdata[r] BY <1>1, <3>1
      <3>3. UsesAt(pc[t]) # 0 BY <1>12 DEF UsesAt
      <3>4. fd_used[s] = 1 BY <1>1, <2>4, <3>3, UsedSlots
      <3> QED BY <1>12, <2>1, <2>2, <2>4, <3>2, <3>3, <3>4 DEF BufsMove, SlotGives
    <2> QED BY <2>3, <2>4
  <1>13. CASE pc[t] \in {"done4", "done6"}
    <2>1. DoneSlot(s) /\ p' = p /\ pc'[t] # "copy"
          BY <1>1, <1>13 DEF Step, Call, Get, sock_inc_used, tryget_socket, Done, done_socket,
             done_socket_other, Netconn, netconn_call, netconn_return, Recv, lwip_recv,
             lwip_recv_fetched, lwip_recv_copy, Close, lwip_socket_drop_registered_memberships,
             drop_get, drop_memberships, drop_done, lwip_socket_drop_registered_mld6_memberships,
             lwip_close, netconn_delete, free_socket, free_socket_lastdata, Socket,
             lwip_socket, alloc_socket, alloc_socket_clear, lwip_socket_full
    <2>2. fd_used[s] # 1
      <3>1. UsesAt(pc[t]) = 2 BY <1>13 DEF UsesAt
      <3> QED BY <3>1, UsedSlots
    <2>3. lastdata' = lastdata /\ kind' = kind BY <2>1, <2>2 DEF DoneSlot
    <2>4. p[t] = NULL BY <1>3, <1>13
    <2> QED BY <1>4, <1>13, <2>1, <2>3, <2>4 DEF Mine
  <1>14. CASE pc[t] = "clear"
    <2>1. lastdata[s] = NULL BY <1>14 DEF TableFits, NewFits, IsNew
    <2>2. /\ lastdata' = [lastdata EXCEPT ![s] = NULL] /\ kind' = kind /\ p' = p
          BY <1>14, WhichAction DEF alloc_socket_clear
    <2>3. lastdata' = lastdata BY <1>1, <2>1, <2>2
    <2>4. p[t] = NULL BY <1>3, <1>14
    <2> QED BY <1>4, <1>14, <2>2, <2>3, <2>4 DEF Mine
  <1>15. CASE pc[t] \notin {"done", "other", "netconn", "wait", "freed", "recv", "fetch", "copy",
                            "free", "done4", "done6", "clear"}
    <2>1. lastdata' = lastdata /\ kind' = kind /\ p' = p
          BY <1>15 DEF Step, Call, Get, sock_inc_used, tryget_socket, Done, done_socket,
             done_socket_other, Netconn, netconn_call, netconn_return, Recv, lwip_recv,
             lwip_recv_fetched, lwip_recv_copy, Close, lwip_socket_drop_registered_memberships,
             drop_get, drop_memberships, drop_done, lwip_socket_drop_registered_mld6_memberships,
             lwip_close, netconn_delete, free_socket, free_socket_lastdata, Socket,
             lwip_socket, alloc_socket, alloc_socket_clear, lwip_socket_full
    <2>2. p[t] = NULL BY <1>3, <1>15
    <2> QED BY <1>4, <1>15, <2>1, <2>2 DEF Mine
  <1> QED BY <1>6, <1>7, <1>8, <1>9, <1>10, <1>11, <1>12, <1>13, <1>14, <1>15

(* Every step keeps every buffer with one owner, who knows its kind.        *)
LEMMA BufsStep ==
    ASSUME SocketInv, CallsFit, ConnsFit, TableFits, BufsFit, RolesAreApart, NEW t \in Task, Step(t)
    PROVE  BufsFit'
  <1> DEFINE s == sock[t]
  <1>1. OthersStay(t) BY OnlyOwnLocals
  <1>2. s \in Slot /\ BufsMove(t, s) /\ \A r \in Slot \ {s} : lastdata'[r] = lastdata[r]
        BY BufsEffect DEF SocketInv, SocketTypeOK
  <1>3. \A u \in Task \ {t} : Mine(u)' = Mine(u) BY <1>1 DEF OthersStay, Mine
  <1>4. /\ OwnersFit'
        /\ \A b \in Buf : kind'[b] = kind[b] \/ kind[b] = "none" \/ kind'[b] = "none"
        BY <1>2, <1>3, OwnersStep DEF BufsFit
  <1>5. /\ \A r \in Slot : sock[t] = r \/ lastdata'[r] = lastdata[r]
        /\ \A u \in Task : CallFits(u) /\ sock[u] \in Slot /\ p[u] \in Buf \cup {NULL}
        /\ \A r \in Slot : lastdata[r] \in Buf \cup {NULL}
        BY <1>2 DEF SocketInv, SocketTypeOK, CallsFit
  <1>6. SocketInv' BY NextSocketInv DEF Next, Step
  <1>7. ASSUME NEW b \in Buf, kind[b] # "none", kind'[b] # "none" PROVE kind'[b] = kind[b]
        BY <1>4, <1>7
  <1>8. DataFits'
    <2> SUFFICES ASSUME NEW r \in Slot, lastdata'[r] # NULL
                 PROVE  conn'[r] # NULL /\ kind'[lastdata'[r]] = KindOf(conn'[r] \in TcpConn)
          BY DEF DataFits
    <2>1. lastdata'[r] \in Buf BY <1>6 DEF SocketInv, SocketTypeOK
    <2>2. kind'[lastdata'[r]] # "none" BY <1>4, <2>1 DEF OwnersFit
    <2>3. CASE lastdata'[r] = lastdata[r]
      <3>1. conn[r] # NULL /\ kind[lastdata[r]] = KindOf(conn[r] \in TcpConn)
            BY <2>3 DEF BufsFit, DataFits
      <3>2. kind'[lastdata[r]] = kind[lastdata[r]]
        <4>1. kind[lastdata[r]] # "none" BY <3>1 DEF KindOf
        <4> QED BY <1>7, <2>1, <2>2, <2>3, <4>1
      <3>3. conn'[r] = conn[r]
        <4>1. CASE SlotStays(r) BY <4>1 DEF SlotStays
        <4>2. CASE r = s /\ LastUserFrees(t, r) BY <4>2, BufsEffect
        <4>3. CASE r = s /\ CloserFrees(t, r)
              BY <4>3, BufsEffect DEF CloserFrees
        <4>4. CASE TaskAllocs(t, r) BY <3>1, <4>4 DEF TaskAllocs, IsFree
        <4> QED BY <4>1, <4>2, <4>3, <4>4, SlotEffect
      <3> QED BY <2>3, <3>1, <3>2, <3>3
    <2>4. CASE lastdata'[r] # lastdata[r]
      <3>1. r = s /\ SlotGets(t, s)
        <4>1. r = s BY <1>5, <2>4
        <4> QED BY <1>2, <2>4, <4>1
                DEF BufsMove, BufsStay, TaskGets, SlotFrees, TaskFrees, SlotGives
      <3>2. kind'[lastdata'[r]] = KindOf(is_tcp[t])
            BY <2>1, <3>1 DEF SlotGets, SocketInv, SocketTypeOK
      <3>3. conn' = conn /\ pc[t] \in Connected
        <4>1. lastdata'[s] # NULL /\ lastdata'[s] # lastdata[s] BY <2>4, <3>1
        <4>2. conn' = conn /\ pc[t] \in {"fetch", "copy"} BY <4>1, BufsEffect
        <4> QED BY <4>2 DEF Connected
      <3>4. conn[r] # NULL /\ (is_tcp[t] <=> conn[r] \in TcpConn) BY <3>1, <3>3 DEF ConnsFit
      <3> QED BY <3>2, <3>3, <3>4 DEF KindOf
    <2> QED BY <2>3, <2>4
  <1>9. ASSUME NEW u \in Task PROVE CopyFits(u)'
    <2> SUFFICES ASSUME pc'[u] \in {"copy", "fetch"}
                 PROVE  /\ pc'[u] = "copy" => p'[u] # NULL /\ p'[u] = lastdata'[sock'[u]]
                        /\ pc'[u] = "fetch" => lastdata'[sock'[u]] = NULL
          BY DEF CopyFits
    <2>1. CASE u # t
      <3>1. pc'[u] = pc[u] /\ p'[u] = p[u] /\ sock'[u] = sock[u] BY <1>1, <2>1 DEF OthersStay
      <3>2. fn[u] = "recv" /\ "recv" \in Program[u] /\ UsesAt(pc[u]) # 0
            BY <1>5, <3>1 DEF CallFits, FnAt, UsesAt
      <3>3. lastdata'[sock[u]] = lastdata[sock[u]]
        <4> SUFFICES ASSUME lastdata'[sock[u]] # lastdata[sock[u]] PROVE FALSE OBVIOUS
        <4>1. sock[u] = s BY <1>5
        <4>2. CASE fn[t] = "recv"
          <5>1. "recv" \in Program[t] BY <1>5, <4>2 DEF CallFits
          <5> QED BY <2>1, <3>2, <5>1 DEF RolesAreApart
        <4>3. CASE UsesAt(pc[t]) # 0 /\ fd_used[s] = 1
          <5>1. fd_used[s] > 1 BY <2>1, <3>2, <4>1, <4>3, UsedSlots
          <5> QED BY <4>3, <5>1
        <4> QED BY <4>1, <4>2, <4>3, BufsEffect
      <3> QED BY <3>1, <3>3 DEF BufsFit, CopyFits
    <2>2. CASE u = t /\ pc[t] = "recv"
      <3>1. lwip_recv(t) BY <2>2, WhichAction
      <3> QED BY <2>2, <3>1 DEF lwip_recv, SocketInv, SocketTypeOK
    <2>3. CASE u = t /\ pc[t] = "fetch"
      <3>1. lwip_recv_fetched(t) BY <2>3, WhichAction
      <3> QED BY <2>3, <3>1 DEF lwip_recv_fetched, SocketInv, SocketTypeOK
    <2>4. CASE u = t /\ pc[t] \notin {"recv", "fetch"}
      <3> USE DEF SocketInv, SocketTypeOK
      <3>1. ASSUME NEW f, NEW fd, Call(t, f, fd) PROVE FALSE BY <2>4, <3>1 DEF Call
      <3>2. CASE Get(t) BY <2>4, <3>2 DEF Get, sock_inc_used, tryget_socket, AfterGet
      <3>3. CASE Done(t) BY <2>4, <3>3 DEF Done, done_socket, done_socket_other
      <3>4. CASE Netconn(t) BY <2>4, <3>4 DEF Netconn, netconn_call, netconn_return
      <3>5. CASE Recv(t) BY <2>4, <3>5 DEF Recv, lwip_recv, lwip_recv_fetched, lwip_recv_copy
      <3>6. CASE Close(t)
            BY <2>4, <3>6 DEF Close, lwip_socket_drop_registered_memberships, drop_get,
               drop_memberships, drop_done, lwip_socket_drop_registered_mld6_memberships,
               lwip_close, netconn_delete, free_socket, free_socket_lastdata
      <3>7. CASE Socket(t)
            BY <2>4, <3>7 DEF Socket, lwip_socket, alloc_socket, alloc_socket_clear, lwip_socket_full
      <3> QED BY <3>1, <3>2, <3>3, <3>4, <3>5, <3>6, <3>7 DEF Step
    <2> QED BY <2>1, <2>2, <2>3, <2>4
  <1>10. ASSUME NEW u \in Task PROVE FreedFits(u)'
    <2> SUFFICES ASSUME pc'[u] = "freed", p'[u] # NULL PROVE kind'[p'[u]] = KindOf(is_tcp'[u])
          BY DEF FreedFits
    <2>1. Mine(u)' = p'[u] BY DEF Mine
    <2>2. p'[u] \in Buf BY <1>6 DEF SocketInv, SocketTypeOK
    <2>3. kind'[p'[u]] # "none" BY <1>4, <2>1, <2>2 DEF OwnersFit
    <2>4. CASE u # t
      <3>1. pc[u] = "freed" /\ p'[u] = p[u] /\ is_tcp'[u] = is_tcp[u] BY <1>1, <2>4 DEF OthersStay
      <3>2. kind[p[u]] = KindOf(is_tcp[u]) BY <3>1 DEF BufsFit, FreedFits
      <3>3. kind[p[u]] # "none" BY <3>2 DEF KindOf
      <3> QED BY <1>7, <2>2, <2>3, <3>1, <3>2, <3>3
    <2>5. CASE u = t
      <3>1. free_socket(t)
        <4> USE DEF SocketInv, SocketTypeOK
        <4>1. ASSUME NEW f, NEW fd, Call(t, f, fd) PROVE FALSE BY <2>5, <4>1 DEF Call
        <4>2. CASE Get(t) BY <2>5, <4>2 DEF Get, sock_inc_used, tryget_socket, AfterGet
        <4>3. CASE Done(t) BY <2>5, <4>3 DEF Done, done_socket, done_socket_other
        <4>4. CASE Netconn(t) BY <2>5, <4>4 DEF Netconn, netconn_call, netconn_return
        <4>5. CASE Recv(t) BY <2>5, <4>5 DEF Recv, lwip_recv, lwip_recv_fetched, lwip_recv_copy
        <4>6. CASE Close(t)
              BY <2>5, <4>6 DEF Close, lwip_socket_drop_registered_memberships, drop_get,
                 drop_memberships, drop_done, lwip_socket_drop_registered_mld6_memberships,
                 lwip_close, netconn_delete, free_socket_lastdata
        <4>7. CASE Socket(t)
              BY <2>5, <4>7 DEF Socket, lwip_socket, alloc_socket, alloc_socket_clear, lwip_socket_full
        <4> QED BY <4>1, <4>2, <4>3, <4>4, <4>5, <4>6, <4>7 DEF Step
      <3>2. /\ pc[t] = "free" /\ kind' = kind /\ is_tcp' = is_tcp
            /\ p' = [p EXCEPT ![t] = IF fd_used[s] > 1 THEN NULL ELSE lastdata[s]]
            BY <3>1 DEF free_socket
      <3>3. p'[t] = lastdata[s] /\ lastdata[s] # NULL
            BY <2>5, <3>2 DEF SocketInv, SocketTypeOK
      <3>4. conn[s] # NULL /\ kind[lastdata[s]] = KindOf(conn[s] \in TcpConn)
            BY <1>2, <3>3 DEF BufsFit, DataFits
      <3>5. is_tcp[t] <=> conn[s] \in TcpConn BY <3>2 DEF ConnsFit, Connected
      <3> QED BY <2>5, <3>2, <3>3, <3>4, <3>5 DEF KindOf
    <2> QED BY <2>4, <2>5
  <1> QED BY <1>4, <1>8, <1>9, <1>10 DEF BufsFit

(* The whole invariant: what the tasks found out about their slots still    *)
(* holds, and so does who owns which buffer.                                *)
TableInv ==
    /\ SocketInv /\ CallsFit /\ ConnsFit /\ PendingFits /\ TableFits /\ GroupsFit /\ BufsFit

(* It holds of the empty table.                                             *)
LEMMA InitTableInv == Init => TableInv
  <1> SUFFICES ASSUME Init PROVE TableInv OBVIOUS
  <1>1. /\ pc = [t \in Task |-> "app"] /\ fn = [t \in Task |-> "none"] /\ p = [t \in Task |-> NULL]
        /\ conn = [s \in Slot |-> NULL] /\ fd_free_pending = [s \in Slot |-> 0]
        /\ lastdata = [s \in Slot |-> NULL] /\ known = {} /\ memberships = {}
        /\ kind = [b \in Buf |-> "none"]
        BY DEF Init
  <1>2. SocketInv BY InitSocketInv
  <1>3. CallsFit BY <1>1 DEF CallsFit, CallFits, FnAt, Manage
  <1>4. ConnsFit /\ PendingFits /\ GroupsFit
        BY <1>1 DEF ConnsFit, Connected, PendingFits, GroupsFit, Dropped4, Dropped6
  <1>5. TableFits BY <1>1 DEF TableFits, KnownFits, NewFits, IsNew, JoinFits
  <1>6. BufsFit BY <1>1 DEF BufsFit, OwnersFit, Mine, DataFits, CopyFits, FreedFits
  <1> QED BY <1>2, <1>3, <1>4, <1>5, <1>6 DEF TableInv

(* Every step of every task preserves it.                                   *)
LEMMA NextTableInv == ASSUME RolesAreApart, TableInv, [Next]_vars PROVE TableInv'
  <1>1. SocketInv' BY NextSocketInv DEF TableInv
  <1>2. ASSUME NEW t \in Task, Step(t) PROVE TableInv'
    <2>1. CallsFit' BY <1>2, CallsStep DEF TableInv
    <2>2. ConnsFit' BY <1>2, ConnsStep DEF TableInv
    <2>3. PendingFits' BY <1>2, PendingStep DEF TableInv
    <2>4. GroupsFit' BY <1>2, GroupsStep DEF TableInv
    <2>5. BufsFit' BY <1>2, BufsStep DEF TableInv
    <2>6. TableFits'
      <3>1. KnownFits' BY <1>2, KnownStep DEF TableInv
      <3>2. ASSUME NEW u \in Task PROVE NewFits(u)'
        <4>1. \A s \in Slot : lastdata[s] # NULL => conn[s] # NULL
              BY DEF TableInv, BufsFit, DataFits
        <4> QED BY <1>2, <4>1, NewStep DEF TableInv
      <3>3. ASSUME NEW u \in Task PROVE JoinFits(u)' BY <1>2, JoinStep DEF TableInv
      <3> QED BY <3>1, <3>2, <3>3 DEF TableFits
    <2> QED BY <1>1, <2>1, <2>2, <2>3, <2>4, <2>5, <2>6 DEF TableInv
  <1>3. CASE UNCHANGED vars
    <2>1. /\ UNCHANGED <<conn, fd_used, fd_free_pending, lastdata, known, memberships, open, kind>>
          /\ UNCHANGED <<pc, fn, sock, is_tcp, on, p>>
          BY <1>3 DEF vars, taskVars
    <2>2. CallsFit' BY <2>1 DEF TableInv, CallsFit, CallFits
    <2>3. ConnsFit' /\ PendingFits' /\ GroupsFit'
          BY <2>1 DEF TableInv, ConnsFit, PendingFits, GroupsFit
    <2>4. TableFits' BY <2>1 DEF TableInv, TableFits, KnownFits, NewFits, IsNew, JoinFits
    <2>5. BufsFit' BY <2>1 DEF TableInv, BufsFit, OwnersFit, Mine, DataFits, CopyFits, FreedFits
    <2> QED BY <1>1, <2>2, <2>3, <2>4, <2>5 DEF TableInv
  <1> QED BY <1>2, <1>3 DEF Next, Step

(* The invariant holds always.                                              *)
LEMMA TableInvHolds == RolesAreApart => (Spec => []TableInv)
  <1> SUFFICES ASSUME RolesAreApart PROVE Spec => []TableInv OBVIOUS
  <1>1. TableInv /\ [Next]_vars => TableInv' BY NextTableInv
  <1> QED BY <1>1, InitTableInv, PTL DEF Spec

(* No buffer is lost or freed twice, and the free function fits its kind,   *)
(* whoever reads, writes and closes at the same time.                       *)
THEOREM BuffersKeepOneOwner == RolesAreApart => (Spec => []BuffersHaveOneOwner)
  <1> SUFFICES ASSUME RolesAreApart PROVE Spec => []BuffersHaveOneOwner OBVIOUS
  <1>1. TableInv => BuffersHaveOneOwner
    <2> SUFFICES ASSUME TableInv PROVE BuffersHaveOneOwner OBVIOUS
    <2>1. OwnersFit /\ NULL \notin Buf BY DEF TableInv, BufsFit
    <2>2. ASSUME NEW b \in Buf PROVE Cardinality(Owners(b)) = IF kind[b] = "none" THEN 0 ELSE 1
      <3>1. Owners(b) = {s \in Slot : lastdata[s] = b} \cup {t \in Task : Mine(t) = b}
            BY <2>1 DEF Owners, Mine
      <3>2. CASE kind[b] = "none"
        <4>1. Owners(b) = {} BY <2>1, <3>1, <3>2 DEF OwnersFit
        <4> QED BY <3>2, <4>1, FS_EmptySet
      <3>3. CASE kind[b] # "none"
        <4>1. \E o : Owners(b) = {o}
          <5>1. CASE \E s \in Slot : lastdata[s] = b
            <6>1. PICK s \in Slot : lastdata[s] = b BY <5>1
            <6>2. \A r \in Slot : lastdata[r] = b => r = s BY <2>1, <6>1 DEF OwnersFit
            <6>3. \A t \in Task : Mine(t) # b BY <2>1, <6>1 DEF OwnersFit
            <6>4. Owners(b) = {s} BY <3>1, <6>1, <6>2, <6>3
            <6> QED BY <6>4
          <5>2. CASE ~\E s \in Slot : lastdata[s] = b
            <6>1. PICK t \in Task : Mine(t) = b BY <2>1, <3>3, <5>2 DEF OwnersFit
            <6>2. \A u \in Task : Mine(u) = b => u = t BY <2>1, <6>1 DEF OwnersFit
            <6>3. Owners(b) = {t} BY <3>1, <5>2, <6>1, <6>2
            <6> QED BY <6>3
          <5> QED BY <5>1, <5>2
        <4> QED BY <3>3, <4>1, FS_Singleton
      <3> QED BY <3>2, <3>3
    <2>3. \A t \in Task : pc[t] = "freed" /\ p[t] # NULL => kind[p[t]] = KindOf(is_tcp[t])
          BY DEF TableInv, BufsFit, FreedFits
    <2>4. ASSUME NEW s \in Slot, fd_free_pending[s] # 0, lastdata[s] # NULL
          PROVE  kind[lastdata[s]] = KindOf(fd_free_pending[s] % 2 = 1)
      <3>1. conn[s] # NULL /\ kind[lastdata[s]] = KindOf(conn[s] \in TcpConn)
            BY <2>4 DEF TableInv, BufsFit, DataFits
      <3>2. fd_free_pending[s] % 2 = 1 <=> conn[s] \in TcpConn
            BY <2>4, <3>1 DEF TableInv, PendingFits
      <3> QED BY <3>1, <3>2 DEF KindOf
    <2> QED BY <2>2, <2>3, <2>4 DEF BuffersHaveOneOwner
  <1> QED BY <1>1, TableInvHolds, PTL

(* A slot that may be handed out has no data and no membership left of the  *)
(* socket it was, however its close overlapped the calls of other tasks.    *)
THEOREM FreeSlotsStayClean == RolesAreApart => (Spec => []FreeSlotsAreClean)
  <1> SUFFICES ASSUME RolesAreApart PROVE Spec => []FreeSlotsAreClean OBVIOUS
  <1>1. TableInv => FreeSlotsAreClean
        BY DEF TableInv, BufsFit, DataFits, GroupsFit, FreeSlotsAreClean, IsFree
  <1> QED BY <1>1, TableInvHolds, PTL
===============================================================================
