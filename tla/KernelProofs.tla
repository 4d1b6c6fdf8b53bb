----------------------------- MODULE KernelProofs -----------------------------
(***************************************************************************)
(* Proofs about Kernel for any tasks, event lists, priorities, width of the *)
(* tick count and bounds.  They begin with what the operations of ListOps   *)
(* do to the elements of a list, to their being distinct and to their       *)
(* order, for sequences of any length.  KInv is KernelInv with its two      *)
(* statements about list heads and lengths put as statements about the      *)
(* tasks in the lists.                                                      *)
(***************************************************************************)
EXTENDS Kernel, WellFoundedInduction, SequenceTheorems, TLAPS

(* A function on 1 .. n is a sequence of length n.                          *)
LEMMA FunctionIsSequence ==
    ASSUME NEW S, NEW n \in Nat, NEW f \in [1 .. n -> S]
    PROVE  f \in Seq(S) /\ Len(f) = n /\ DOMAIN f = 1 .. n
  <1>1. f \in Seq(S) BY SeqDef
  <1>2. DOMAIN f = 1 .. Len(f) /\ Len(f) \in Nat BY <1>1, LenProperties
  <1>3. DOMAIN f = 1 .. n OBVIOUS
  <1> QED BY <1>1, <1>2, <1>3

(* The elements of a sequence and their places.                             *)
LEMMA ElementsOf ==
    ASSUME NEW S, NEW s \in Seq(S)
    PROVE  /\ Len(s) \in Nat
           /\ \A i \in 1 .. Len(s) : s[i] \in S /\ s[i] \in Elements(s)
           /\ Elements(s) \subseteq S
           /\ \A x \in Elements(s) : \E i \in 1 .. Len(s) : s[i] = x
           /\ s = << >> <=> Len(s) = 0
           /\ s = << >> <=> Elements(s) = {}
  <1>1. Len(s) \in Nat /\ \A i \in 1 .. Len(s) : s[i] \in S BY LenProperties, ElementOfSeq
  <1>2. s = << >> <=> Len(s) = 0 BY EmptySeq
  <1>3. Len(s) # 0 => s[1] \in Elements(s) BY <1>1 DEF Elements
  <1>4. Len(s) = 0 => Elements(s) = {} BY DEF Elements
  <1> QED BY <1>1, <1>2, <1>3, <1>4 DEF Elements

(* Distinct and ordered elements, by pairs of places.                       *)
LEMMA Distinct ==
    ASSUME NEW s, Len(s) \in Nat
    PROVE  NoDuplicates(s) <=> \A i, j \in 1 .. Len(s) : i < j => s[i] # s[j]
  BY DEF NoDuplicates

(* vListInsertEnd adds one element.                                         *)
LEMMA InsertEndFacts ==
    ASSUME NEW S, NEW s \in Seq(S), s # << >>, NEW x \in S
    PROVE  /\ InsertEnd(s, x) \in Seq(S)
           /\ Len(InsertEnd(s, x)) = Len(s) + 1
           /\ Elements(InsertEnd(s, x)) = Elements(s) \cup {x}
           /\ NoDuplicates(s) /\ x \notin Elements(s) => NoDuplicates(InsertEnd(s, x))
  <1> DEFINE n == Len(s) + 1
             f == InsertEnd(s, x)
  <1>1. Len(s) \in Nat \ {0} /\ n \in Nat /\ \A i \in 1 .. Len(s) : s[i] \in S
        BY ElementsOf
  <1>2. /\ f \in [1 .. n -> S]
        /\ \A i \in 1 .. n : f[i] = IF i < Len(s) THEN s[i]
                                    ELSE IF i = Len(s) THEN x ELSE s[Len(s)]
        BY <1>1 DEF InsertEnd
  <1> HIDE DEF f
  <1>3. f \in Seq(S) /\ Len(f) = n BY <1>1, <1>2, FunctionIsSequence
  <1>4. Elements(f) = Elements(s) \cup {x}
    <2>1. \A i \in 1 .. n : f[i] \in Elements(s) \cup {x} BY <1>1, <1>2 DEF Elements
    <2>2. f[Len(s)] = x /\ f[n] = s[Len(s)] /\ \A i \in 1 .. Len(s) - 1 : f[i] = s[i]
          BY <1>1, <1>2
    <2>3. \A i \in 1 .. Len(s) : \E j \in 1 .. n : f[j] = s[i]
      <3> TAKE i \in 1 .. Len(s)
      <3>1. CASE i < Len(s) BY <1>1, <2>2, <3>1
      <3>2. CASE i = Len(s) BY <1>1, <2>2, <3>2
      <3> QED BY <1>1, <3>1, <3>2
    <2>4. \E j \in 1 .. n : f[j] = x BY <1>1, <2>2
    <2> HIDE DEF n
    <2> QED BY ZenonT(60), <1>3, <2>1, <2>3, <2>4 DEF Elements
  <1>5. ASSUME NoDuplicates(s), x \notin Elements(s) PROVE NoDuplicates(f)
    <2>1. \A i, j \in 1 .. Len(s) : i < j => s[i] # s[j] BY <1>1, <1>5, Distinct
    <2>2. \A i \in 1 .. Len(s) : s[i] # x BY <1>5 DEF Elements
    <2>3. \A i, j \in 1 .. n : i < j => f[i] # f[j] BY <1>1, <1>2, <2>1, <2>2
    <2> QED BY <1>1, <1>3, <2>3, Distinct
  <1> QED BY <1>3, <1>4, <1>5 DEF f

(* The search of vListInsert finds a place.                                 *)
LEMMA PositionFacts ==
    ASSUME NEW S, NEW s \in Seq(S), NEW x \in S, NEW key \in [S -> Int]
    PROVE  LET p == InsertPosition(s, x, key)
           IN /\ p \in 1 .. Len(s) + 1
              /\ p <= Len(s) => key[s[p]] > key[x]
              /\ \A j \in 1 .. p - 1 : key[s[j]] <= key[x]
  <1> DEFINE Larger == {i \in 1 .. Len(s) : key[s[i]] > key[x]}
             Good(i) == /\ i <= Len(s) => key[s[i]] > key[x]
                        /\ \A j \in 1 .. i - 1 : key[s[j]] <= key[x]
  <1>1. Len(s) \in Nat /\ \A i \in 1 .. Len(s) : s[i] \in S BY ElementsOf
  <1>2. \E i \in 1 .. Len(s) + 1 : Good(i)
    <2>1. CASE Larger = {}
      <3>1. Good(Len(s) + 1) BY <1>1, <2>1
      <3> QED BY SMTT(40), <1>1, <3>1
    <2>2. CASE Larger # {}
      <3>1. Larger \subseteq Nat BY <1>1
      <3> HIDE DEF Larger
      <3>2. PICK i \in Larger : \A y \in Larger : ~ (<<y, i>> \in OpToRel(<, Nat))
            BY <2>2, <3>1, NatLessThanWellFounded, WFMin, Zenon
      <3>3. \A y \in Larger : i <= y
        <4> TAKE y \in Larger
        <4>1. <<y, i>>[1] = y /\ <<y, i>>[2] = i /\ <<y, i>> \in Nat \X Nat BY <3>1
        <4>2. ~ (y < i) BY <3>2, <4>1, Zenon DEF OpToRel
        <4> QED BY <3>1, <4>2
      <3>4. Good(i) BY <1>1, <3>3 DEF Larger
      <3> QED BY <1>1, <3>4 DEF Larger
    <2> QED BY <2>1, <2>2
  <1>3. Good(InsertPosition(s, x, key)) /\ InsertPosition(s, x, key) \in 1 .. Len(s) + 1
        BY <1>2 DEF InsertPosition
  <1> QED BY <1>3

(* vListInsert adds one element and keeps the order.                        *)
LEMMA InsertInOrderFacts ==
    ASSUME NEW S, NEW s \in Seq(S), NEW x \in S, NEW key \in [S -> Int]
    PROVE  /\ InsertInOrder(s, x, key) \in Seq(S)
           /\ Len(InsertInOrder(s, x, key)) = Len(s) + 1
           /\ Elements(InsertInOrder(s, x, key)) = Elements(s) \cup {x}
           /\ NoDuplicates(s) /\ x \notin Elements(s) => NoDuplicates(InsertInOrder(s, x, key))
           /\ InOrder(s, key) => InOrder(InsertInOrder(s, x, key), key)
           /\ InsertInOrder(s, x, key)[1] = x
              \/ (s # << >> /\ InsertInOrder(s, x, key)[1] = s[1])
  <1> DEFINE n == Len(s) + 1
             p == InsertPosition(s, x, key)
             f == InsertInOrder(s, x, key)
  <1>1. Len(s) \in Nat /\ n \in Nat /\ \A i \in 1 .. Len(s) : s[i] \in S BY ElementsOf
  <1>2. /\ p \in 1 .. n
        /\ p <= Len(s) => key[s[p]] > key[x]
        /\ \A j \in 1 .. p - 1 : key[s[j]] <= key[x]
        BY PositionFacts
  <1>3. f = [i \in 1 .. Len(s) + 1 |-> IF i < p THEN s[i]
                                  ELSE IF i = p THEN x ELSE s[i - 1]]
        BY DEF InsertInOrder
  <1> HIDE DEF f, p
  <1>4. /\ f \in [1 .. n -> S]
        /\ \A i \in 1 .. n : f[i] = IF i < p THEN s[i] ELSE IF i = p THEN x ELSE s[i - 1]
        BY <1>1, <1>2, <1>3
  <1>5. f \in Seq(S) /\ Len(f) = n BY <1>1, <1>4, FunctionIsSequence
  <1>6. Elements(f) = Elements(s) \cup {x}
    <2>1. \A i \in 1 .. n : f[i] \in Elements(s) \cup {x}
      <3> TAKE i \in 1 .. n
      <3>1. CASE i < p
        <4>1. i \in 1 .. Len(s) /\ f[i] = s[i] BY <1>1, <1>2, <1>4, <3>1
        <4> QED BY <4>1 DEF Elements
      <3>2. CASE i = p BY <1>4, <3>2
      <3>3. CASE i > p
        <4>1. i - 1 \in 1 .. Len(s) /\ f[i] = s[i - 1] BY <1>1, <1>2, <1>4, <3>3
        <4> QED BY <4>1 DEF Elements
      <3> QED BY <1>2, <3>1, <3>2, <3>3
    <2>2. \A i \in 1 .. Len(s) : \E j \in 1 .. n : f[j] = s[i]
      <3> TAKE i \in 1 .. Len(s)
      <3>1. CASE i < p
        <4>1. i \in 1 .. n /\ f[i] = s[i] BY <1>1, <1>2, <1>4, <3>1
        <4> QED BY <4>1
      <3>2. CASE i >= p
        <4>1. i + 1 \in 1 .. n /\ f[i + 1] = s[i] BY <1>1, <1>2, <1>4, <3>2
        <4> QED BY <4>1
      <3> QED BY <1>1, <1>2, <3>1, <3>2
    <2>3. \E j \in 1 .. n : f[j] = x
      <3>1. f[p] = x BY <1>2, <1>4
      <3> QED BY <1>2, <3>1
    <2> HIDE DEF n
    <2> QED BY ZenonT(60), <1>5, <2>1, <2>2, <2>3 DEF Elements
  <1>7. ASSUME NoDuplicates(s), x \notin Elements(s) PROVE NoDuplicates(f)
    <2>1. \A i, j \in 1 .. Len(s) : i < j => s[i] # s[j] BY <1>1, <1>7, Distinct
    <2>2. \A i \in 1 .. Len(s) : s[i] # x BY <1>7 DEF Elements
    <2>3. \A i, j \in 1 .. n : i < j => f[i] # f[j]
      <3> SUFFICES ASSUME NEW i \in 1 .. n, NEW j \in 1 .. n, i < j PROVE f[i] # f[j]
          OBVIOUS
      <3>1. CASE j < p BY <1>1, <1>2, <1>4, <2>1, <3>1
      <3>2. CASE j = p
        <4>1. f[j] = x /\ f[i] = s[i] /\ i \in 1 .. Len(s) BY <1>1, <1>2, <1>4, <3>2
        <4> QED BY <2>2, <4>1
      <3>3. CASE j > p
        <4>1. f[j] = s[j - 1] /\ j - 1 \in 1 .. Len(s) BY <1>1, <1>2, <1>4, <3>3
        <4>2. CASE i < p
          <5>1. f[i] = s[i] /\ i \in 1 .. Len(s) /\ i < j - 1 BY <1>1, <1>2, <1>4, <3>3, <4>2
          <5> QED BY <2>1, <4>1, <5>1
        <4>3. CASE i = p BY <1>4, <2>2, <4>1, <4>3
        <4>4. CASE i > p
          <5>1. f[i] = s[i - 1] /\ i - 1 \in 1 .. Len(s) /\ i - 1 < j - 1
                BY <1>1, <1>2, <1>4, <4>4
          <5> QED BY <2>1, <4>1, <5>1
        <4> QED BY <1>2, <4>2, <4>3, <4>4
      <3> QED BY <1>2, <3>1, <3>2, <3>3
    <2> QED BY <1>1, <1>5, <2>3, Distinct
  <1>8. ASSUME InOrder(s, key) PROVE InOrder(f, key)
    <2>1. \A i, j \in 1 .. Len(s) : i < j => key[s[i]] <= key[s[j]] BY <1>8 DEF InOrder
    <2>2. \A i \in 1 .. Len(s) : key[s[i]] \in Int BY <1>1
    <2>3. \A i \in 1 .. Len(s) : i >= p => key[x] <= key[s[i]]
      <3> TAKE i \in 1 .. Len(s)
      <3> HAVE i >= p
      <3>1. p \in 1 .. Len(s) /\ key[s[p]] > key[x] BY <1>1, <1>2
      <3>2. key[s[p]] <= key[s[i]] BY <1>1, <2>1, <2>2, <3>1
      <3> QED BY <2>2, <3>1, <3>2
    <2>4. SUFFICES ASSUME NEW i \in 1 .. n, NEW j \in 1 .. n, i < j
                   PROVE  key[f[i]] <= key[f[j]]
          BY <1>5 DEF InOrder
    <2>5. CASE j < p BY SMTT(40), <1>1, <1>2, <1>4, <2>1, <2>4, <2>5
    <2>6. CASE j = p BY <1>1, <1>2, <1>4, <2>4, <2>6
    <2>7. CASE i = p
      <3>1. f[i] = x /\ f[j] = s[j - 1] /\ j - 1 \in 1 .. Len(s) /\ j - 1 >= p
            BY <1>1, <1>2, <1>4, <2>4, <2>7
      <3> QED BY <2>3, <3>1
    <2>8. CASE i < p /\ p < j
      <3>1. f[i] = s[i] /\ f[j] = s[j - 1] /\ i \in 1 .. Len(s) /\ j - 1 \in 1 .. Len(s)
            BY <1>1, <1>2, <1>4, <2>8
      <3>2. i <= j - 1 BY <2>4
      <3>3. CASE i = j - 1 BY <2>2, <3>1, <3>3
      <3>4. CASE i < j - 1 BY <2>1, <3>1, <3>4
      <3> QED BY <3>2, <3>3, <3>4
    <2>9. CASE p < i
      <3>1. /\ f[i] = s[i - 1] /\ f[j] = s[j - 1]
            /\ i - 1 \in 1 .. Len(s) /\ j - 1 \in 1 .. Len(s) /\ i - 1 < j - 1
            BY <1>1, <1>2, <1>4, <2>4, <2>9
      <3> QED BY <2>1, <3>1
    <2> QED BY <1>2, <2>5, <2>6, <2>7, <2>8, <2>9
  <1>9. f[1] = x \/ (s # << >> /\ f[1] = s[1])
    <2>1. CASE p = 1
      <3>1. 1 \in 1 .. n BY <1>1
      <3> QED BY <1>1, <1>2, <1>4, <2>1, <3>1
    <2>2. CASE p # 1
      <3>1. p > 1 /\ Len(s) # 0 /\ f[1] = s[1] BY <1>1, <1>2, <1>4, <2>2
      <3> QED BY <3>1, ElementsOf
    <2> QED BY <2>1, <2>2
  <1> QED BY <1>5, <1>6, <1>7, <1>8, <1>9 DEF f

(* uxListRemove.                                                            *)
LEMMA WithoutFacts ==
    ASSUME NEW S, NEW s \in Seq(S), NoDuplicates(s), NEW x \in Elements(s)
    PROVE  /\ Without(s, x) \in Seq(S)
           /\ Len(Without(s, x)) = Len(s) - 1
           /\ Elements(Without(s, x)) = Elements(s) \ {x}
           /\ NoDuplicates(Without(s, x))
           /\ \A key \in [S -> Int] : InOrder(s, key) => InOrder(Without(s, x), key)
  <1> DEFINE n == Len(s) - 1
             p == IndexOf(s, x)
             f == Without(s, x)
  <1>1. /\ Len(s) \in Nat \ {0} /\ n \in Nat /\ \A i \in 1 .. Len(s) : s[i] \in S
        /\ \E i \in 1 .. Len(s) : s[i] = x
        BY ElementsOf
  <1>2. p \in 1 .. Len(s) /\ s[p] = x BY <1>1 DEF IndexOf
  <1>3. f = [i \in 1 .. Len(s) - 1 |-> IF i < p THEN s[i] ELSE s[i + 1]] BY DEF Without
  <1> HIDE DEF f, p
  <1>4. f \in [1 .. n -> S] /\ \A i \in 1 .. n : f[i] = IF i < p THEN s[i] ELSE s[i + 1]
        BY <1>1, <1>2, <1>3
  <1>5. f \in Seq(S) /\ Len(f) = n BY <1>1, <1>4, FunctionIsSequence
  <1>6. \A i, j \in 1 .. Len(s) : i < j => s[i] # s[j] BY <1>1, Distinct
  <1>7. Elements(f) = Elements(s) \ {x}
    <2>1. \A i \in 1 .. n : f[i] \in Elements(s) /\ f[i] # x
      <3> TAKE i \in 1 .. n
      <3>1. CASE i < p BY <1>1, <1>2, <1>4, <1>6, <3>1 DEF Elements
      <3>2. CASE i >= p
        <4>1. i + 1 \in 1 .. Len(s) /\ f[i] = s[i + 1] /\ p < i + 1
              BY <1>1, <1>2, <1>4, <3>2
        <4> QED BY <1>2, <1>6, <4>1 DEF Elements
      <3> QED BY <1>2, <3>1, <3>2
    <2>2. \A i \in 1 .. Len(s) : s[i] # x => \E j \in 1 .. n : f[j] = s[i]
      <3> TAKE i \in 1 .. Len(s)
      <3> HAVE s[i] # x
      <3>1. CASE i < p BY <1>1, <1>2, <1>4, <3>1
      <3>2. CASE i > p
        <4>1. i - 1 \in 1 .. n /\ f[i - 1] = s[i] BY <1>1, <1>2, <1>4, <3>2
        <4> QED BY <4>1
      <3> QED BY <1>2, <3>1, <3>2
    <2>3. Elements(f) \subseteq Elements(s) \ {x} BY <1>5, <2>1 DEF Elements
    <2>4. \A y \in Elements(s) \ {x} : \E j \in 1 .. n : f[j] = y
          BY <2>2 DEF Elements
    <2>5. Elements(s) \ {x} \subseteq Elements(f) BY <1>5, <2>4 DEF Elements
    <2> QED BY <2>3, <2>5
  <1>8. NoDuplicates(f)
    <2>1. \A i, j \in 1 .. n : i < j => f[i] # f[j] BY <1>1, <1>2, <1>4, <1>6
    <2> QED BY <1>1, <1>5, <2>1, Distinct
  <1>9. ASSUME NEW key \in [S -> Int], InOrder(s, key) PROVE InOrder(f, key)
    <2>1. \A i, j \in 1 .. Len(s) : i < j => key[s[i]] <= key[s[j]] BY <1>9 DEF InOrder
    <2>3. ASSUME NEW i \in 1 .. n, NEW j \in 1 .. n, i < j PROVE key[f[i]] <= key[f[j]]
      <3>1. CASE j < p
        <4>1. i < p BY <1>1, <1>2, <2>3, <3>1
        <4>2. f[i] = s[i] /\ f[j] = s[j] /\ i \in 1 .. Len(s) /\ j \in 1 .. Len(s)
              BY <1>1, <1>2, <1>4, <3>1, <4>1
        <4> QED BY <2>1, <2>3, <4>2
      <3>2. CASE ~(j < p) /\ i < p
        <4>1. /\ f[i] = s[i] /\ f[j] = s[j + 1] /\ i < j + 1
              /\ i \in 1 .. Len(s) /\ j + 1 \in 1 .. Len(s)
              BY <1>1, <1>2, <1>4, <2>3, <3>2
        <4> QED BY <2>1, <4>1
      <3>3. CASE ~(j < p) /\ ~(i < p)
        <4>1. /\ f[i] = s[i + 1] /\ f[j] = s[j + 1] /\ i + 1 < j + 1
              /\ i + 1 \in 1 .. Len(s) /\ j + 1 \in 1 .. Len(s)
              BY <1>1, <1>2, <1>4, <2>3, <3>3
        <4> QED BY <2>1, <4>1
      <3> QED BY <3>1, <3>2, <3>3
    <2> QED BY <1>5, <2>3 DEF InOrder
  <1> QED BY <1>5, <1>7, <1>8, <1>9 DEF f

(* Removal of the first element.                                            *)
LEMMA TailOfList ==
    ASSUME NEW S, NEW s \in Seq(S), NoDuplicates(s), s # << >>
    PROVE  /\ Tail(s) \in Seq(S)
           /\ s[1] \in Elements(s)
           /\ Elements(Tail(s)) = Elements(s) \ {s[1]}
           /\ NoDuplicates(Tail(s))
           /\ \A key \in [S -> Int] : InOrder(s, key) => InOrder(Tail(s), key)
  <1> DEFINE f == Tail(s)
  <1>1. Len(s) \in Nat \ {0} /\ s[1] \in Elements(s) BY ElementsOf
  <1>2. /\ f \in Seq(S) /\ Len(f) = Len(s) - 1
        /\ \A i \in 1 .. Len(s) - 1 : f[i] = s[i + 1]
        BY <1>1, HeadTailProperties
  <1> HIDE DEF f
  <1>3. \A i, j \in 1 .. Len(s) : i < j => s[i] # s[j] BY <1>1, Distinct
  <1>4. Elements(f) = Elements(s) \ {s[1]}
    <2>1. \A i \in 1 .. Len(s) - 1 : f[i] \in Elements(s) /\ f[i] # s[1]
      <3> TAKE i \in 1 .. Len(s) - 1
      <3>1. i + 1 \in 1 .. Len(s) /\ 1 \in 1 .. Len(s) /\ 1 < i + 1 BY <1>1
      <3> QED BY <1>2, <1>3, <3>1 DEF Elements
    <2>2. \A i \in 1 .. Len(s) : s[i] # s[1] => \E j \in 1 .. Len(s) - 1 : f[j] = s[i]
      <3> TAKE i \in 1 .. Len(s)
      <3> HAVE s[i] # s[1]
      <3>1. i - 1 \in 1 .. Len(s) - 1 /\ f[i - 1] = s[i] BY <1>1, <1>2
      <3> QED BY <3>1
    <2>3. Elements(f) \subseteq Elements(s) \ {s[1]} BY <1>2, <2>1 DEF Elements
    <2>4. \A y \in Elements(s) \ {s[1]} : \E j \in 1 .. Len(s) - 1 : f[j] = y
          BY <2>2 DEF Elements
    <2>5. Elements(s) \ {s[1]} \subseteq Elements(f) BY <1>2, <2>4 DEF Elements
    <2> QED BY <2>3, <2>5
  <1>5. NoDuplicates(f)
    <2>1. \A i, j \in 1 .. Len(f) : i < j => f[i] # f[j] BY <1>1, <1>2, <1>3
    <2> QED BY SMTT(40), <1>1, <1>2, <2>1, Distinct
  <1>6. ASSUME NEW key \in [S -> Int], InOrder(s, key) PROVE InOrder(f, key)
    <2>1. \A i, j \in 1 .. Len(s) : i < j => key[s[i]] <= key[s[j]] BY <1>6 DEF InOrder
    <2>2. ASSUME NEW i \in 1 .. Len(f), NEW j \in 1 .. Len(f), i < j
          PROVE  key[f[i]] <= key[f[j]]
      <3>1. /\ f[i] = s[i + 1] /\ f[j] = s[j + 1] /\ i + 1 < j + 1
            /\ i + 1 \in 1 .. Len(s) /\ j + 1 \in 1 .. Len(s)
            BY <1>1, <1>2, <2>2
      <3> QED BY <2>1, <3>1
    <2> QED BY <2>2 DEF InOrder
  <1> QED BY <1>1, <1>2, <1>4, <1>5, <1>6 DEF f

(* Insertion behind the last element.                                       *)
LEMMA AppendToList ==
    ASSUME NEW S, NEW s \in Seq(S), NEW x \in S
    PROVE  /\ Append(s, x) \in Seq(S)
           /\ Elements(Append(s, x)) = Elements(s) \cup {x}
           /\ NoDuplicates(s) /\ x \notin Elements(s) => NoDuplicates(Append(s, x))
  <1> DEFINE f == Append(s, x)
  <1>1. Len(s) \in Nat BY ElementsOf
  <1>2. /\ f \in Seq(S) /\ Len(f) = Len(s) + 1
        /\ \A i \in 1 .. Len(s) : f[i] = s[i]
        /\ f[Len(s) + 1] = x
        BY <1>1
  <1> HIDE DEF f
  <1>3. Elements(f) = Elements(s) \cup {x}
    <2>1. \A i \in 1 .. Len(s) + 1 : f[i] \in Elements(s) \cup {x}
          BY <1>1, <1>2 DEF Elements
    <2>2. \A i \in 1 .. Len(s) : i \in 1 .. Len(s) + 1 BY <1>1
    <2>3. Len(s) + 1 \in 1 .. Len(s) + 1 BY <1>1
    <2> QED BY <1>2, <2>1, <2>2, <2>3 DEF Elements
  <1>4. ASSUME NoDuplicates(s), x \notin Elements(s) PROVE NoDuplicates(f)
    <2>1. \A i, j \in 1 .. Len(s) : i < j => s[i] # s[j] BY <1>1, <1>4, Distinct
    <2>2. \A i \in 1 .. Len(s) : s[i] # x BY <1>4 DEF Elements
    <2>3. \A i, j \in 1 .. Len(f) : i < j => f[i] # f[j] BY <1>1, <1>2, <2>1, <2>2
    <2> QED BY <1>1, <1>2, <2>3, Distinct
  <1> QED BY <1>2, <1>3, <1>4 DEF f

(* One turn of a ring.                                                      *)
LEMMA RotateFacts ==
    ASSUME NEW S, NEW s \in Seq(S), NoDuplicates(s), s # << >>
    PROVE  /\ Rotate(s) \in Seq(S)
           /\ Len(Rotate(s)) = Len(s)
           /\ Elements(Rotate(s)) = Elements(s)
           /\ NoDuplicates(Rotate(s))
           /\ Rotate(s)[Len(s)] = s[1]
           /\ Len(s) > 1 => Rotate(s)[1] = s[2]
  <1> DEFINE n == Len(s)
             f == Rotate(s)
  <1>1. n \in Nat \ {0} /\ \A i \in 1 .. n : s[i] \in S BY ElementsOf
  <1>2. f = [i \in 1 .. n |-> IF i < n THEN s[i + 1] ELSE s[1]] BY DEF Rotate
  <1> HIDE DEF f, n
  <1>3. f \in [1 .. n -> S] /\ \A i \in 1 .. n : f[i] = IF i < n THEN s[i + 1] ELSE s[1]
        BY <1>1, <1>2
  <1>4. f \in Seq(S) /\ Len(f) = n BY <1>1, <1>3, FunctionIsSequence
  <1>5. \A i, j \in 1 .. n : i < j => s[i] # s[j] BY <1>1, Distinct DEF n
  <1>6. Elements(f) = Elements(s)
    <2>1. \A i \in 1 .. n : \E j \in 1 .. n : f[i] = s[j]
      <3> TAKE i \in 1 .. n
      <3>1. CASE i < n
        <4>1. i + 1 \in 1 .. n /\ f[i] = s[i + 1] BY <1>1, <1>3, <3>1
        <4> QED BY <4>1
      <3>2. CASE i = n BY <1>1, <1>3, <3>2
      <3> QED BY <1>1, <3>1, <3>2
    <2>2. \A i \in 1 .. n : \E j \in 1 .. n : f[j] = s[i]
      <3> TAKE i \in 1 .. n
      <3>1. CASE i > 1
        <4>1. i - 1 \in 1 .. n /\ f[i - 1] = s[i] BY <1>1, <1>3, <3>1
        <4> QED BY <4>1
      <3>2. CASE i = 1 BY <1>1, <1>3, <3>2
      <3> QED BY <1>1, <3>1, <3>2
    <2>3. Elements(f) \subseteq Elements(s) BY <1>4, <2>1 DEF Elements, n
    <2>4. Elements(s) \subseteq Elements(f) BY <1>4, <2>2 DEF Elements, n
    <2> QED BY <2>3, <2>4
  <1>7. NoDuplicates(f)
    <2>1. \A i, j \in 1 .. n : i < j => f[i] # f[j] BY <1>1, <1>3, <1>5
    <2> QED BY <1>1, <1>4, <2>1, Distinct
  <1>8. f[n] = s[1] /\ (n > 1 => f[1] = s[2]) BY <1>1, <1>3
  <1> QED BY <1>4, <1>6, <1>7, <1>8 DEF f, n

(* The round robin takes an item and not the marker.                        *)
LEMMA NextRoundFacts ==
    ASSUME NEW S, NEW s \in Seq(S), NoDuplicates(s), NEW marker, Len(s) > 1
    PROVE  LET r == NextRound(s, marker)
           IN /\ r \in Seq(S) /\ Len(r) = Len(s)
              /\ Elements(r) = Elements(s) /\ NoDuplicates(r)
              /\ r[Len(r)] \in Elements(s) \ {marker}
  <1> DEFINE a == Rotate(s)
             b == Rotate(a)
  <1>1. Len(s) \in Nat /\ s # << >> /\ s[1] \in Elements(s) /\ s[2] \in Elements(s)
        BY ElementsOf
  <1>2. /\ a \in Seq(S) /\ Len(a) = Len(s) /\ Elements(a) = Elements(s) /\ NoDuplicates(a)
        /\ a[Len(s)] = s[1] /\ a[1] = s[2]
        BY <1>1, RotateFacts
  <1> HIDE DEF a
  <1>3. a # << >> BY <1>1, <1>2, ElementsOf
  <1>4. /\ b \in Seq(S) /\ Len(b) = Len(s) /\ Elements(b) = Elements(s) /\ NoDuplicates(b)
        /\ b[Len(s)] = s[2]
        BY <1>2, <1>3, RotateFacts
  <1> HIDE DEF b
  <1>5. s[1] # s[2] BY <1>1, Distinct
  <1>6. NextRound(s, marker) = IF s[1] = marker THEN b ELSE a BY DEF NextRound, a, b
  <1> QED BY <1>1, <1>2, <1>4, <1>5, <1>6
-----------------------------------------------------------------------------
LookIsInTime ==
    \A t \in Elements(pxDelayedTaskList) : xNextTaskUnblockTime <= xStateItemValue[t]

ReadyIsRecorded ==
    /\ \A t \in Task : Ready(t) => uxPriority[t] <= uxTopReadyPriority
    /\ xSchedulerRunning => Ready(IdleTask)

KInv ==
    /\ TypeOK
    /\ SectionsAreInStep
    /\ StateListsAreExclusive
    /\ EventListsAreExclusive
    /\ WakeTimesAreAhead
    /\ LookIsInTime
    /\ ReadyIsRecorded
    /\ PrioritiesComeBack

(* Lists of tasks, and the ready lists with their end markers.              *)
IsTaskList(s) == s \in Seq(Task) /\ NoDuplicates(s)
IsReadyLists(l) ==
    /\ l \in [Priority -> Seq(Task \cup {xListEnd})]
    /\ \A p \in Priority : NoDuplicates(l[p]) /\ xListEnd \in Elements(l[p])

(* The loops of the tick and of xTaskResumeAll, and their locals.           *)
Section == [at : {"none", "tick", "pending", "ticks", "resumeTick"},
            xSwitchRequired : BOOLEAN, moved : BOOLEAN, left : 0 .. MaxPendedTicks]

(* The bounds are natural numbers.                                          *)
LEMMA Bounds ==
    MaxPendedTicks \in Nat /\ MaxSuspended \in Nat /\ MaxCritical \in Nat /\ MaxMutexesHeld \in Nat
  BY KernelAssumption

(* No loop runs in NoSection.                                               *)
LEMMA SectionFacts == NoSection \in Section /\ NoSection.at = "none"
  BY Bounds DEF NoSection, Section

(* What KInv says of the lists.                                             *)
LEMMA ListFacts ==
    ASSUME KInv
    PROVE  /\ IsReadyLists(pxReadyTasksLists)
           /\ IsTaskList(pxDelayedTaskList) /\ IsTaskList(pxOverflowDelayedTaskList)
           /\ IsTaskList(xPendingReadyList)
           /\ \A e \in EventList : IsTaskList(xEventLists[e])
           /\ xStateItemValue \in [Task -> Int]
           /\ uxPriority \in [Task -> Priority]
  <1>1. IsReadyLists(pxReadyTasksLists)
        BY DEF KInv, TypeOK, StateListsAreExclusive, IsReadyLists
  <1>2. IsTaskList(pxDelayedTaskList) /\ IsTaskList(pxOverflowDelayedTaskList)
        BY DEF KInv, TypeOK, StateListsAreExclusive, IsTaskList
  <1>3. IsTaskList(xPendingReadyList) /\ \A e \in EventList : IsTaskList(xEventLists[e])
        BY DEF KInv, TypeOK, EventListsAreExclusive, IsTaskList
  <1>4. xStateItemValue \in [Task -> Int] /\ uxPriority \in [Task -> Priority]
    <2>1. xStateItemValue \in [Task -> TickType] /\ uxPriority \in [Task -> Priority]
          BY DEF KInv, TypeOK
    <2>2. TickType \subseteq Int BY KernelAssumption DEF TickType
    <2> QED BY <2>1, <2>2
  <1> QED BY <1>1, <1>2, <1>3, <1>4

(* prvAddTaskToReadyList and uxListRemove, on the ready lists.              *)
LEMMA AddToReadyFacts ==
    ASSUME NEW l, IsReadyLists(l), NEW t \in Task, NEW p \in Priority, t \notin Elements(l[p])
    PROVE  /\ IsReadyLists(AddToReady(l, t, p))
           /\ \A q \in Priority : Elements(AddToReady(l, t, p)[q]) =
                  IF q = p THEN Elements(l[q]) \cup {t} ELSE Elements(l[q])
  <1> DEFINE S == Task \cup {xListEnd}
             m == AddToReady(l, t, p)
  <1>1. l \in [Priority -> Seq(S)] /\ NoDuplicates(l[p]) /\ xListEnd \in Elements(l[p])
        BY DEF IsReadyLists
  <1>2. l[p] \in Seq(S) /\ t \in S BY <1>1
  <1> HIDE DEF S
  <1>3. l[p] # << >> BY <1>1, <1>2, ElementsOf
  <1>4. /\ InsertEnd(l[p], t) \in Seq(S)
        /\ Elements(InsertEnd(l[p], t)) = Elements(l[p]) \cup {t}
        /\ NoDuplicates(InsertEnd(l[p], t))
        BY <1>1, <1>2, <1>3, InsertEndFacts
  <1>5. /\ m \in [Priority -> Seq(S)]
        /\ \A q \in Priority : m[q] = IF q = p THEN InsertEnd(l[p], t) ELSE l[q]
        BY <1>1, <1>4 DEF AddToReady
  <1> HIDE DEF m
  <1>6. \A q \in Priority : Elements(m[q]) = IF q = p THEN Elements(l[q]) \cup {t} ELSE Elements(l[q])
        BY <1>4, <1>5
  <1>7. IsReadyLists(m) BY <1>4, <1>5, <1>6 DEF IsReadyLists, S
  <1> QED BY <1>6, <1>7 DEF m

(* uxListRemove takes a task out of one ready list.                         *)
LEMMA TakeFromReadyFacts ==
    ASSUME NEW l, IsReadyLists(l), NEW t \in Task, NEW p \in Priority, t \in Elements(l[p])
    PROVE  /\ IsReadyLists([l EXCEPT ![p] = Without(@, t)])
           /\ \A q \in Priority : Elements([l EXCEPT ![p] = Without(@, t)][q]) =
                  IF q = p THEN Elements(l[q]) \ {t} ELSE Elements(l[q])
  <1> DEFINE S == Task \cup {xListEnd}
             m == [l EXCEPT ![p] = Without(@, t)]
  <1>1. /\ l \in [Priority -> Seq(S)] /\ NoDuplicates(l[p]) /\ xListEnd \in Elements(l[p])
        /\ l[p] \in Seq(S) /\ t # xListEnd
        BY KernelAssumption DEF IsReadyLists
  <1>2. /\ Without(l[p], t) \in Seq(S)
        /\ Elements(Without(l[p], t)) = Elements(l[p]) \ {t}
        /\ NoDuplicates(Without(l[p], t))
        BY <1>1, WithoutFacts
  <1>3. /\ m \in [Priority -> Seq(S)]
        /\ \A q \in Priority : m[q] = IF q = p THEN Without(l[p], t) ELSE l[q]
        BY <1>1, <1>2
  <1> HIDE DEF m
  <1>4. \A q \in Priority : Elements(m[q]) = IF q = p THEN Elements(l[q]) \ {t} ELSE Elements(l[q])
        BY <1>2, <1>3
  <1>5. IsReadyLists(m) BY <1>1, <1>2, <1>3, <1>4 DEF IsReadyLists
  <1> QED BY <1>4, <1>5 DEF m

(* uxListRemove of an item that may be in a list of tasks.                  *)
LEMMA RemovedFacts ==
    ASSUME NEW s, IsTaskList(s), NEW t
    PROVE  /\ IsTaskList(Removed(s, t))
           /\ Elements(Removed(s, t)) = Elements(s) \ {t}
           /\ \A key \in [Task -> Int] : InOrder(s, key) => InOrder(Removed(s, t), key)
  <1>1. CASE t \in Elements(s) BY <1>1, WithoutFacts DEF Removed, IsTaskList
  <1>2. CASE t \notin Elements(s) BY <1>2 DEF Removed
  <1> QED BY <1>1, <1>2

(* The head of a list of tasks is taken off.                                *)
LEMMA TailIsTaskList ==
    ASSUME NEW s, IsTaskList(s), s # << >>
    PROVE  /\ s[1] \in Task /\ s[1] \in Elements(s)
           /\ IsTaskList(Tail(s)) /\ Elements(Tail(s)) = Elements(s) \ {s[1]}
           /\ \A key \in [Task -> Int] : InOrder(s, key) => InOrder(Tail(s), key)
  <1>1. s \in Seq(Task) /\ NoDuplicates(s) BY DEF IsTaskList
  <1>2. s[1] \in Elements(s) /\ Elements(s) \subseteq Task BY <1>1, ElementsOf, TailOfList
  <1> QED BY <1>1, <1>2, TailOfList DEF IsTaskList

(* prvResetNextTaskUnblockTime finds the first wake time.                   *)
LEMMA HeadIsFirst ==
    ASSUME KInv, NEW d, IsTaskList(d), InOrder(d, xStateItemValue)
    PROVE  /\ HeadWakeTime(d) \in TickType
           /\ \A t \in Elements(d) : HeadWakeTime(d) <= xStateItemValue[t]
           /\ d # << >> => d[1] \in Elements(d) /\ HeadWakeTime(d) = xStateItemValue[d[1]]
  <1>1. xStateItemValue \in [Task -> TickType] BY DEF KInv, TypeOK
  <1>2. /\ d \in Seq(Task) /\ Len(d) \in Nat
        /\ \A i \in 1 .. Len(d) : d[i] \in Task /\ d[i] \in Elements(d)
        /\ \A x \in Elements(d) : \E i \in 1 .. Len(d) : d[i] = x
        /\ d = << >> <=> Len(d) = 0
        /\ d = << >> <=> Elements(d) = {}
        BY ElementsOf DEF IsTaskList
  <1>3. portMAX_DELAY \in TickType BY KernelAssumption DEF portMAX_DELAY, TickType
  <1>4. CASE d = << >> BY <1>2, <1>3, <1>4 DEF HeadWakeTime
  <1>5. CASE d # << >>
    <2>1. /\ HeadWakeTime(d) = xStateItemValue[d[1]] /\ 1 \in 1 .. Len(d)
          /\ d[1] \in Task /\ d[1] \in Elements(d)
          BY <1>2, <1>5 DEF HeadWakeTime
    <2>2. ASSUME NEW t \in Elements(d) PROVE xStateItemValue[d[1]] <= xStateItemValue[t]
      <3>1. PICK i \in 1 .. Len(d) : d[i] = t BY <1>2
      <3>2. CASE i = 1
        <4>1. xStateItemValue[d[1]] \in Int BY <1>1, <2>1, KernelAssumption DEF TickType
        <4> QED BY <3>1, <3>2, <4>1
      <3>3. CASE i # 1
        <4>1. 1 < i BY <1>2, <3>3
        <4> QED BY <2>1, <3>1, <4>1 DEF InOrder
      <3> QED BY <3>2, <3>3
    <2> QED BY <1>1, <1>5, <2>1, <2>2
  <1> QED BY <1>4, <1>5

(* A ready list is longer than its marker when a task is in it.             *)
LEMMA NonEmptyMeans ==
    ASSUME NEW s \in Seq(Task \cup {xListEnd}), NoDuplicates(s), xListEnd \in Elements(s)
    PROVE  Len(s) > 1 <=> \E t \in Task : t \in Elements(s)
  <1>1. /\ Len(s) \in Nat
        /\ \A i \in 1 .. Len(s) : s[i] \in Task \cup {xListEnd} /\ s[i] \in Elements(s)
        /\ \A x \in Elements(s) : \E i \in 1 .. Len(s) : s[i] = x
        BY ElementsOf
  <1>2. \A i, j \in 1 .. Len(s) : i < j => s[i] # s[j] BY <1>1, Distinct
  <1>3. ASSUME Len(s) > 1 PROVE \E t \in Task : t \in Elements(s)
    <2>1. 1 \in 1 .. Len(s) /\ 2 \in 1 .. Len(s) BY <1>1, <1>3
    <2>2. s[1] # s[2] BY <1>2, <2>1
    <2>3. s[1] \in Task \/ s[2] \in Task BY <1>1, <2>1, <2>2
    <2> QED BY <1>1, <2>1, <2>3
  <1>4. ASSUME NEW t \in Task, t \in Elements(s) PROVE Len(s) > 1
    <2>1. PICK i \in 1 .. Len(s) : s[i] = t BY <1>1, <1>4
    <2>2. PICK j \in 1 .. Len(s) : s[j] = xListEnd BY <1>1
    <2>3. i # j BY <2>1, <2>2, KernelAssumption
    <2> QED BY <1>1, <2>3
  <1> QED BY <1>3, <1>4

(* The search of taskSELECT_HIGHEST_PRIORITY_TASK ends at the highest       *)
(* priority that has a ready task.                                          *)
LEMMA TopIsFound ==
    ASSUME KInv, Ready(IdleTask)
    PROVE  /\ TopPriority \in Priority
           /\ NonEmpty(TopPriority)
           /\ \A t \in Task : Ready(t) => uxPriority[t] <= TopPriority
  <1> DEFINE top == uxTopReadyPriority
             Steps == {k \in 0 .. top : NonEmpty(top - k)}
             Good(p) == NonEmpty(p) /\ \A q \in p + 1 .. top : ~NonEmpty(q)
  <1>1. top \in Priority /\ top \in Nat /\ 0 .. top \subseteq Priority
        BY KernelAssumption DEF KInv, TypeOK, Priority
  <1>2. \A p \in Priority : NonEmpty(p) <=> \E t \in Task : t \in Elements(pxReadyTasksLists[p])
        BY NonEmptyMeans DEF KInv, TypeOK, StateListsAreExclusive, NonEmpty
  <1>3. \A t \in Task : Ready(t) => NonEmpty(uxPriority[t]) /\ uxPriority[t] \in 0 .. top
        BY <1>1, <1>2 DEF KInv, TypeOK, Ready, ReadyIsRecorded, Priority
  <1> HIDE DEF top
  <1>4. Steps # {}
    <2>1. NonEmpty(uxPriority[IdleTask]) /\ uxPriority[IdleTask] \in 0 .. top
          BY <1>3, KernelAssumption
    <2>2. top - (top - uxPriority[IdleTask]) = uxPriority[IdleTask] BY <1>1, <2>1
    <2>3. top - uxPriority[IdleTask] \in 0 .. top BY <1>1, <2>1
    <2> QED BY <2>1, <2>2, <2>3
  <1>5. Steps \subseteq Nat BY <1>1
  <1> HIDE DEF Steps
  <1>6. PICK k \in Steps : \A y \in Steps : ~ (<<y, k>> \in OpToRel(<, Nat))
        BY <1>4, <1>5, NatLessThanWellFounded, WFMin, Zenon
  <1>7. \A y \in Steps : k <= y
    <2> TAKE y \in Steps
    <2>1. <<y, k>>[1] = y /\ <<y, k>>[2] = k /\ <<y, k>> \in Nat \X Nat BY <1>5
    <2>2. ~ (y < k) BY <1>6, <2>1, Zenon DEF OpToRel
    <2> QED BY <1>5, <2>2
  <1>8. top - k \in 0 .. top /\ Good(top - k)
    <2>1. k \in 0 .. top /\ NonEmpty(top - k) BY <1>6 DEF Steps
    <2>2. ASSUME NEW q \in top - k + 1 .. top, NonEmpty(q) PROVE FALSE
      <3>1. top - q \in 0 .. top /\ top - (top - q) = q /\ top - q < k BY <1>1, <2>1
      <3>2. top - q \in Steps BY <2>2, <3>1 DEF Steps
      <3> QED BY <1>5, <1>7, <3>1, <3>2
    <2> QED BY <1>1, <2>1, <2>2
  <1> HIDE DEF Good
  <1>9. TopPriority \in 0 .. top /\ Good(TopPriority)
    <2>1. TopPriority = CHOOSE p \in 0 .. top : Good(p) BY DEF TopPriority, Good, top
    <2> QED BY <1>8, <2>1
  <1>10. ASSUME NEW t \in Task, Ready(t) PROVE uxPriority[t] <= TopPriority
    <2>1. NonEmpty(uxPriority[t]) /\ uxPriority[t] \in 0 .. top BY <1>3, <1>10
    <2>2. uxPriority[t] \notin TopPriority + 1 .. top BY <1>9, <2>1 DEF Good
    <2> QED BY <1>1, <1>9, <2>1, <2>2
  <1> QED BY <1>1, <1>9, <1>10 DEF Good

(* vTaskSwitchContext turns one ready list and changes no list's elements.  *)
LEMMA SwitchFacts ==
    ASSUME KInv, Ready(IdleTask), vTaskSwitchContext
    PROVE  /\ IsReadyLists(pxReadyTasksLists')
           /\ \A q \in Priority : Elements(pxReadyTasksLists'[q]) = Elements(pxReadyTasksLists[q])
           /\ uxTopReadyPriority' \in Priority
           /\ \A t \in Task : Ready(t) => uxPriority[t] <= uxTopReadyPriority'
           /\ xYieldPending' \in BOOLEAN
           /\ IF uxSchedulerSuspended > 0 THEN pxCurrentTCB' = pxCurrentTCB
              ELSE /\ pxCurrentTCB' \in Task
                   /\ \E p \in Priority :
                         /\ pxCurrentTCB' \in Elements(pxReadyTasksLists[p])
                         /\ \A t \in Task : Ready(t) => uxPriority[t] <= p
  <1>1. IsReadyLists(pxReadyTasksLists) BY ListFacts
  <1>2. CASE uxSchedulerSuspended > 0
    <2>1. xYieldPending' = TRUE /\ UNCHANGED <<pxCurrentTCB, readyVars>>
          BY <1>2 DEF vTaskSwitchContext
    <2> QED BY <1>1, <1>2, <2>1 DEF readyVars, KInv, TypeOK, ReadyIsRecorded
  <1>3. CASE ~(uxSchedulerSuspended > 0)
    <2> DEFINE S == Task \cup {xListEnd}
               p == TopPriority
               s == pxReadyTasksLists[p]
               r == NextRound(s, xListEnd)
    <2>1. /\ p \in Priority /\ Len(s) > 1
          /\ \A t \in Task : Ready(t) => uxPriority[t] <= p
          BY TopIsFound DEF NonEmpty
    <2>2. /\ pxReadyTasksLists' = [pxReadyTasksLists EXCEPT ![p] = r]
          /\ pxCurrentTCB' = r[Len(r)] /\ uxTopReadyPriority' = p /\ xYieldPending' = FALSE
          BY <1>3 DEF vTaskSwitchContext, taskSELECT_HIGHEST_PRIORITY_TASK
    <2> HIDE DEF p
    <2>3. /\ pxReadyTasksLists \in [Priority -> Seq(S)]
          /\ s \in Seq(S) /\ NoDuplicates(s) /\ xListEnd \in Elements(s)
          BY <1>1, <2>1 DEF IsReadyLists
    <2> HIDE DEF s, S
    <2>4. /\ r \in Seq(S) /\ Elements(r) = Elements(s) /\ NoDuplicates(r)
          /\ r[Len(r)] \in Elements(s) \ {xListEnd}
          BY <2>1, <2>3, NextRoundFacts
    <2>5. r[Len(r)] \in Task BY <2>3, <2>4, ElementsOf DEF S
    <2> HIDE DEF r
    <2>6. /\ pxReadyTasksLists' \in [Priority -> Seq(S)]
          /\ \A q \in Priority : pxReadyTasksLists'[q] = IF q = p THEN r ELSE pxReadyTasksLists[q]
          BY <2>1, <2>2, <2>3, <2>4
    <2>7. \A q \in Priority : Elements(pxReadyTasksLists'[q]) = Elements(pxReadyTasksLists[q])
          BY <2>4, <2>6 DEF s
    <2>8. IsReadyLists(pxReadyTasksLists')
          BY <1>1, <2>4, <2>6, <2>7 DEF IsReadyLists, S
    <2>9. pxCurrentTCB' \in Elements(pxReadyTasksLists[p]) BY <2>2, <2>4 DEF s
    <2> QED BY <1>3, <2>1, <2>2, <2>5, <2>7, <2>8, <2>9
  <1> QED BY <1>2, <1>3
-----------------------------------------------------------------------------
(* A delayed task becomes ready: it leaves the delayed lists and gets into  *)
(* the ready list of its priority.                                          *)
LEMMA WakeFacts ==
    ASSUME KInv, NEW t \in Task, Delayed(t), prvAddTaskToReadyList(t),
           UNCHANGED <<uxPriority, xSchedulerRunning>>,
           IsTaskList(pxDelayedTaskList'), IsTaskList(pxOverflowDelayedTaskList'),
           Elements(pxDelayedTaskList') = Elements(pxDelayedTaskList) \ {t},
           Elements(pxOverflowDelayedTaskList') = Elements(pxOverflowDelayedTaskList) \ {t}
    PROVE  /\ IsReadyLists(pxReadyTasksLists') /\ uxTopReadyPriority' \in Priority
           /\ StateListsAreExclusive' /\ ReadyIsRecorded'
           /\ \A u : Delayed(u)' <=> Delayed(u) /\ u # t
           /\ \A u \in Task : Ready(u)' <=> Ready(u) \/ u = t
  <1> DEFINE p == uxPriority[t]
  <1>1. /\ IsReadyLists(pxReadyTasksLists) /\ uxPriority \in [Task -> Priority]
        /\ p \in Priority /\ uxTopReadyPriority \in Priority
        BY ListFacts DEF KInv, TypeOK
  <1>2. /\ pxReadyTasksLists' = AddToReady(pxReadyTasksLists, t, p)
        /\ uxTopReadyPriority' = Higher(p, uxTopReadyPriority)
        BY DEF prvAddTaskToReadyList, taskRECORD_READY_PRIORITY
  <1>3. \A q \in Priority : t \notin Elements(pxReadyTasksLists[q])
        BY DEF KInv, StateListsAreExclusive
  <1>4. /\ IsReadyLists(pxReadyTasksLists')
        /\ \A q \in Priority : Elements(pxReadyTasksLists'[q]) =
               IF q = p THEN Elements(pxReadyTasksLists[q]) \cup {t}
               ELSE Elements(pxReadyTasksLists[q])
    <2>1. t \notin Elements(pxReadyTasksLists[p]) BY <1>1, <1>3
    <2>2. /\ IsReadyLists(AddToReady(pxReadyTasksLists, t, p))
          /\ \A q \in Priority : Elements(AddToReady(pxReadyTasksLists, t, p)[q]) =
                 IF q = p THEN Elements(pxReadyTasksLists[q]) \cup {t}
                 ELSE Elements(pxReadyTasksLists[q])
      <3>1. IsReadyLists(pxReadyTasksLists) /\ p \in Priority BY <1>1
      <3> HIDE DEF p
      <3> QED BY <2>1, <3>1, AddToReadyFacts
    <2> QED BY <1>2, <2>2
  <1>5. \A u : Delayed(u)' <=> Delayed(u) /\ u # t BY DEF Delayed
  <1>6. \A u \in Task : Ready(u)' <=> Ready(u) \/ u = t BY <1>1, <1>4 DEF Ready
  <1>7. uxTopReadyPriority' \in Priority /\ uxTopReadyPriority <= uxTopReadyPriority'
        /\ p <= uxTopReadyPriority'
        BY <1>1, <1>2 DEF Higher, Priority
  <1>8. StateListsAreExclusive'
    <2>1. \A q \in Priority : \A u \in Task \cap Elements(pxReadyTasksLists'[q]) :
              uxPriority[u] = q /\ ~Delayed(u)'
      <3>1. \A q \in Priority : \A u \in Task \cap Elements(pxReadyTasksLists[q]) :
                uxPriority[u] = q /\ ~Delayed(u)
            BY DEF KInv, StateListsAreExclusive
      <3> TAKE q \in Priority
      <3> TAKE u \in Task \cap Elements(pxReadyTasksLists'[q])
      <3>2. CASE u = t
        <4>1. q = p BY <1>3, <1>4, <3>2
        <4> QED BY <1>5, <3>2, <4>1
      <3>3. CASE u # t
        <4>1. u \in Elements(pxReadyTasksLists[q]) BY <1>4, <3>3
        <4> QED BY <1>5, <3>1, <3>3, <4>1
      <3> QED BY <3>2, <3>3
    <2> QED BY <1>4, <2>1 DEF KInv, StateListsAreExclusive, IsReadyLists, IsTaskList
  <1>9. ReadyIsRecorded'
    <2>1. ASSUME NEW u \in Task, Ready(u)' PROVE uxPriority[u] <= uxTopReadyPriority'
      <3>1. CASE u = t BY <1>7, <3>1
      <3>2. CASE u # t
        <4>1. uxPriority[u] <= uxTopReadyPriority BY <1>6, <2>1, <3>2 DEF KInv, ReadyIsRecorded
        <4> QED BY <1>1, <1>7, <4>1 DEF Priority
      <3> QED BY <3>1, <3>2
    <2>2. xSchedulerRunning' => Ready(IdleTask)'
          BY <1>6, KernelAssumption DEF KInv, ReadyIsRecorded
    <2> QED BY <2>1, <2>2 DEF ReadyIsRecorded
  <1> QED BY <1>4, <1>5, <1>6, <1>7, <1>8, <1>9

(* A switch keeps the state lists in order.                                 *)
LEMMA SwitchKeepsLists ==
    ASSUME KInv, Ready(IdleTask), vTaskSwitchContext,
           UNCHANGED <<uxPriority, pxDelayedTaskList, pxOverflowDelayedTaskList>>
    PROVE  /\ IsReadyLists(pxReadyTasksLists') /\ uxTopReadyPriority' \in Priority
           /\ StateListsAreExclusive' /\ ReadyIsRecorded'
           /\ \A u \in Task : Ready(u)' <=> Ready(u)
           /\ \A u : Delayed(u)' <=> Delayed(u)
           /\ ~(uxSchedulerSuspended > 0) =>
                 /\ pxCurrentTCB' \in Task /\ Ready(pxCurrentTCB)'
                 /\ \A u \in Task : Ready(u) => uxPriority[u] <= uxPriority[pxCurrentTCB']
  <1>1. /\ IsReadyLists(pxReadyTasksLists')
        /\ \A q \in Priority : Elements(pxReadyTasksLists'[q]) = Elements(pxReadyTasksLists[q])
        /\ uxTopReadyPriority' \in Priority
        /\ \A t \in Task : Ready(t) => uxPriority[t] <= uxTopReadyPriority'
        BY SwitchFacts
  <1>2. uxPriority \in [Task -> Priority] BY ListFacts
  <1>3. \A u \in Task : Ready(u)' <=> Ready(u) BY <1>1, <1>2 DEF Ready
  <1>4. \A u : Delayed(u)' <=> Delayed(u) BY DEF Delayed
  <1>5. StateListsAreExclusive'
        BY <1>1, <1>4 DEF KInv, StateListsAreExclusive, IsReadyLists
  <1>6. ReadyIsRecorded' BY <1>1, <1>3, KernelAssumption DEF ReadyIsRecorded
  <1>7. ASSUME ~(uxSchedulerSuspended > 0)
        PROVE  /\ pxCurrentTCB' \in Task /\ Ready(pxCurrentTCB)'
               /\ \A u \in Task : Ready(u) => uxPriority[u] <= uxPriority[pxCurrentTCB']
    <2>1. /\ pxCurrentTCB' \in Task
          /\ \E p \in Priority : /\ pxCurrentTCB' \in Elements(pxReadyTasksLists[p])
                                 /\ \A t \in Task : Ready(t) => uxPriority[t] <= p
          BY <1>7, SwitchFacts
    <2>2. PICK p \in Priority : /\ pxCurrentTCB' \in Elements(pxReadyTasksLists[p])
                                /\ \A t \in Task : Ready(t) => uxPriority[t] <= p
          BY <2>1
    <2>3. uxPriority[pxCurrentTCB'] = p BY <2>1, <2>2 DEF KInv, StateListsAreExclusive
    <2>4. pxCurrentTCB' \in Elements(pxReadyTasksLists'[uxPriority'[pxCurrentTCB']])
          BY <1>1, <2>2, <2>3
    <2> QED BY <2>1, <2>2, <2>3, <2>4 DEF Ready
  <1> QED BY <1>1, <1>3, <1>4, <1>5, <1>6, <1>7

(* A new priority, in the ready list if the task is in one.                 *)
LEMMA SetPriorityKeepsLists ==
    ASSUME KInv, NEW t \in Task, NEW p \in Priority, SetPriority(t, p),
           UNCHANGED <<xSchedulerRunning, pxDelayedTaskList, pxOverflowDelayedTaskList>>
    PROVE  /\ IsReadyLists(pxReadyTasksLists') /\ uxTopReadyPriority' \in Priority
           /\ uxPriority' \in [Task -> Priority]
           /\ StateListsAreExclusive' /\ ReadyIsRecorded'
           /\ \A u \in Task : Ready(u)' <=> Ready(u)
           /\ \A u : Delayed(u)' <=> Delayed(u)
  <1> DEFINE q == uxPriority[t]
             l == [pxReadyTasksLists EXCEPT ![q] = Without(@, t)]
  <1>1. /\ IsReadyLists(pxReadyTasksLists) /\ uxPriority \in [Task -> Priority]
        /\ q \in Priority /\ uxTopReadyPriority \in Priority
        BY ListFacts DEF KInv, TypeOK
  <1>2. /\ uxPriority' = [uxPriority EXCEPT ![t] = p]
        /\ uxPriority' \in [Task -> Priority]
        /\ uxPriority'[t] = p /\ \A u \in Task \ {t} : uxPriority'[u] = uxPriority[u]
        BY <1>1 DEF SetPriority
  <1>3. \A u : Delayed(u)' <=> Delayed(u) BY DEF Delayed
  <1>4. /\ \A r \in Priority : \A u \in Task \cap Elements(pxReadyTasksLists[r]) :
               uxPriority[u] = r /\ ~Delayed(u)
        BY DEF KInv, StateListsAreExclusive
  <1>5. /\ \A u \in Task : Ready(u) => uxPriority[u] <= uxTopReadyPriority
        /\ xSchedulerRunning => Ready(IdleTask)
        BY DEF KInv, ReadyIsRecorded
  <1>6. CASE Ready(t)
    <2>1. /\ pxReadyTasksLists' = AddToReady(l, t, p)
          /\ uxTopReadyPriority' = Higher(p, uxTopReadyPriority)
          BY <1>6 DEF SetPriority, Requeued, taskRECORD_READY_PRIORITY
    <2>2. /\ IsReadyLists(l)
          /\ \A r \in Priority : Elements(l[r]) =
                 IF r = q THEN Elements(pxReadyTasksLists[r]) \ {t}
                 ELSE Elements(pxReadyTasksLists[r])
          BY <1>1, <1>6, TakeFromReadyFacts DEF Ready
    <2> HIDE DEF l
    <2>3. t \notin Elements(l[p]) BY <1>4, <2>2
    <2>4. /\ IsReadyLists(pxReadyTasksLists')
          /\ \A r \in Priority : Elements(pxReadyTasksLists'[r]) =
                 IF r = p THEN Elements(l[r]) \cup {t} ELSE Elements(l[r])
      <3>1. IsReadyLists(l) BY <2>2
      <3>2. /\ IsReadyLists(AddToReady(l, t, p))
            /\ \A r \in Priority : Elements(AddToReady(l, t, p)[r]) =
                   IF r = p THEN Elements(l[r]) \cup {t} ELSE Elements(l[r])
            BY <2>3, <3>1, AddToReadyFacts
      <3> QED BY <2>1, <3>2
    <2>5. \A r \in Priority : \A u \in Task :
              u \in Elements(pxReadyTasksLists'[r]) <=>
                  IF u = t THEN r = p ELSE u \in Elements(pxReadyTasksLists[r])
      <3> TAKE r \in Priority
      <3> TAKE u \in Task
      <3>1. CASE u = t
        <4>1. u \notin Elements(l[r]) BY <1>4, <2>2, <3>1
        <4> QED BY <2>4, <3>1, <4>1
      <3>2. CASE u # t
        <4>1. u \in Elements(l[r]) <=> u \in Elements(pxReadyTasksLists[r]) BY <2>2, <3>2
        <4>2. u \in Elements(pxReadyTasksLists'[r]) <=> u \in Elements(l[r])
              BY <2>4, <3>2
        <4> QED BY <3>2, <4>1, <4>2
      <3> QED BY <3>1, <3>2
    <2>6. \A u \in Task : Ready(u)' <=> Ready(u)
          BY <1>1, <1>2, <1>6, <2>5 DEF Ready
    <2>7. uxTopReadyPriority' \in Priority /\ uxTopReadyPriority <= uxTopReadyPriority'
          /\ p <= uxTopReadyPriority'
          BY <1>1, <2>1 DEF Higher, Priority
    <2>8. \A r \in Priority : \A u \in Task \cap Elements(pxReadyTasksLists'[r]) :
              uxPriority'[u] = r /\ ~Delayed(u)'
          BY <1>2, <1>3, <1>4, <1>6, <2>5, <1>1 DEF Ready
    <2>9. StateListsAreExclusive'
          BY <2>4, <2>8 DEF KInv, StateListsAreExclusive, IsReadyLists
    <2>10. ReadyIsRecorded'
      <3>1. ASSUME NEW u \in Task, Ready(u)' PROVE uxPriority'[u] <= uxTopReadyPriority'
        <4>1. CASE u = t BY <1>2, <2>7, <4>1
        <4>2. CASE u # t
          <5>1. uxPriority'[u] = uxPriority[u] /\ uxPriority[u] <= uxTopReadyPriority
                BY <1>2, <1>5, <2>6, <3>1, <4>2
          <5> QED BY <1>1, <2>7, <5>1 DEF Priority
        <4> QED BY <4>1, <4>2
      <3> QED BY <1>5, <2>6, <3>1, KernelAssumption DEF ReadyIsRecorded
    <2> QED BY <1>2, <1>3, <2>4, <2>6, <2>7, <2>9, <2>10
  <1>7. CASE ~Ready(t)
    <2>1. UNCHANGED <<pxReadyTasksLists, uxTopReadyPriority>>
          BY <1>7 DEF SetPriority, readyVars
    <2>2. \A r \in Priority : t \notin Elements(pxReadyTasksLists[r])
          BY <1>4, <1>7 DEF Ready
    <2>3. \A u \in Task : Ready(u)' <=> Ready(u) BY <1>1, <1>2, <2>1, <2>2 DEF Ready
    <2>4. \A r \in Priority : \A u \in Task \cap Elements(pxReadyTasksLists[r]) :
              uxPriority'[u] = r /\ ~Delayed(u)'
          BY <1>2, <1>3, <1>4, <2>2
    <2>5. StateListsAreExclusive' BY <2>1, <2>4 DEF KInv, StateListsAreExclusive
    <2>6. ReadyIsRecorded'
      <3>1. \A u \in Task : Ready(u)' => u # t BY <1>7, <2>3
      <3> QED BY <1>2, <1>5, <2>1, <2>3, <3>1, KernelAssumption DEF ReadyIsRecorded
    <2> QED BY <1>1, <1>2, <1>3, <2>1, <2>3, <2>5, <2>6
  <1> QED BY <1>6, <1>7

(* Steps in which no task goes to sleep: who is ready stays so, who is      *)
(* delayed or waits was so before, and for the same time.                   *)
NobodySleeps ==
    /\ \A u \in Task : Ready(u) => Ready(u)'
    /\ \A u \in Task : Delayed(u)' => Delayed(u) /\ xStateItemValue'[u] = xStateItemValue[u]
    /\ \A f \in EventList : WaitingTasks(f)' \subseteq WaitingTasks(f)

(* Most steps leave the lists alone or only move ready tasks.               *)
LEMMA SameSleepers ==
    ASSUME UNCHANGED <<xStateItemValue, xEventLists>>,
           \A u \in Task : Ready(u) => Ready(u)',
           \A u \in Task : Delayed(u)' => Delayed(u)
    PROVE  NobodySleeps /\ \A f \in EventList : WaitingTasks(f)' = WaitingTasks(f)
  BY DEF NobodySleeps, WaitingTasks

(* When tasks only leave the delayed lists, wake times stay ahead.          *)
LEMMA FewerDelayed ==
    ASSUME KInv, UNCHANGED <<xStateItemValue, xTickCount, xNextTaskUnblockTime>>,
           InOrder(pxDelayedTaskList', xStateItemValue),
           InOrder(pxOverflowDelayedTaskList', xStateItemValue),
           Elements(pxDelayedTaskList') \subseteq Elements(pxDelayedTaskList),
           Elements(pxOverflowDelayedTaskList') \subseteq Elements(pxOverflowDelayedTaskList),
           section'.at = section.at
    PROVE  WakeTimesAreAhead' /\ LookIsInTime'
  <1>1. InTickLoop' = InTickLoop BY DEF InTickLoop
  <1>2. WakeTimesAreAhead' BY <1>1 DEF KInv, WakeTimesAreAhead
  <1>3. LookIsInTime' BY DEF KInv, LookIsInTime
  <1> QED BY <1>2, <1>3

(* Task t leaves the event lists and the pending list; others only wait     *)
(* where they waited.                                                       *)
LEMMA FewerWaiting ==
    ASSUME KInv, NEW t, IsTaskList(xPendingReadyList'),
           \A f \in EventList : IsTaskList(xEventLists'[f]),
           \A f \in EventList : Elements(xEventLists'[f]) \subseteq Elements(xEventLists[f]) \ {t},
           Elements(xPendingReadyList') \subseteq Elements(xPendingReadyList) \ {t},
           \A u : Delayed(u) /\ u # t => Delayed(u)',
           xPendingReadyList' # << >> => uxSchedulerSuspended' > 0 \/ section'.at = "pending"
    PROVE  EventListsAreExclusive'
  <1>1. /\ \A e, f \in EventList : e # f =>
               Elements(xEventLists'[e]) \cap Elements(xEventLists'[f]) = {}
        /\ \A e \in EventList : Elements(xEventLists'[e]) \cap Elements(xPendingReadyList') = {}
        BY DEF KInv, EventListsAreExclusive, WaitingTasks
  <1>2. /\ \A u \in Elements(xPendingReadyList') : Delayed(u)'
        /\ \A e \in EventList : \A u \in Elements(xEventLists'[e]) : Delayed(u)'
        BY DEF KInv, EventListsAreExclusive, WaitingTasks
  <1> QED BY <1>1, <1>2 DEF EventListsAreExclusive, WaitingTasks, IsTaskList

(* Steps that leave the lists alone.                                        *)
LEMMA SameLists ==
    ASSUME KInv, UNCHANGED <<readyVars, delayVars, eventVars, uxPriority, xTickCount>>,
           xSchedulerRunning' = xSchedulerRunning,
           section'.at \in {"tick", "resumeTick"} <=> section.at \in {"tick", "resumeTick"},
           xPendingReadyList # << >> => uxSchedulerSuspended' > 0 \/ section'.at = "pending"
    PROVE  /\ StateListsAreExclusive' /\ EventListsAreExclusive' /\ WakeTimesAreAhead'
           /\ LookIsInTime' /\ ReadyIsRecorded'
  <1> USE DEF KInv, readyVars, delayVars, eventVars
  <1>1. StateListsAreExclusive' BY DEF StateListsAreExclusive, Delayed
  <1>2. EventListsAreExclusive' BY DEF EventListsAreExclusive, Delayed, WaitingTasks
  <1>3. WakeTimesAreAhead' BY DEF WakeTimesAreAhead, InTickLoop
  <1>4. LookIsInTime' BY DEF LookIsInTime
  <1>5. ReadyIsRecorded' BY DEF ReadyIsRecorded, Ready
  <1> QED BY <1>1, <1>2, <1>3, <1>4, <1>5

USE DEF readyVars, delayVars, eventVars, tickVars, prioVars, switchVars, kernelVars
-----------------------------------------------------------------------------
(* portYIELD, and a step that only enters or leaves a critical section.     *)
LEMMA portYIELD_Inv ==
    ASSUME KInv, portYIELD \/ UNCHANGED kernelVars, uxCriticalNesting' \in 0 .. MaxCritical
    PROVE  KInv'
  <1>1. /\ UNCHANGED <<readyVars, delayVars, eventVars, prioVars, tickVars, pxCurrentTCB,
                       xYieldPending, xSchedulerRunning, uxSchedulerSuspended, section>>
        /\ PENDING_SOFT_SV' \in BOOLEAN
        BY DEF portYIELD, KInv, TypeOK
  <1>2. TypeOK' BY <1>1 DEF KInv, TypeOK
  <1>3. SectionsAreInStep' BY <1>1 DEF KInv, SectionsAreInStep
  <1>4. /\ StateListsAreExclusive' /\ EventListsAreExclusive' /\ WakeTimesAreAhead'
        /\ LookIsInTime' /\ ReadyIsRecorded'
        BY <1>1, SameLists DEF KInv, EventListsAreExclusive
  <1>5. PrioritiesComeBack' BY <1>1 DEF KInv, PrioritiesComeBack
  <1> QED BY <1>2, <1>3, <1>4, <1>5 DEF KInv

(* vTaskSuspendAll only counts.                                             *)
LEMMA vTaskSuspendAll_Inv ==
    ASSUME KInv, TaskRuns, vTaskSuspendAll, uxCriticalNesting' \in 0 .. MaxCritical
    PROVE  KInv'
  <1>1. /\ UNCHANGED <<readyVars, delayVars, eventVars, prioVars, tickVars, pxCurrentTCB,
                       switchVars, xSchedulerRunning, section>>
        /\ uxSchedulerSuspended' = uxSchedulerSuspended + 1
        /\ uxSchedulerSuspended < MaxSuspended
        /\ uxSchedulerSuspended \in 0 .. MaxSuspended
        /\ xSchedulerRunning /\ section.at = "none"
        BY DEF vTaskSuspendAll, TaskRuns, NoSection, KInv, TypeOK
  <1>2. TypeOK'
    <2>1. uxSchedulerSuspended' \in 0 .. MaxSuspended BY <1>1, Bounds
    <2> QED BY <1>1, <2>1 DEF KInv, TypeOK
  <1>3. SectionsAreInStep' BY <1>1 DEF KInv, SectionsAreInStep
  <1>4. /\ StateListsAreExclusive' /\ EventListsAreExclusive' /\ WakeTimesAreAhead'
        /\ LookIsInTime' /\ ReadyIsRecorded'
    <2>1. uxSchedulerSuspended' > 0 BY <1>1, KernelAssumption
    <2> QED BY <1>1, <2>1, SameLists
  <1>5. PrioritiesComeBack' BY <1>1 DEF KInv, PrioritiesComeBack
  <1> QED BY <1>2, <1>3, <1>4, <1>5 DEF KInv

(* xTaskResumeAll counts down; the outermost one enters its first loop.     *)
LEMMA xTaskResumeAll_Inv ==
    ASSUME KInv, TaskRuns, xTaskResumeAll, uxCriticalNesting' \in 0 .. MaxCritical
    PROVE  KInv'
  <1>1. /\ UNCHANGED <<readyVars, delayVars, eventVars, prioVars, tickVars, pxCurrentTCB,
                       switchVars, xSchedulerRunning>>
        /\ uxSchedulerSuspended' = uxSchedulerSuspended - 1
        /\ uxSchedulerSuspended \in 0 .. MaxSuspended /\ uxSchedulerSuspended > 0
        /\ xSchedulerRunning /\ section.at = "none"
        BY DEF xTaskResumeAll, TaskRuns, NoSection, KInv, TypeOK
  <1>2. /\ section' \in Section
        /\ section'.at = IF uxSchedulerSuspended = 1 THEN "pending" ELSE "none"
    <2>1. NoSection \in Section /\ NoSection.at = "none" BY SectionFacts
    <2>2. [NoSection EXCEPT !.at = "pending"] \in Section
          /\ [NoSection EXCEPT !.at = "pending"].at = "pending"
          BY <2>1 DEF Section
    <2> QED BY <2>1, <2>2 DEF xTaskResumeAll
  <1>3. uxSchedulerSuspended' \in 0 .. MaxSuspended /\
        (uxSchedulerSuspended = 1 => uxSchedulerSuspended' = 0)
        /\ (uxSchedulerSuspended # 1 => uxSchedulerSuspended' > 0)
        BY <1>1, KernelAssumption
  <1>4. TypeOK' BY <1>1, <1>2, <1>3 DEF KInv, TypeOK, Section
  <1>5. SectionsAreInStep' BY <1>1, <1>2, <1>3 DEF KInv, SectionsAreInStep
  <1>6. /\ StateListsAreExclusive' /\ EventListsAreExclusive' /\ WakeTimesAreAhead'
        /\ LookIsInTime' /\ ReadyIsRecorded'
        BY <1>1, <1>2, <1>3, SameLists
  <1>7. PrioritiesComeBack' BY <1>1 DEF KInv, PrioritiesComeBack
  <1> QED BY <1>4, <1>5, <1>6, <1>7 DEF KInv

(* One more mutex is held.                                                  *)
LEMMA pvTaskIncrementMutexHeldCount_Inv ==
    ASSUME KInv, TaskRuns, pvTaskIncrementMutexHeldCount, uxCriticalNesting' \in 0 .. MaxCritical
    PROVE  KInv'
  <1>1. /\ UNCHANGED <<readyVars, delayVars, eventVars, tickVars, pxCurrentTCB, uxPriority,
                       uxBasePriority, switchVars, xSchedulerRunning, uxSchedulerSuspended,
                       section>>
        /\ pxCurrentTCB \in Task /\ uxMutexesHeld \in [Task -> 0 .. MaxMutexesHeld]
        /\ uxMutexesHeld[pxCurrentTCB] < MaxMutexesHeld
        /\ uxMutexesHeld' = [uxMutexesHeld EXCEPT ![pxCurrentTCB] = @ + 1]
        BY DEF pvTaskIncrementMutexHeldCount, TaskRuns, KInv, TypeOK, SectionsAreInStep
  <1>2. /\ uxMutexesHeld' \in [Task -> 0 .. MaxMutexesHeld]
        /\ \A t \in Task : uxMutexesHeld'[t] = 0 => uxMutexesHeld[t] = 0
        BY <1>1, KernelAssumption
  <1>3. TypeOK' BY <1>1, <1>2 DEF KInv, TypeOK
  <1>4. SectionsAreInStep' BY <1>1 DEF KInv, SectionsAreInStep
  <1>5. /\ StateListsAreExclusive' /\ EventListsAreExclusive' /\ WakeTimesAreAhead'
        /\ LookIsInTime' /\ ReadyIsRecorded'
        BY <1>1, SameLists DEF KInv, EventListsAreExclusive
  <1>6. PrioritiesComeBack' BY <1>1, <1>2 DEF KInv, PrioritiesComeBack
  <1> QED BY <1>3, <1>4, <1>5, <1>6 DEF KInv
-----------------------------------------------------------------------------
(* The tick count wraps.                                                    *)
LEMMA WrapFacts ==
    ASSUME NEW a \in TickType, NEW n \in 1 .. TickMod - 1
    PROVE  /\ a + n < TickMod => (a + n) % TickMod = a + n
           /\ a + n >= TickMod => (a + n) % TickMod = a + n - TickMod
  BY KernelAssumption DEF TickType

(* Up to the loop of xTaskIncrementTick: what was ahead is ahead or due now, *)
(* and at the wrap the delayed list is empty and the overflow list takes    *)
(* its place.                                                               *)
LEMMA CountTickKeepsLists ==
    ASSUME KInv, CountTick, section.at \notin {"tick", "resumeTick"},
           section'.at \in {"tick", "resumeTick"},
           UNCHANGED <<readyVars, uxPriority, xSchedulerRunning>>
    PROVE  /\ IsTaskList(pxDelayedTaskList') /\ IsTaskList(pxOverflowDelayedTaskList')
           /\ xTickCount' \in TickType /\ xNextTaskUnblockTime' \in TickType
           /\ StateListsAreExclusive' /\ WakeTimesAreAhead' /\ LookIsInTime'
           /\ ReadyIsRecorded'
           /\ \A u : Delayed(u)' <=> Delayed(u)
  <1> DEFINE D == pxDelayedTaskList
             O == pxOverflowDelayedTaskList
             at(t) == xStateItemValue[t]
  <1>1. /\ xTickCount \in TickType /\ xNextTaskUnblockTime \in TickType
        /\ xStateItemValue \in [Task -> TickType]
        /\ IsTaskList(D) /\ IsTaskList(O)
        /\ Elements(D) \subseteq Task /\ Elements(O) \subseteq Task
        BY ListFacts, ElementsOf DEF KInv, TypeOK, IsTaskList
  <1>2. /\ InOrder(D, xStateItemValue) /\ InOrder(O, xStateItemValue)
        /\ \A t \in Elements(D) : at(t) > xTickCount
        /\ \A t \in Elements(O) : at(t) < xTickCount
        BY DEF KInv, WakeTimesAreAhead, InTickLoop
  <1>3. /\ xTickCount + 1 < TickMod => xTickCount' = xTickCount + 1
        /\ xTickCount + 1 >= TickMod => xTickCount' = 0 /\ xTickCount = TickMod - 1
    <2>1. 1 \in 1 .. TickMod - 1 BY KernelAssumption
    <2>2. xTickCount' = (xTickCount + 1) % TickMod BY DEF CountTick
    <2> QED BY <1>1, <2>1, <2>2, WrapFacts, KernelAssumption DEF TickType
  <1>4. /\ xStateItemValue' = xStateItemValue /\ InTickLoop'
        BY DEF CountTick, InTickLoop
  <1>5. CASE xTickCount + 1 < TickMod
    <2>1. UNCHANGED <<D, O, xNextTaskUnblockTime>> /\ xTickCount' = xTickCount + 1
      <3>1. xTickCount' = xTickCount + 1 BY <1>3, <1>5
      <3>2. xTickCount' # 0 BY <1>1, <3>1, KernelAssumption DEF TickType
      <3> QED BY <3>1, <3>2 DEF CountTick
    <2>2. xTickCount' \in TickType /\ xNextTaskUnblockTime' \in TickType
          BY <1>1, <1>5, <2>1, KernelAssumption DEF TickType
    <2>3. WakeTimesAreAhead'
      <3>1. \A t \in Elements(D) : at(t) > xTickCount' \/ (InTickLoop' /\ at(t) = xTickCount')
            BY <1>1, <1>2, <1>4, <2>1, KernelAssumption DEF TickType
      <3>2. \A t \in Elements(O) : at(t) < xTickCount'
            BY <1>1, <1>2, <2>1, KernelAssumption DEF TickType
      <3> QED BY <1>2, <1>4, <2>1, <3>1, <3>2 DEF WakeTimesAreAhead
    <2>4. LookIsInTime' BY <1>4, <2>1 DEF KInv, LookIsInTime
    <2>5. StateListsAreExclusive' BY <2>1 DEF KInv, StateListsAreExclusive, Delayed
    <2>6. ReadyIsRecorded' BY DEF KInv, ReadyIsRecorded, Ready
    <2>7. \A u : Delayed(u)' <=> Delayed(u) BY <2>1 DEF Delayed
    <2> QED BY <1>1, <2>1, <2>2, <2>3, <2>4, <2>5, <2>6, <2>7
  <1>6. CASE xTickCount + 1 >= TickMod
    <2>1. /\ xTickCount' = 0 /\ xTickCount = TickMod - 1
          /\ D' = O /\ O' = D /\ xNextTaskUnblockTime' = HeadWakeTime(O)
          BY <1>3, <1>6 DEF CountTick
    <2>2. /\ HeadWakeTime(O) \in TickType
          /\ \A t \in Elements(O) : HeadWakeTime(O) <= at(t)
          BY <1>1, <1>2, HeadIsFirst
    <2>3. xTickCount' \in TickType /\ xNextTaskUnblockTime' \in TickType
          BY <2>1, <2>2, KernelAssumption DEF TickType
    <2>4. Elements(D) = {}
          BY <1>1, <1>2, <2>1, KernelAssumption DEF TickType
    <2>5. WakeTimesAreAhead'
      <3>1. \A t \in Elements(O) : at(t) > 0 \/ (InTickLoop' /\ at(t) = 0)
            BY <1>1, <1>4, KernelAssumption DEF TickType
      <3> QED BY <1>2, <1>4, <2>1, <2>4, <3>1 DEF WakeTimesAreAhead
    <2>6. LookIsInTime' BY <1>4, <2>1, <2>2 DEF LookIsInTime
    <2>7. \A u : Delayed(u)' <=> Delayed(u) BY <2>1 DEF Delayed
    <2>8. StateListsAreExclusive' BY <2>1, <2>7 DEF KInv, StateListsAreExclusive
    <2>9. ReadyIsRecorded' BY DEF KInv, ReadyIsRecorded, Ready
    <2> QED BY <1>1, <2>1, <2>3, <2>5, <2>6, <2>7, <2>8, <2>9
  <1> QED BY <1>1, <1>5, <1>6, KernelAssumption DEF TickType

(* The event lists do not depend on the tick.                               *)
LEMMA SameEvents ==
    ASSUME KInv, UNCHANGED eventVars, \A u : Delayed(u) => Delayed(u)',
           xPendingReadyList # << >> => uxSchedulerSuspended' > 0 \/ section'.at = "pending"
    PROVE  EventListsAreExclusive'
  BY DEF KInv, EventListsAreExclusive, WaitingTasks

(* The tick interrupt holds the tick back or counts it.                     *)
LEMMA xPortSysTickHandle_Inv ==
    ASSUME KInv, xPortSysTickHandle, UNCHANGED uxCriticalNesting
    PROVE  KInv' /\ NobodySleeps /\ \A u \in Task : Ready(u)' => Ready(u)
  <1>1. /\ UNCHANGED <<pxCurrentTCB, readyVars, eventVars, prioVars, switchVars,
                       xSchedulerRunning, uxSchedulerSuspended>>
        /\ xSchedulerRunning /\ section = NoSection
        BY DEF xPortSysTickHandle, InterruptsOn
  <1>2. uxSchedulerSuspended \in 0 .. MaxSuspended /\ section.at = "none"
        BY <1>1, SectionFacts DEF KInv, TypeOK
  <1>3. PrioritiesComeBack' BY <1>1 DEF KInv, PrioritiesComeBack
  <1>4. \A u \in Task : Ready(u)' <=> Ready(u) BY <1>1 DEF Ready
  <1>5. CASE uxSchedulerSuspended > 0
    <2>1. /\ uxPendedTicks < MaxPendedTicks /\ uxPendedTicks' = uxPendedTicks + 1
          /\ UNCHANGED <<xTickCount, delayVars, section>>
          BY <1>5 DEF xPortSysTickHandle
    <2>2. uxPendedTicks' \in 0 .. MaxPendedTicks BY <2>1, Bounds DEF KInv, TypeOK
    <2>3. TypeOK' BY <1>1, <2>1, <2>2 DEF KInv, TypeOK
    <2>4. SectionsAreInStep' BY <1>1, <2>1 DEF KInv, SectionsAreInStep
    <2>5. /\ StateListsAreExclusive' /\ EventListsAreExclusive' /\ WakeTimesAreAhead'
          /\ LookIsInTime' /\ ReadyIsRecorded'
          BY <1>1, <1>5, <2>1, SameLists
    <2>6. NobodySleeps BY <1>1, <1>4, <2>1, SameSleepers DEF Delayed
    <2> QED BY <1>3, <1>4, <2>3, <2>4, <2>5, <2>6 DEF KInv
  <1>6. CASE ~(uxSchedulerSuspended > 0)
    <2>1. /\ CountTick /\ section' = [NoSection EXCEPT !.at = "tick"]
          /\ UNCHANGED uxPendedTicks
          BY <1>6 DEF xPortSysTickHandle
    <2>2. section' \in Section /\ section'.at = "tick" /\ uxSchedulerSuspended = 0
          BY <1>2, <1>6, <2>1, SectionFacts, Bounds DEF Section
    <2>3. /\ IsTaskList(pxDelayedTaskList') /\ IsTaskList(pxOverflowDelayedTaskList')
          /\ xTickCount' \in TickType /\ xNextTaskUnblockTime' \in TickType
          /\ StateListsAreExclusive' /\ WakeTimesAreAhead' /\ LookIsInTime'
          /\ ReadyIsRecorded'
          /\ \A u : Delayed(u)' <=> Delayed(u)
          BY <1>1, <1>2, <2>1, <2>2, CountTickKeepsLists
    <2>4. xStateItemValue' = xStateItemValue BY <2>1 DEF CountTick
    <2>5. TypeOK' BY <1>1, <2>1, <2>2, <2>3, <2>4 DEF KInv, TypeOK, Section, IsTaskList
    <2>6. SectionsAreInStep' BY <1>1, <2>2 DEF KInv, SectionsAreInStep
    <2>7. xPendingReadyList = << >> BY <1>2, <2>2 DEF KInv, EventListsAreExclusive
    <2>8. EventListsAreExclusive' BY <1>1, <2>3, <2>7, SameEvents
    <2>9. NobodySleeps BY <1>1, <1>4, <2>3, <2>4, SameSleepers
    <2> QED BY <1>3, <1>4, <2>3, <2>5, <2>6, <2>8, <2>9 DEF KInv
  <1> QED BY <1>5, <1>6

(* xTaskResumeAll counts a tick that was held back.                         *)
LEMMA ResumeTick_Inv ==
    ASSUME KInv, ResumeTick, UNCHANGED uxCriticalNesting
    PROVE  KInv' /\ NobodySleeps /\ \A u \in Task : Ready(u)' => Ready(u)
  <1>1. /\ UNCHANGED <<pxCurrentTCB, readyVars, eventVars, uxPendedTicks, prioVars,
                       switchVars, xSchedulerRunning, uxSchedulerSuspended>>
        /\ CountTick /\ section.at = "ticks" /\ section.left > 0
        /\ section' = [section EXCEPT !.at = "resumeTick", !.xSwitchRequired = FALSE]
        /\ section \in Section
        BY DEF ResumeTick, KInv, TypeOK, Section
  <1>2. /\ section' \in Section /\ section'.at = "resumeTick" /\ section'.left = section.left
        /\ xSchedulerRunning /\ uxSchedulerSuspended = 0
        BY <1>1 DEF Section, KInv, SectionsAreInStep
  <1>3. /\ IsTaskList(pxDelayedTaskList') /\ IsTaskList(pxOverflowDelayedTaskList')
        /\ xTickCount' \in TickType /\ xNextTaskUnblockTime' \in TickType
        /\ StateListsAreExclusive' /\ WakeTimesAreAhead' /\ LookIsInTime'
        /\ ReadyIsRecorded'
        /\ \A u : Delayed(u)' <=> Delayed(u)
        BY <1>1, <1>2, CountTickKeepsLists
  <1>4. xStateItemValue' = xStateItemValue BY <1>1 DEF CountTick
  <1>5. TypeOK' BY <1>1, <1>2, <1>3, <1>4 DEF KInv, TypeOK, Section, IsTaskList
  <1>6. SectionsAreInStep' BY <1>1, <1>2 DEF KInv, SectionsAreInStep
  <1>7. xPendingReadyList = << >> BY <1>1, <1>2 DEF KInv, EventListsAreExclusive
  <1>8. EventListsAreExclusive' BY <1>1, <1>3, <1>7, SameEvents
  <1>9. PrioritiesComeBack' BY <1>1 DEF KInv, PrioritiesComeBack
  <1>10. \A u \in Task : Ready(u)' <=> Ready(u) BY <1>1 DEF Ready
  <1>11. NobodySleeps BY <1>1, <1>3, <1>4, <1>10, SameSleepers
  <1> QED BY <1>3, <1>5, <1>6, <1>8, <1>9, <1>10, <1>11 DEF KInv
-----------------------------------------------------------------------------
(* The loop of xTaskIncrementTick wakes the first task of the delayed list. *)
LEMMA TickUnblock_Inv ==
    ASSUME KInv, TickUnblock, UNCHANGED uxCriticalNesting
    PROVE  /\ KInv' /\ NobodySleeps
           /\ \A u \in Task : Ready(u)' => Ready(u) \/ u = pxDelayedTaskList[1]
  <1> DEFINE D == pxDelayedTaskList
             O == pxOverflowDelayedTaskList
             t == D[1]
  <1>1. /\ UNCHANGED <<pxCurrentTCB, O, xStateItemValue, xNextTaskUnblockTime, tickVars,
                       prioVars, switchVars, xSchedulerRunning, uxSchedulerSuspended>>
        /\ D # << >> /\ D' = Tail(D) /\ LeaveEventLists(t) /\ prvAddTaskToReadyList(t)
        /\ section' = [section EXCEPT !.xSwitchRequired = @ \/ Preempts(t)]
        /\ section \in Section /\ section.at \in {"tick", "resumeTick"}
        BY DEF TickUnblock, TickDue, KInv, TypeOK, Section
  <1>2. /\ IsTaskList(D) /\ IsTaskList(O) /\ xStateItemValue \in [Task -> Int]
        /\ IsTaskList(xPendingReadyList) /\ \A e \in EventList : IsTaskList(xEventLists[e])
        /\ InOrder(D, xStateItemValue) /\ InOrder(O, xStateItemValue)
        BY ListFacts DEF KInv, WakeTimesAreAhead
  <1>3. /\ t \in Task /\ t \in Elements(D) /\ IsTaskList(D') /\ Elements(D') = Elements(D) \ {t}
        /\ InOrder(D', xStateItemValue)
    <2>1. /\ t \in Task /\ t \in Elements(D) /\ IsTaskList(Tail(D))
          /\ Elements(Tail(D)) = Elements(D) \ {t} /\ InOrder(Tail(D), xStateItemValue)
          BY <1>1, <1>2, TailIsTaskList
    <2> QED BY <1>1, <2>1
  <1>4. Elements(O') = Elements(O) \ {t} /\ Delayed(t)
        BY <1>1, <1>3 DEF KInv, StateListsAreExclusive, Delayed
  <1>5. /\ section' \in Section /\ section'.at = section.at /\ section'.left = section.left
    <2>1. Preempts(t) \in BOOLEAN BY DEF Preempts
    <2> HIDE DEF t
    <2> QED BY <1>1, <2>1 DEF Section
  <1> HIDE DEF t
  <1>6. /\ IsReadyLists(pxReadyTasksLists') /\ uxTopReadyPriority' \in Priority
        /\ StateListsAreExclusive' /\ ReadyIsRecorded'
        /\ \A u : Delayed(u)' <=> Delayed(u) /\ u # t
        /\ \A u \in Task : Ready(u)' <=> Ready(u) \/ u = t
    <2>1. IsTaskList(O') BY <1>1, <1>2
    <2> QED BY <1>1, <1>3, <1>4, <2>1, WakeFacts
  <1>7. /\ xEventLists' = [e \in EventList |-> Removed(xEventLists[e], t)]
        /\ xPendingReadyList' = Removed(xPendingReadyList, t)
        BY <1>1 DEF LeaveEventLists
  <1>8. /\ \A e \in EventList : IsTaskList(xEventLists'[e])
                                 /\ Elements(xEventLists'[e]) = Elements(xEventLists[e]) \ {t}
        /\ IsTaskList(xPendingReadyList')
        /\ Elements(xPendingReadyList') = Elements(xPendingReadyList) \ {t}
    <2>1. ASSUME NEW e \in EventList
          PROVE  IsTaskList(xEventLists'[e]) /\ Elements(xEventLists'[e]) = Elements(xEventLists[e]) \ {t}
      <3>1. xEventLists'[e] = Removed(xEventLists[e], t) BY <1>7
      <3>2. IsTaskList(xEventLists[e]) BY <1>2
      <3>3. /\ IsTaskList(Removed(xEventLists[e], t))
            /\ Elements(Removed(xEventLists[e], t)) = Elements(xEventLists[e]) \ {t}
            BY <3>2, RemovedFacts
      <3> QED BY <3>1, <3>3
    <2>2. /\ IsTaskList(Removed(xPendingReadyList, t))
          /\ Elements(Removed(xPendingReadyList, t)) = Elements(xPendingReadyList) \ {t}
          BY <1>2, RemovedFacts
    <2> QED BY <1>7, <2>1, <2>2
  <1>9. EventListsAreExclusive'
    <2>1. xPendingReadyList = << >> BY <1>1 DEF KInv, SectionsAreInStep, EventListsAreExclusive
    <2>2. Elements(xPendingReadyList) = {} BY <1>2, <2>1, ElementsOf DEF IsTaskList
    <2>3. xPendingReadyList' = << >> BY <1>8, <2>2, ElementsOf DEF IsTaskList
    <2> QED BY <1>6, <1>8, <2>3, FewerWaiting
  <1>10. WakeTimesAreAhead' /\ LookIsInTime'
    <2>1. /\ InOrder(O', xStateItemValue) /\ Elements(D') \subseteq Elements(D)
          /\ Elements(O') \subseteq Elements(O)
          BY <1>1, <1>2, <1>3
    <2> QED BY <1>1, <1>3, <1>5, <2>1, FewerDelayed
  <1>11. TypeOK'
    <2>1. xEventLists' \in [EventList -> Seq(Task)] BY <1>7, <1>8 DEF IsTaskList
    <2> QED BY <1>1, <1>3, <1>5, <1>6, <1>8, <2>1
            DEF KInv, TypeOK, Section, IsTaskList, IsReadyLists
  <1>12. SectionsAreInStep' BY <1>1, <1>5 DEF KInv, SectionsAreInStep
  <1>13. PrioritiesComeBack' BY <1>1 DEF KInv, PrioritiesComeBack
  <1>14. NobodySleeps BY <1>1, <1>6, <1>8 DEF NobodySleeps, WaitingTasks
  <1>15. KInv' BY <1>6, <1>9, <1>10, <1>11, <1>12, <1>13 DEF KInv
  <1> QED BY <1>6, <1>14, <1>15 DEF t

(* Behind the loop nothing in the delayed list is due.                      *)
LEMMA LeaveTickLoopFacts ==
    ASSUME KInv, LeaveTickLoop, section'.at \in {"none", "ticks"}
    PROVE  /\ xNextTaskUnblockTime' \in TickType
           /\ WakeTimesAreAhead' /\ LookIsInTime'
  <1> DEFINE D == pxDelayedTaskList
             O == pxOverflowDelayedTaskList
             at(t) == xStateItemValue[t]
  <1>1. /\ UNCHANGED <<D, O, xStateItemValue, xTickCount>> /\ ~TickDue
        /\ xNextTaskUnblockTime' = IF xTickCount >= xNextTaskUnblockTime
                                   THEN HeadWakeTime(D) ELSE xNextTaskUnblockTime
        BY DEF LeaveTickLoop
  <1>2. /\ xTickCount \in TickType /\ xNextTaskUnblockTime \in TickType
        /\ xStateItemValue \in [Task -> TickType]
        /\ IsTaskList(D) /\ Elements(D) \subseteq Task
        /\ InOrder(D, xStateItemValue) /\ InOrder(O, xStateItemValue)
        /\ \A t \in Elements(O) : at(t) < xTickCount
        /\ \A t \in Elements(D) : xNextTaskUnblockTime <= at(t)
        BY ListFacts, ElementsOf
        DEF KInv, TypeOK, IsTaskList, WakeTimesAreAhead, LookIsInTime
  <1>3. /\ HeadWakeTime(D) \in TickType
        /\ \A t \in Elements(D) : HeadWakeTime(D) <= at(t)
        /\ D # << >> => HeadWakeTime(D) = at(D[1])
        BY <1>2, HeadIsFirst
  <1>4. xNextTaskUnblockTime' \in TickType BY <1>1, <1>2, <1>3
  <1>5. LookIsInTime' BY <1>1, <1>2, <1>3 DEF LookIsInTime
  <1>6. ASSUME NEW t \in Elements(D) PROVE at(t) > xTickCount
    <2>1. at(t) \in Int /\ xTickCount \in Int /\ xNextTaskUnblockTime \in Int
          /\ HeadWakeTime(D) \in Int /\ HeadWakeTime(D) <= at(t) /\ xNextTaskUnblockTime <= at(t)
          BY <1>2, <1>3, KernelAssumption DEF TickType
    <2>2. D # << >> BY <1>2, ElementsOf DEF IsTaskList
    <2>3. CASE xTickCount >= xNextTaskUnblockTime
      <3>1. ~(xTickCount >= at(D[1])) BY <1>1, <2>2, <2>3 DEF TickDue
      <3>2. HeadWakeTime(D) = at(D[1]) BY <1>3, <2>2
      <3> QED BY <2>1, <3>1, <3>2
    <2>4. CASE ~(xTickCount >= xNextTaskUnblockTime) BY <2>1, <2>4
    <2> QED BY <2>3, <2>4
  <1>7. WakeTimesAreAhead' BY <1>1, <1>2, <1>6 DEF WakeTimesAreAhead
  <1> QED BY <1>4, <1>5, <1>7

(* The tick interrupt returns, with or without a switch.                    *)
LEMMA TickReturn_Inv ==
    ASSUME KInv, TickReturn, UNCHANGED uxCriticalNesting
    PROVE  /\ KInv' /\ NobodySleeps /\ \A u \in Task : Ready(u)' => Ready(u)
           /\ IF section.xSwitchRequired \/ xYieldPending
              THEN /\ Ready(pxCurrentTCB)'
                   /\ \A u \in Task : Ready(u) => uxPriority[u] <= uxPriority[pxCurrentTCB']
              ELSE pxCurrentTCB' = pxCurrentTCB
  <1>1. /\ LeaveTickLoop /\ section' = NoSection /\ section.at = "tick"
        /\ UNCHANGED <<pxDelayedTaskList, pxOverflowDelayedTaskList, xStateItemValue,
                       eventVars, tickVars, prioVars, PENDING_SOFT_SV,
                       xSchedulerRunning, uxSchedulerSuspended>>
        BY DEF TickReturn, LeaveTickLoop
  <1>2. /\ section' \in Section /\ section'.at = "none"
        /\ xSchedulerRunning /\ uxSchedulerSuspended = 0 /\ Ready(IdleTask)
        /\ pxCurrentTCB \in Task
        BY <1>1, SectionFacts DEF KInv, SectionsAreInStep, ReadyIsRecorded
  <1>3. xNextTaskUnblockTime' \in TickType /\ WakeTimesAreAhead' /\ LookIsInTime'
        BY <1>1, <1>2, LeaveTickLoopFacts
  <1>4. /\ IsReadyLists(pxReadyTasksLists') /\ uxTopReadyPriority' \in Priority
        /\ StateListsAreExclusive' /\ ReadyIsRecorded'
        /\ \A u : Delayed(u)' <=> Delayed(u)
        /\ pxCurrentTCB' \in Task /\ xYieldPending' \in BOOLEAN
        /\ \A u \in Task : Ready(u)' <=> Ready(u)
        /\ IF section.xSwitchRequired \/ xYieldPending
           THEN /\ Ready(pxCurrentTCB)'
                /\ \A u \in Task : Ready(u) => uxPriority[u] <= uxPriority[pxCurrentTCB']
           ELSE pxCurrentTCB' = pxCurrentTCB
    <2>1. CASE section.xSwitchRequired \/ xYieldPending
      <3>1. vTaskSwitchContext BY <2>1 DEF TickReturn
      <3>2. pxCurrentTCB' \in Task /\ xYieldPending' \in BOOLEAN BY <1>2, <3>1, SwitchFacts
      <3>3. ~(uxSchedulerSuspended > 0) BY <1>2
      <3> QED BY <1>1, <1>2, <2>1, <3>1, <3>2, <3>3, SwitchKeepsLists
    <2>2. CASE ~(section.xSwitchRequired \/ xYieldPending)
      <3>1. UNCHANGED <<pxCurrentTCB, readyVars, xYieldPending>> BY <2>2 DEF TickReturn
      <3>2. \A u : Delayed(u)' <=> Delayed(u) BY <1>1 DEF Delayed
      <3>3. StateListsAreExclusive' BY <1>1, <3>1, <3>2 DEF KInv, StateListsAreExclusive
      <3>4. ReadyIsRecorded' BY <1>1, <3>1 DEF KInv, ReadyIsRecorded, Ready
      <3>5. IsReadyLists(pxReadyTasksLists') BY <3>1, ListFacts
      <3>6. \A u \in Task : Ready(u)' <=> Ready(u) BY <1>1, <3>1 DEF Ready
      <3> QED BY <1>2, <2>2, <3>1, <3>2, <3>3, <3>4, <3>5, <3>6 DEF KInv, TypeOK
    <2> QED BY <2>1, <2>2
  <1>5. TypeOK' BY <1>1, <1>2, <1>3, <1>4 DEF KInv, TypeOK, Section, IsReadyLists
  <1>6. SectionsAreInStep' BY <1>1, <1>2, <1>4 DEF KInv, SectionsAreInStep
  <1>7. xPendingReadyList = << >> BY <1>1, <1>2 DEF KInv, EventListsAreExclusive
  <1>8. EventListsAreExclusive' BY <1>1, <1>4, <1>7, SameEvents
  <1>9. PrioritiesComeBack' BY <1>1 DEF KInv, PrioritiesComeBack
  <1>10. NobodySleeps BY <1>1, <1>4, SameSleepers
  <1>11. KInv' BY <1>3, <1>4, <1>5, <1>6, <1>8, <1>9 DEF KInv
  <1> QED BY <1>4, <1>10, <1>11

(* xTaskResumeAll goes on to the next tick that was held back.              *)
LEMMA ResumeTickReturn_Inv ==
    ASSUME KInv, ResumeTickReturn, UNCHANGED uxCriticalNesting
    PROVE  KInv'
  <1>1. /\ LeaveTickLoop /\ section.at = "resumeTick" /\ section \in Section
        /\ section' = [section EXCEPT !.at = "ticks", !.xSwitchRequired = FALSE, !.left = @ - 1]
        /\ xYieldPending' = (xYieldPending \/ section.xSwitchRequired)
        /\ UNCHANGED <<pxDelayedTaskList, pxOverflowDelayedTaskList, xStateItemValue,
                       eventVars, tickVars, prioVars, PENDING_SOFT_SV,
                       xSchedulerRunning, uxSchedulerSuspended, pxCurrentTCB, readyVars>>
        BY DEF ResumeTickReturn, LeaveTickLoop, KInv, TypeOK, Section
  <1>2. /\ section' \in Section /\ section'.at = "ticks"
        /\ xSchedulerRunning /\ uxSchedulerSuspended = 0
    <2>1. section.left > 0 /\ xSchedulerRunning /\ uxSchedulerSuspended = 0
          BY <1>1 DEF KInv, SectionsAreInStep
    <2>2. section.left - 1 \in 0 .. MaxPendedTicks BY <1>1, <2>1, Bounds DEF Section
    <2> QED BY <1>1, <2>1, <2>2 DEF Section
  <1>3. xNextTaskUnblockTime' \in TickType /\ WakeTimesAreAhead' /\ LookIsInTime'
        BY <1>1, <1>2, LeaveTickLoopFacts
  <1>4. \A u : Delayed(u)' <=> Delayed(u) BY <1>1 DEF Delayed
  <1>5. StateListsAreExclusive' BY <1>1, <1>4 DEF KInv, StateListsAreExclusive
  <1>6. ReadyIsRecorded' BY <1>1 DEF KInv, ReadyIsRecorded, Ready
  <1>7. xYieldPending' \in BOOLEAN BY <1>1
  <1>8. TypeOK' BY <1>1, <1>2, <1>3, <1>7 DEF KInv, TypeOK, Section
  <1>9. SectionsAreInStep' BY <1>1, <1>2 DEF KInv, SectionsAreInStep
  <1>10. xPendingReadyList = << >> BY <1>1, <1>2 DEF KInv, EventListsAreExclusive
  <1>11. EventListsAreExclusive' BY <1>1, <1>4, <1>10, SameEvents
  <1>12. PrioritiesComeBack' BY <1>1 DEF KInv, PrioritiesComeBack
  <1> QED BY <1>3, <1>5, <1>6, <1>8, <1>9, <1>11, <1>12 DEF KInv

(* The software interrupt switches.                                         *)
LEMMA SV_ISR_Inv ==
    ASSUME KInv, SV_ISR, UNCHANGED uxCriticalNesting
    PROVE  /\ KInv' /\ NobodySleeps /\ \A u \in Task : Ready(u)' => Ready(u)
           /\ IF uxSchedulerSuspended > 0 THEN pxCurrentTCB' = pxCurrentTCB
              ELSE /\ Ready(pxCurrentTCB)'
                   /\ \A u \in Task : Ready(u) => uxPriority[u] <= uxPriority[pxCurrentTCB']
  <1>1. /\ UNCHANGED <<delayVars, eventVars, tickVars, prioVars, xSchedulerRunning,
                       uxSchedulerSuspended, section>>
        /\ vTaskSwitchContext /\ PENDING_SOFT_SV' = FALSE
        /\ xSchedulerRunning /\ Ready(IdleTask) /\ pxCurrentTCB \in Task
        BY DEF SV_ISR, InterruptsOn, KInv, ReadyIsRecorded, SectionsAreInStep
  <1>2. /\ IsReadyLists(pxReadyTasksLists') /\ uxTopReadyPriority' \in Priority
        /\ StateListsAreExclusive' /\ ReadyIsRecorded'
        /\ \A u : Delayed(u)' <=> Delayed(u)
        /\ \A u \in Task : Ready(u)' <=> Ready(u)
        /\ ~(uxSchedulerSuspended > 0) =>
              /\ Ready(pxCurrentTCB)'
              /\ \A u \in Task : Ready(u) => uxPriority[u] <= uxPriority[pxCurrentTCB']
        BY <1>1, SwitchKeepsLists
  <1>3. /\ xYieldPending' \in BOOLEAN /\ pxCurrentTCB' \in Task
        /\ uxSchedulerSuspended > 0 => pxCurrentTCB' = pxCurrentTCB
        BY <1>1, SwitchFacts
  <1>4. TypeOK' BY <1>1, <1>2, <1>3 DEF KInv, TypeOK, IsReadyLists
  <1>5. SectionsAreInStep' BY <1>1, <1>3 DEF KInv, SectionsAreInStep
  <1>6. WakeTimesAreAhead' /\ LookIsInTime'
        BY <1>1 DEF KInv, WakeTimesAreAhead, LookIsInTime, InTickLoop
  <1>7. EventListsAreExclusive'
        BY <1>1, <1>2, SameEvents DEF KInv, EventListsAreExclusive
  <1>8. PrioritiesComeBack' BY <1>1 DEF KInv, PrioritiesComeBack
  <1>9. NobodySleeps BY <1>1, <1>2, SameSleepers
  <1>10. KInv' BY <1>2, <1>4, <1>5, <1>6, <1>7, <1>8 DEF KInv
  <1> QED BY <1>2, <1>3, <1>9, <1>10
-----------------------------------------------------------------------------
(* xTaskResumeAll: its two loops begin and end.                             *)
LEMMA ResumePending_Inv ==
    ASSUME KInv, ResumePending, UNCHANGED uxCriticalNesting
    PROVE  /\ KInv' /\ NobodySleeps
           /\ \A u \in Task : Ready(u)' => Ready(u) \/ u = xPendingReadyList[1]
  <1> DEFINE D == pxDelayedTaskList
             O == pxOverflowDelayedTaskList
             P == xPendingReadyList
             t == P[1]
  <1>1. /\ UNCHANGED <<pxCurrentTCB, xStateItemValue, xNextTaskUnblockTime, xEventLists,
                       tickVars, prioVars, PENDING_SOFT_SV, xSchedulerRunning,
                       uxSchedulerSuspended>>
        /\ P # << >> /\ P' = Tail(P) /\ D' = Removed(D, t) /\ O' = Removed(O, t)
        /\ prvAddTaskToReadyList(t)
        /\ xYieldPending' = (xYieldPending \/ Preempts(t))
        /\ section' = [section EXCEPT !.moved = TRUE]
        /\ section \in Section /\ section.at = "pending"
        BY DEF ResumePending, KInv, TypeOK, Section
  <1>2. /\ IsTaskList(D) /\ IsTaskList(O) /\ IsTaskList(P) /\ xStateItemValue \in [Task -> Int]
        /\ \A e \in EventList : IsTaskList(xEventLists[e])
        /\ InOrder(D, xStateItemValue) /\ InOrder(O, xStateItemValue)
        BY ListFacts DEF KInv, WakeTimesAreAhead
  <1>3. /\ t \in Task /\ t \in Elements(P) /\ IsTaskList(P') /\ Elements(P') = Elements(P) \ {t}
    <2>1. /\ t \in Task /\ t \in Elements(P) /\ IsTaskList(Tail(P))
          /\ Elements(Tail(P)) = Elements(P) \ {t}
          BY <1>1, <1>2, TailIsTaskList
    <2> QED BY <1>1, <2>1
  <1>4. Delayed(t) BY <1>3 DEF KInv, EventListsAreExclusive
  <1>5. section' \in Section /\ section'.at = "pending" BY <1>1 DEF Section
  <1>6. xYieldPending' \in BOOLEAN BY <1>1 DEF Preempts
  <1> HIDE DEF t
  <1>7. /\ IsTaskList(D') /\ Elements(D') = Elements(D) \ {t} /\ InOrder(D', xStateItemValue)
        /\ IsTaskList(O') /\ Elements(O') = Elements(O) \ {t} /\ InOrder(O', xStateItemValue)
    <2>1. /\ IsTaskList(Removed(D, t)) /\ Elements(Removed(D, t)) = Elements(D) \ {t}
          /\ InOrder(Removed(D, t), xStateItemValue)
          BY <1>2, RemovedFacts
    <2>2. /\ IsTaskList(Removed(O, t)) /\ Elements(Removed(O, t)) = Elements(O) \ {t}
          /\ InOrder(Removed(O, t), xStateItemValue)
          BY <1>2, RemovedFacts
    <2> QED BY <1>1, <2>1, <2>2
  <1>8. /\ IsReadyLists(pxReadyTasksLists') /\ uxTopReadyPriority' \in Priority
        /\ StateListsAreExclusive' /\ ReadyIsRecorded'
        /\ \A u : Delayed(u)' <=> Delayed(u) /\ u # t
        /\ \A u \in Task : Ready(u)' <=> Ready(u) \/ u = t
        BY <1>1, <1>3, <1>4, <1>7, WakeFacts
  <1>9. EventListsAreExclusive'
    <2>1. \A f \in EventList : IsTaskList(xEventLists'[f])
                                /\ Elements(xEventLists'[f]) \subseteq Elements(xEventLists[f]) \ {t}
          BY <1>1, <1>2, <1>3 DEF KInv, EventListsAreExclusive, WaitingTasks
    <2> QED BY <1>3, <1>5, <1>8, <2>1, FewerWaiting
  <1>10. WakeTimesAreAhead' /\ LookIsInTime'
    <2>1. Elements(D') \subseteq Elements(D) /\ Elements(O') \subseteq Elements(O) BY <1>7
    <2> QED BY <1>1, <1>5, <1>7, <2>1, FewerDelayed
  <1>11. TypeOK'
        BY <1>1, <1>3, <1>5, <1>6, <1>7, <1>8
        DEF KInv, TypeOK, Section, IsTaskList, IsReadyLists
  <1>12. SectionsAreInStep' BY <1>1, <1>5 DEF KInv, SectionsAreInStep
  <1>13. PrioritiesComeBack' BY <1>1 DEF KInv, PrioritiesComeBack
  <1>14. NobodySleeps BY <1>1, <1>8, SameSleepers
  <1>15. KInv' BY <1>8, <1>9, <1>10, <1>11, <1>12, <1>13 DEF KInv
  <1> QED BY <1>8, <1>14, <1>15 DEF t

(* The pending list is empty: the next look is found anew.                  *)
LEMMA ResumePendingDone_Inv ==
    ASSUME KInv, ResumePendingDone, UNCHANGED uxCriticalNesting
    PROVE  KInv'
  <1>1. /\ UNCHANGED <<pxCurrentTCB, readyVars, pxDelayedTaskList,
                       pxOverflowDelayedTaskList, xStateItemValue, eventVars,
                       tickVars, prioVars, switchVars, xSchedulerRunning,
                       uxSchedulerSuspended>>
        /\ section.at = "pending" /\ xPendingReadyList = << >>
        /\ xNextTaskUnblockTime' = IF section.moved THEN HeadWakeTime(pxDelayedTaskList)
                                   ELSE xNextTaskUnblockTime
        /\ section' = [NoSection EXCEPT !.at = "ticks", !.left = uxPendedTicks]
        /\ uxPendedTicks \in 0 .. MaxPendedTicks
        BY DEF ResumePendingDone, KInv, TypeOK
  <1>2. section' \in Section /\ section'.at = "ticks"
        BY <1>1, SectionFacts DEF Section
  <1>3. /\ HeadWakeTime(pxDelayedTaskList) \in TickType
        /\ \A t \in Elements(pxDelayedTaskList) :
               HeadWakeTime(pxDelayedTaskList) <= xStateItemValue[t]
    <2>1. IsTaskList(pxDelayedTaskList) /\ InOrder(pxDelayedTaskList, xStateItemValue)
          BY ListFacts DEF KInv, WakeTimesAreAhead
    <2> QED BY <2>1, HeadIsFirst
  <1>4. TypeOK' BY <1>1, <1>2, <1>3 DEF KInv, TypeOK, Section
  <1>5. LookIsInTime' BY <1>1, <1>3 DEF KInv, LookIsInTime
  <1>6. WakeTimesAreAhead' BY <1>1, <1>2 DEF KInv, WakeTimesAreAhead, InTickLoop
  <1>7. \A u : Delayed(u)' <=> Delayed(u) BY <1>1 DEF Delayed
  <1>8. StateListsAreExclusive' BY <1>1, <1>7 DEF KInv, StateListsAreExclusive
  <1>9. EventListsAreExclusive' BY <1>1, <1>7, SameEvents
  <1>10. ReadyIsRecorded' BY <1>1 DEF KInv, ReadyIsRecorded, Ready
  <1>11. SectionsAreInStep' BY <1>1, <1>2 DEF KInv, SectionsAreInStep
  <1>12. PrioritiesComeBack' BY <1>1 DEF KInv, PrioritiesComeBack
  <1> QED BY <1>4, <1>5, <1>6, <1>8, <1>9, <1>10, <1>11, <1>12 DEF KInv

(* xTaskResumeAll ends with a yield, if one is due.                         *)
LEMMA ResumeEnd_Inv ==
    ASSUME KInv, ResumeEnd, UNCHANGED uxCriticalNesting
    PROVE  KInv'
  <1>1. /\ UNCHANGED <<pxCurrentTCB, readyVars, delayVars, eventVars, xTickCount,
                       prioVars, xYieldPending, xSchedulerRunning, uxSchedulerSuspended>>
        /\ section.at = "ticks" /\ section' = NoSection /\ uxPendedTicks' = 0
        /\ PENDING_SOFT_SV' \in BOOLEAN
        BY DEF ResumeEnd
  <1>2. section' \in Section /\ section'.at = "none" BY <1>1, SectionFacts
  <1>3. TypeOK' BY <1>1, <1>2, Bounds DEF KInv, TypeOK, Section
  <1>4. SectionsAreInStep' BY <1>1, <1>2 DEF KInv, SectionsAreInStep
  <1>5. /\ StateListsAreExclusive' /\ EventListsAreExclusive' /\ WakeTimesAreAhead'
        /\ LookIsInTime' /\ ReadyIsRecorded'
    <2>1. xPendingReadyList = << >>
          BY <1>1 DEF KInv, SectionsAreInStep, EventListsAreExclusive
    <2> QED BY <1>1, <1>2, <2>1, SameLists
  <1>6. PrioritiesComeBack' BY <1>1 DEF KInv, PrioritiesComeBack
  <1> QED BY <1>3, <1>4, <1>5, <1>6 DEF KInv
-----------------------------------------------------------------------------
(* The start: nobody is delayed yet.                                        *)
LEMMA vTaskStartScheduler_Inv ==
    ASSUME KInv, vTaskStartScheduler, UNCHANGED uxCriticalNesting
    PROVE  /\ KInv' /\ NobodySleeps /\ Ready(pxCurrentTCB)'
           /\ \A u \in Task : Ready(u)' => uxPriority[u] <= uxPriority[pxCurrentTCB']
  <1>1. /\ UNCHANGED <<pxDelayedTaskList, pxOverflowDelayedTaskList, xStateItemValue,
                       eventVars, uxPendedTicks, prioVars, PENDING_SOFT_SV,
                       uxSchedulerSuspended, section>>
        /\ xNextTaskUnblockTime' = portMAX_DELAY /\ xSchedulerRunning' = TRUE
        /\ xTickCount' = 0 /\ vTaskSwitchContext /\ ~xSchedulerRunning /\ Created(IdleTask)
        BY DEF vTaskStartScheduler
  <1>2. /\ pxDelayedTaskList = << >> /\ pxOverflowDelayedTaskList = << >>
        /\ uxSchedulerSuspended = 0 /\ section.at = "none"
        BY <1>1 DEF KInv, SectionsAreInStep
  <1>3. Elements(pxDelayedTaskList) = {} /\ Elements(pxOverflowDelayedTaskList) = {}
        BY <1>2 DEF Elements
  <1>4. Ready(IdleTask) BY <1>1, <1>3 DEF Created, Delayed
  <1>5. /\ IsReadyLists(pxReadyTasksLists') /\ uxTopReadyPriority' \in Priority
        /\ StateListsAreExclusive' /\ ReadyIsRecorded'
        /\ \A u : Delayed(u)' <=> Delayed(u)
        /\ \A u \in Task : Ready(u)' <=> Ready(u)
        /\ Ready(pxCurrentTCB)'
        /\ \A u \in Task : Ready(u) => uxPriority[u] <= uxPriority[pxCurrentTCB']
    <2>1. ~(uxSchedulerSuspended > 0) BY <1>2
    <2> QED BY <1>1, <1>4, <2>1, SwitchKeepsLists
  <1>6. pxCurrentTCB' \in Task /\ xYieldPending' \in BOOLEAN BY <1>1, <1>2, <1>4, SwitchFacts
  <1>7. xTickCount' \in TickType /\ xNextTaskUnblockTime' \in TickType
        BY <1>1, KernelAssumption DEF TickType, portMAX_DELAY
  <1>8. TypeOK' BY <1>1, <1>5, <1>6, <1>7 DEF KInv, TypeOK, IsReadyLists
  <1>9. SectionsAreInStep' BY <1>1, <1>2, <1>6 DEF SectionsAreInStep
  <1>10. WakeTimesAreAhead' BY <1>1, <1>3 DEF KInv, WakeTimesAreAhead
  <1>11. LookIsInTime' BY <1>1, <1>3 DEF LookIsInTime
  <1>12. EventListsAreExclusive'
        BY <1>1, <1>2, <1>5, SameEvents DEF KInv, EventListsAreExclusive
  <1>13. PrioritiesComeBack' BY <1>1 DEF KInv, PrioritiesComeBack
  <1>14. NobodySleeps BY <1>1, <1>5, SameSleepers
  <1>15. KInv' BY <1>5, <1>8, <1>9, <1>10, <1>11, <1>12, <1>13 DEF KInv
  <1> QED BY <1>5, <1>14, <1>15

(* xTaskCreate: a task in no list becomes ready.                            *)
LEMMA xTaskCreate_Inv ==
    ASSUME KInv, NEW t \in Task, NEW priority \in 0 .. configMAX_PRIORITIES,
           xTaskCreate(t, priority), uxCriticalNesting' \in 0 .. MaxCritical
    PROVE  KInv' /\ \A u \in Task : Ready(u)' <=> Ready(u) \/ u = t
  <1> DEFINE c == Cut(priority)
  <1>1. /\ UNCHANGED <<delayVars, eventVars, tickVars, xYieldPending, xSchedulerRunning,
                       uxSchedulerSuspended, section>>
        /\ ~Ready(t) /\ ~Delayed(t)
        /\ uxPriority' = [uxPriority EXCEPT ![t] = c]
        /\ uxBasePriority' = [uxBasePriority EXCEPT ![t] = c]
        /\ uxMutexesHeld' = [uxMutexesHeld EXCEPT ![t] = 0]
        /\ pxReadyTasksLists' = AddToReady(pxReadyTasksLists, t, c)
        /\ uxTopReadyPriority' = Higher(c, uxTopReadyPriority)
        BY DEF xTaskCreate, Created, prvInitialiseNewTask, prvAddNewTaskToReadyList,
               taskRECORD_READY_PRIORITY
  <1>2. /\ pxCurrentTCB' \in Task \cup {NULL}
        /\ xSchedulerRunning => pxCurrentTCB' \in Task
        /\ PENDING_SOFT_SV' \in BOOLEAN
    <2>1. prvAddNewTaskToReadyList(t, c) BY DEF xTaskCreate
    <2>2. pxCurrentTCB \in Task \cup {NULL} /\ PENDING_SOFT_SV \in BOOLEAN
          /\ (xSchedulerRunning => pxCurrentTCB \in Task)
          BY DEF KInv, TypeOK, SectionsAreInStep
    <2> HIDE DEF c
    <2>3. CASE pxCurrentTCB = NULL BY <2>1, <2>2, <2>3 DEF prvAddNewTaskToReadyList
    <2>4. CASE pxCurrentTCB # NULL /\ xSchedulerRunning
          BY <2>1, <2>2, <2>4 DEF prvAddNewTaskToReadyList
    <2>5. CASE pxCurrentTCB # NULL /\ ~xSchedulerRunning
          BY <2>1, <2>2, <2>5 DEF prvAddNewTaskToReadyList
    <2> QED BY <2>3, <2>4, <2>5
  <1>3. c \in Priority BY KernelAssumption DEF Cut, Priority
  <1> HIDE DEF c
  <1>4. /\ IsReadyLists(pxReadyTasksLists) /\ uxPriority \in [Task -> Priority]
        /\ uxBasePriority \in [Task -> Priority] /\ uxTopReadyPriority \in Priority
        /\ uxMutexesHeld \in [Task -> 0 .. MaxMutexesHeld]
        BY ListFacts DEF KInv, TypeOK
  <1>5. /\ uxPriority' \in [Task -> Priority] /\ uxBasePriority' \in [Task -> Priority]
        /\ uxMutexesHeld' \in [Task -> 0 .. MaxMutexesHeld]
        /\ uxPriority'[t] = c /\ uxBasePriority'[t] = c
        /\ \A u \in Task \ {t} : /\ uxPriority'[u] = uxPriority[u]
                                 /\ uxBasePriority'[u] = uxBasePriority[u]
                                 /\ uxMutexesHeld'[u] = uxMutexesHeld[u]
        BY <1>1, <1>3, <1>4, Bounds
  <1>6. /\ \A q \in Priority : \A u \in Task \cap Elements(pxReadyTasksLists[q]) :
               uxPriority[u] = q /\ ~Delayed(u)
        BY DEF KInv, StateListsAreExclusive
  <1>7. \A q \in Priority : t \notin Elements(pxReadyTasksLists[q])
        BY <1>1, <1>6 DEF Ready
  <1>8. /\ IsReadyLists(pxReadyTasksLists')
        /\ \A q \in Priority : Elements(pxReadyTasksLists'[q]) =
               IF q = c THEN Elements(pxReadyTasksLists[q]) \cup {t}
               ELSE Elements(pxReadyTasksLists[q])
    <2>1. t \notin Elements(pxReadyTasksLists[c]) BY <1>3, <1>7
    <2>2. /\ IsReadyLists(AddToReady(pxReadyTasksLists, t, c))
          /\ \A q \in Priority : Elements(AddToReady(pxReadyTasksLists, t, c)[q]) =
                 IF q = c THEN Elements(pxReadyTasksLists[q]) \cup {t}
                 ELSE Elements(pxReadyTasksLists[q])
          BY <1>3, <1>4, <2>1, AddToReadyFacts
    <2> QED BY <1>1, <2>2
  <1>9. \A u : Delayed(u)' <=> Delayed(u) BY <1>1 DEF Delayed
  <1>10. \A u \in Task : Ready(u)' <=> Ready(u) \/ u = t
    <2> TAKE u \in Task
    <2>1. CASE u = t BY <1>3, <1>5, <1>8, <2>1 DEF Ready
    <2>2. CASE u # t
      <3>1. uxPriority'[u] = uxPriority[u] /\ uxPriority[u] \in Priority BY <1>4, <1>5, <2>2
      <3>2. u \in Elements(pxReadyTasksLists'[uxPriority[u]]) <=>
                u \in Elements(pxReadyTasksLists[uxPriority[u]])
            BY <1>8, <2>2, <3>1
      <3> QED BY <2>2, <3>1, <3>2 DEF Ready
    <2> QED BY <2>1, <2>2
  <1>11. uxTopReadyPriority' \in Priority /\ uxTopReadyPriority <= uxTopReadyPriority'
         /\ c <= uxTopReadyPriority'
        BY <1>1, <1>3, <1>4 DEF Higher, Priority
  <1>12. StateListsAreExclusive'
    <2>1. \A q \in Priority : \A u \in Task \cap Elements(pxReadyTasksLists'[q]) :
              uxPriority'[u] = q /\ ~Delayed(u)'
      <3> TAKE q \in Priority
      <3> TAKE u \in Task \cap Elements(pxReadyTasksLists'[q])
      <3>1. CASE u = t
        <4>1. q = c BY <1>7, <1>8, <3>1
        <4> QED BY <1>1, <1>5, <1>9, <3>1, <4>1
      <3>2. CASE u # t
        <4>1. u \in Elements(pxReadyTasksLists[q]) BY <1>8, <3>2
        <4> QED BY <1>5, <1>6, <1>9, <3>2, <4>1
      <3> QED BY <3>1, <3>2
    <2> QED BY <1>1, <1>8, <2>1 DEF KInv, StateListsAreExclusive, IsReadyLists
  <1>13. ReadyIsRecorded'
    <2>1. ASSUME NEW u \in Task, Ready(u)' PROVE uxPriority'[u] <= uxTopReadyPriority'
      <3>1. CASE u = t BY <1>5, <1>11, <3>1
      <3>2. CASE u # t
        <4>1. uxPriority[u] <= uxTopReadyPriority /\ uxPriority'[u] = uxPriority[u]
              BY <1>5, <1>10, <2>1, <3>2 DEF KInv, ReadyIsRecorded
        <4> QED BY <1>4, <1>11, <4>1 DEF Priority
      <3> QED BY <3>1, <3>2
    <2> QED BY <1>1, <1>10, <2>1, KernelAssumption DEF KInv, ReadyIsRecorded
  <1>14. TypeOK' BY <1>1, <1>2, <1>5, <1>8, <1>11 DEF KInv, TypeOK, IsReadyLists
  <1>15. SectionsAreInStep' BY <1>1, <1>2 DEF KInv, SectionsAreInStep
  <1>16. EventListsAreExclusive'
        BY <1>1, <1>9, SameEvents DEF KInv, EventListsAreExclusive
  <1>17. WakeTimesAreAhead' /\ LookIsInTime'
        BY <1>1 DEF KInv, WakeTimesAreAhead, LookIsInTime, InTickLoop
  <1>18. PrioritiesComeBack'
    <2> SUFFICES ASSUME NEW u \in Task
                 PROVE  /\ uxBasePriority'[u] <= uxPriority'[u]
                        /\ uxMutexesHeld'[u] = 0 => uxPriority'[u] = uxBasePriority'[u]
        BY DEF PrioritiesComeBack
    <2>1. CASE u = t BY <1>3, <1>5, <2>1, KernelAssumption DEF Priority
    <2>2. CASE u # t
      <3>1. /\ uxPriority'[u] = uxPriority[u] /\ uxBasePriority'[u] = uxBasePriority[u]
            /\ uxMutexesHeld'[u] = uxMutexesHeld[u]
            BY <1>5, <2>2
      <3>2. /\ uxBasePriority[u] <= uxPriority[u]
            /\ uxMutexesHeld[u] = 0 => uxPriority[u] = uxBasePriority[u]
            BY DEF KInv, PrioritiesComeBack
      <3> QED BY <3>1, <3>2
    <2> QED BY <2>1, <2>2
  <1> QED BY <1>10, <1>12, <1>13, <1>14, <1>15, <1>16, <1>17, <1>18 DEF KInv
-----------------------------------------------------------------------------
(* The first task of an event list is woken, or noted while the scheduler   *)
(* is suspended.                                                            *)
LEMMA xTaskRemoveFromEventList_Inv ==
    ASSUME KInv, NEW e \in EventList, NEW yields \in BOOLEAN,
           xTaskRemoveFromEventList(e, yields), xSchedulerRunning, section = NoSection,
           uxCriticalNesting' \in 0 .. MaxCritical
    PROVE  /\ KInv' /\ NobodySleeps
           /\ xEventLists[e][1] \in WaitingTasks(e)
           /\ \A f \in EventList : WaitingTasks(f)' = WaitingTasks(f) \ {xEventLists[e][1]}
           /\ \A u \in Task : Ready(u)' => Ready(u) \/ u = xEventLists[e][1]
           /\ uxSchedulerSuspended > 0 => \A u \in Task : Ready(u)' => Ready(u)
  <1> DEFINE D == pxDelayedTaskList
             O == pxOverflowDelayedTaskList
             P == xPendingReadyList
             E == xEventLists[e]
             t == E[1]
             woken == uxPriority[t] > uxPriority[pxCurrentTCB]
  <1>1. /\ UNCHANGED <<pxCurrentTCB, xStateItemValue, xNextTaskUnblockTime, tickVars,
                       prioVars, xSchedulerRunning, uxSchedulerSuspended, section>>
        /\ E # << >> /\ xEventLists' = [xEventLists EXCEPT ![e] = Tail(@)]
        /\ xYieldPending' = (xYieldPending \/ woken)
        /\ PENDING_SOFT_SV' = (PENDING_SOFT_SV \/ (yields /\ woken))
        /\ section.at = "none"
        BY SectionFacts DEF xTaskRemoveFromEventList
  <1>2. /\ IF uxSchedulerSuspended = 0
           THEN /\ D' = Removed(D, t) /\ O' = Removed(O, t)
                /\ prvAddTaskToReadyList(t) /\ P' = P
           ELSE /\ P' = Append(P, t) /\ UNCHANGED <<D, O, readyVars>>
        BY DEF xTaskRemoveFromEventList
  <1>3. /\ IsTaskList(D) /\ IsTaskList(O) /\ IsTaskList(P) /\ IsTaskList(E)
        /\ \A f \in EventList : IsTaskList(xEventLists[f])
        /\ xStateItemValue \in [Task -> Int] /\ xEventLists \in [EventList -> Seq(Task)]
        /\ InOrder(D, xStateItemValue) /\ InOrder(O, xStateItemValue)
        BY ListFacts DEF KInv, TypeOK, WakeTimesAreAhead
  <1>4. /\ t \in Task /\ t \in Elements(E) /\ IsTaskList(Tail(E))
        /\ Elements(Tail(E)) = Elements(E) \ {t}
        BY <1>1, <1>3, TailIsTaskList
  <1>5. xYieldPending' \in BOOLEAN /\ PENDING_SOFT_SV' \in BOOLEAN BY <1>1
  <1>6. /\ Delayed(t) /\ t \notin Elements(P)
        /\ \A f \in EventList \ {e} : t \notin Elements(xEventLists[f])
        BY <1>4 DEF KInv, EventListsAreExclusive, WaitingTasks
  <1> HIDE DEF t
  <1>7. /\ xEventLists' \in [EventList -> Seq(Task)]
        /\ \A f \in EventList : /\ IsTaskList(xEventLists'[f])
                                /\ Elements(xEventLists'[f]) = Elements(xEventLists[f]) \ {t}
    <2>1. /\ xEventLists' \in [EventList -> Seq(Task)]
          /\ \A f \in EventList : xEventLists'[f] = IF f = e THEN Tail(E) ELSE xEventLists[f]
          BY <1>1, <1>3, <1>4 DEF IsTaskList
    <2>2. ASSUME NEW f \in EventList
          PROVE  /\ IsTaskList(xEventLists'[f])
                 /\ Elements(xEventLists'[f]) = Elements(xEventLists[f]) \ {t}
      <3>1. CASE f = e BY <1>4, <2>1, <3>1
      <3>2. CASE f # e BY <1>3, <1>6, <2>1, <3>2
      <3> QED BY <3>1, <3>2
    <2> QED BY <2>1, <2>2
  <1>8. SectionsAreInStep' BY <1>1 DEF KInv, SectionsAreInStep
  <1>9. PrioritiesComeBack' BY <1>1 DEF KInv, PrioritiesComeBack
  <1>10. \A f \in EventList : WaitingTasks(f)' = WaitingTasks(f) \ {t}
         BY <1>7 DEF WaitingTasks
  <1>11. xEventLists[e][1] = t /\ t \in WaitingTasks(e) BY <1>4 DEF WaitingTasks, t
  <1>12. CASE uxSchedulerSuspended = 0
    <2>1. D' = Removed(D, t) /\ O' = Removed(O, t) /\ prvAddTaskToReadyList(t) /\ P' = P
          BY <1>2, <1>12
    <2>2. /\ IsTaskList(D') /\ Elements(D') = Elements(D) \ {t} /\ InOrder(D', xStateItemValue)
          /\ IsTaskList(O') /\ Elements(O') = Elements(O) \ {t} /\ InOrder(O', xStateItemValue)
      <3>1. /\ IsTaskList(Removed(D, t)) /\ Elements(Removed(D, t)) = Elements(D) \ {t}
            /\ InOrder(Removed(D, t), xStateItemValue)
            BY <1>3, RemovedFacts
      <3>2. /\ IsTaskList(Removed(O, t)) /\ Elements(Removed(O, t)) = Elements(O) \ {t}
            /\ InOrder(Removed(O, t), xStateItemValue)
            BY <1>3, RemovedFacts
      <3> QED BY <2>1, <3>1, <3>2
    <2>3. /\ IsReadyLists(pxReadyTasksLists') /\ uxTopReadyPriority' \in Priority
          /\ StateListsAreExclusive' /\ ReadyIsRecorded'
          /\ \A u : Delayed(u)' <=> Delayed(u) /\ u # t
          /\ \A u \in Task : Ready(u)' <=> Ready(u) \/ u = t
          BY <1>1, <1>4, <1>6, <2>1, <2>2, WakeFacts
    <2>4. EventListsAreExclusive'
      <3>1. P = << >> BY <1>1, <1>12 DEF KInv, EventListsAreExclusive
      <3>2. IsTaskList(P') /\ Elements(P') \subseteq Elements(P) \ {t} /\ P' = << >>
            BY <1>3, <1>6, <2>1, <3>1
      <3>3. \A f \in EventList : IsTaskList(xEventLists'[f])
                                  /\ Elements(xEventLists'[f]) \subseteq Elements(xEventLists[f]) \ {t}
            BY <1>7
      <3> QED BY <2>3, <3>2, <3>3, FewerWaiting
    <2>5. WakeTimesAreAhead' /\ LookIsInTime'
      <3>1. Elements(D') \subseteq Elements(D) /\ Elements(O') \subseteq Elements(O) BY <2>2
      <3> QED BY <1>1, <2>2, <3>1, FewerDelayed
    <2>6. TypeOK'
          BY <1>1, <1>5, <1>7, <2>1, <2>2, <2>3
          DEF KInv, TypeOK, IsTaskList, IsReadyLists
    <2>7. NobodySleeps BY <1>1, <1>10, <2>3 DEF NobodySleeps
    <2>8. ~(uxSchedulerSuspended > 0) BY <1>12
    <2>9. KInv' BY <1>8, <1>9, <2>3, <2>4, <2>5, <2>6 DEF KInv
    <2> QED BY <1>10, <1>11, <2>3, <2>7, <2>8, <2>9
  <1>13. CASE uxSchedulerSuspended # 0
    <2>1. P' = Append(P, t) /\ UNCHANGED <<D, O, readyVars>> BY <1>2, <1>13
    <2>2. uxSchedulerSuspended > 0 BY <1>13, Bounds DEF KInv, TypeOK
    <2>3. IsTaskList(P') /\ Elements(P') = Elements(P) \cup {t}
      <3>1. IsTaskList(Append(P, t)) /\ Elements(Append(P, t)) = Elements(P) \cup {t}
            BY <1>3, <1>4, <1>6, AppendToList DEF IsTaskList
      <3> QED BY <2>1, <3>1
    <2>4. \A u : Delayed(u)' <=> Delayed(u) BY <2>1 DEF Delayed
    <2>5. EventListsAreExclusive'
      <3>1. /\ \A f, g \in EventList : f # g =>
                   Elements(xEventLists[f]) \cap Elements(xEventLists[g]) = {}
            /\ \A f \in EventList : Elements(xEventLists[f]) \cap Elements(P) = {}
            /\ \A u \in Elements(P) : Delayed(u)
            /\ \A f \in EventList : \A u \in Elements(xEventLists[f]) : Delayed(u)
            BY DEF KInv, EventListsAreExclusive, WaitingTasks
      <3>2. \A f, g \in EventList : f # g =>
                Elements(xEventLists'[f]) \cap Elements(xEventLists'[g]) = {}
            BY <1>7, <3>1
      <3>3. \A f \in EventList : Elements(xEventLists'[f]) \cap Elements(P') = {}
            BY <1>7, <2>3, <3>1
      <3>4. /\ \A u \in Elements(P') : Delayed(u)'
            /\ \A f \in EventList : \A u \in Elements(xEventLists'[f]) : Delayed(u)'
            BY <1>6, <1>7, <2>3, <2>4, <3>1
      <3> QED BY <1>1, <1>7, <2>2, <2>3, <3>2, <3>3, <3>4
              DEF EventListsAreExclusive, WaitingTasks, IsTaskList
    <2>6. StateListsAreExclusive' BY <1>1, <2>1, <2>4 DEF KInv, StateListsAreExclusive
    <2>7. ReadyIsRecorded' BY <1>1, <2>1 DEF KInv, ReadyIsRecorded, Ready
    <2>8. WakeTimesAreAhead' /\ LookIsInTime'
          BY <1>1, <2>1 DEF KInv, WakeTimesAreAhead, LookIsInTime, InTickLoop
    <2>9. TypeOK' BY <1>1, <1>5, <1>7, <2>1, <2>3 DEF KInv, TypeOK, IsTaskList
    <2>10. \A u \in Task : Ready(u)' <=> Ready(u) BY <1>1, <2>1 DEF Ready
    <2>11. NobodySleeps BY <1>1, <1>10, <2>4, <2>10 DEF NobodySleeps
    <2>12. KInv' BY <1>8, <1>9, <2>5, <2>6, <2>7, <2>8, <2>9 DEF KInv
    <2> QED BY <1>10, <1>11, <2>10, <2>11, <2>12
  <1> QED BY <1>12, <1>13
-----------------------------------------------------------------------------
(* Priorities change in place.                                              *)
LEMMA PriorityKeepsRest ==
    ASSUME KInv, NEW t \in Task, NEW p \in Priority,
           SetPriority(t, p) \/ UNCHANGED <<uxPriority, readyVars>>,
           UNCHANGED <<pxCurrentTCB, delayVars, eventVars, tickVars, uxBasePriority,
                       switchVars, xSchedulerRunning, uxSchedulerSuspended, section>>,
           uxMutexesHeld' \in [Task -> 0 .. MaxMutexesHeld],
           uxCriticalNesting' \in 0 .. MaxCritical,
           PrioritiesComeBack'
    PROVE  KInv'
  <1>1. /\ IsReadyLists(pxReadyTasksLists') /\ uxTopReadyPriority' \in Priority
        /\ uxPriority' \in [Task -> Priority]
        /\ StateListsAreExclusive' /\ ReadyIsRecorded'
        /\ \A u : Delayed(u)' <=> Delayed(u)
    <2>1. CASE SetPriority(t, p) BY <2>1, SetPriorityKeepsLists
    <2>2. CASE UNCHANGED <<uxPriority, readyVars>>
      <3>1. \A u : Delayed(u)' <=> Delayed(u) BY DEF Delayed
      <3>2. StateListsAreExclusive' BY <2>2, <3>1 DEF KInv, StateListsAreExclusive
      <3>3. ReadyIsRecorded' BY <2>2 DEF KInv, ReadyIsRecorded, Ready
      <3>4. IsReadyLists(pxReadyTasksLists') BY <2>2, ListFacts
      <3> QED BY <2>2, <3>1, <3>2, <3>3, <3>4 DEF KInv, TypeOK
    <2> QED BY <2>1, <2>2
  <1>2. TypeOK' BY <1>1 DEF KInv, TypeOK, IsReadyLists
  <1>3. SectionsAreInStep' BY DEF KInv, SectionsAreInStep
  <1>4. EventListsAreExclusive' BY <1>1, SameEvents DEF KInv, EventListsAreExclusive
  <1>5. WakeTimesAreAhead' /\ LookIsInTime'
        BY DEF KInv, WakeTimesAreAhead, LookIsInTime, InTickLoop
  <1> QED BY <1>1, <1>2, <1>3, <1>4, <1>5 DEF KInv

(* A holder gets a priority that is not below its own.                      *)
LEMMA HolderPriority ==
    ASSUME KInv, NEW h \in Task, NEW p \in Priority, uxMutexesHeld[h] > 0,
           uxBasePriority[h] <= p,
           SetPriority(h, p) \/ UNCHANGED <<uxPriority, readyVars>>,
           UNCHANGED <<uxBasePriority, uxMutexesHeld>>
    PROVE  PrioritiesComeBack'
  <1>1. /\ uxPriority \in [Task -> Priority] /\ uxMutexesHeld \in [Task -> 0 .. MaxMutexesHeld]
        /\ \A u \in Task : /\ uxBasePriority[u] <= uxPriority[u]
                           /\ uxMutexesHeld[u] = 0 => uxPriority[u] = uxBasePriority[u]
        BY DEF KInv, TypeOK, PrioritiesComeBack
  <1>2. uxMutexesHeld[h] # 0 BY <1>1, Bounds
  <1>3. CASE SetPriority(h, p)
    <2>1. uxPriority'[h] = p /\ \A u \in Task \ {h} : uxPriority'[u] = uxPriority[u]
          BY <1>1, <1>3 DEF SetPriority
    <2> QED BY <1>1, <1>2, <2>1 DEF PrioritiesComeBack
  <1>4. CASE UNCHANGED <<uxPriority, readyVars>> BY <1>1, <1>4 DEF PrioritiesComeBack
  <1> QED BY <1>3, <1>4

(* A holder inherits the priority of the current task.                      *)
LEMMA xTaskPriorityInherit_Inv ==
    ASSUME KInv, TaskRuns, NEW h \in Task, uxMutexesHeld[h] > 0, xTaskPriorityInherit(h),
           uxCriticalNesting' \in 0 .. MaxCritical
    PROVE  KInv'
  <1> DEFINE p == uxPriority[pxCurrentTCB]
  <1>1. /\ UNCHANGED <<pxCurrentTCB, delayVars, eventVars, tickVars, uxBasePriority,
                       uxMutexesHeld, switchVars, xSchedulerRunning, uxSchedulerSuspended,
                       section>>
        /\ (uxPriority[h] < p /\ SetPriority(h, p)) \/ UNCHANGED <<uxPriority, readyVars>>
        BY DEF xTaskPriorityInherit
  <1>2. /\ p \in Priority /\ uxPriority[h] \in Priority /\ uxBasePriority[h] \in Priority
        /\ uxBasePriority[h] <= uxPriority[h]
        /\ uxMutexesHeld \in [Task -> 0 .. MaxMutexesHeld]
        BY DEF KInv, TypeOK, SectionsAreInStep, TaskRuns, PrioritiesComeBack
  <1>3. uxPriority[h] < p => uxBasePriority[h] <= p BY <1>2 DEF Priority
  <1> HIDE DEF p
  <1>4. CASE uxPriority[h] < p /\ SetPriority(h, p)
    <2>1. PrioritiesComeBack' BY <1>1, <1>2, <1>3, <1>4, HolderPriority
    <2> QED BY <1>1, <1>2, <1>4, <2>1, PriorityKeepsRest
  <1>5. CASE UNCHANGED <<uxPriority, readyVars>>
    <2>1. PrioritiesComeBack' BY <1>1, <1>5 DEF KInv, PrioritiesComeBack
    <2> QED BY <1>1, <1>2, <1>5, <2>1, PriorityKeepsRest
  <1> QED BY <1>1, <1>4, <1>5

(* A holder falls back to the best waiter that is left.                     *)
LEMMA vTaskPriorityDisinheritAfterTimeout_Inv ==
    ASSUME KInv, TaskRuns, NEW h \in Task, uxMutexesHeld[h] > 0, NEW highest \in Priority,
           vTaskPriorityDisinheritAfterTimeout(h, highest),
           uxCriticalNesting' \in 0 .. MaxCritical
    PROVE  KInv'
  <1> DEFINE p == Higher(uxBasePriority[h], highest)
  <1>1. /\ UNCHANGED <<pxCurrentTCB, delayVars, eventVars, tickVars, uxBasePriority,
                       uxMutexesHeld, switchVars, xSchedulerRunning, uxSchedulerSuspended,
                       section>>
        /\ SetPriority(h, p) \/ UNCHANGED <<uxPriority, readyVars>>
        BY DEF vTaskPriorityDisinheritAfterTimeout
  <1>2. /\ p \in Priority /\ uxBasePriority[h] <= p
        /\ uxMutexesHeld \in [Task -> 0 .. MaxMutexesHeld]
    <2>1. uxBasePriority[h] \in Priority /\ uxMutexesHeld \in [Task -> 0 .. MaxMutexesHeld]
          BY DEF KInv, TypeOK
    <2> QED BY <2>1 DEF Priority, Higher
  <1> HIDE DEF p
  <1>3. PrioritiesComeBack' BY <1>1, <1>2, HolderPriority
  <1> QED BY <1>1, <1>2, <1>3, PriorityKeepsRest

(* The last mutex given back takes the inherited priority away.             *)
LEMMA xTaskPriorityDisinherit_Inv ==
    ASSUME KInv, TaskRuns, xTaskPriorityDisinherit, uxCriticalNesting' \in 0 .. MaxCritical
    PROVE  KInv'
  <1> DEFINE t == pxCurrentTCB
             p == uxBasePriority[t]
  <1>1. /\ UNCHANGED <<pxCurrentTCB, delayVars, eventVars, tickVars, uxBasePriority,
                       switchVars, xSchedulerRunning, uxSchedulerSuspended, section>>
        /\ uxMutexesHeld[t] > 0 /\ uxMutexesHeld' = [uxMutexesHeld EXCEPT ![t] = @ - 1]
        /\ IF xYieldRequired THEN SetPriority(t, p) ELSE UNCHANGED <<uxPriority, readyVars>>
        BY DEF xTaskPriorityDisinherit
  <1>2. /\ t \in Task /\ p \in Priority /\ uxPriority \in [Task -> Priority]
        /\ uxMutexesHeld \in [Task -> 0 .. MaxMutexesHeld]
        /\ \A u \in Task : /\ uxBasePriority[u] <= uxPriority[u]
                           /\ uxMutexesHeld[u] = 0 => uxPriority[u] = uxBasePriority[u]
        BY DEF KInv, TypeOK, SectionsAreInStep, TaskRuns, PrioritiesComeBack
  <1>3. /\ uxMutexesHeld' \in [Task -> 0 .. MaxMutexesHeld]
        /\ uxMutexesHeld'[t] = 0 => uxMutexesHeld[t] = 1
        /\ \A u \in Task \ {t} : uxMutexesHeld'[u] = uxMutexesHeld[u]
        BY <1>1, <1>2, Bounds
  <1>4. PrioritiesComeBack'
    <2>1. CASE xYieldRequired
      <3>1. uxPriority'[t] = p /\ \A u \in Task \ {t} : uxPriority'[u] = uxPriority[u]
            BY <1>1, <1>2, <2>1 DEF SetPriority
      <3>2. p <= p BY <1>2, KernelAssumption DEF Priority
      <3> QED BY <1>1, <1>2, <1>3, <3>1, <3>2 DEF PrioritiesComeBack
    <2>2. CASE ~xYieldRequired
      <3>1. uxMutexesHeld'[t] = 0 => uxPriority[t] = p BY <1>3, <2>2 DEF xYieldRequired
      <3> QED BY <1>1, <1>2, <1>3, <2>2, <3>1 DEF PrioritiesComeBack
    <2> QED BY <2>1, <2>2
  <1>5. SetPriority(t, p) \/ UNCHANGED <<uxPriority, readyVars>> BY <1>1
  <1> HIDE DEF t, p
  <1>6. UNCHANGED <<pxCurrentTCB, delayVars, eventVars, tickVars, uxBasePriority,
                    switchVars, xSchedulerRunning, uxSchedulerSuspended, section>>
        BY <1>1
  <1> QED BY <1>2, <1>3, <1>4, <1>5, <1>6, PriorityKeepsRest
-----------------------------------------------------------------------------
(* vTaskPlaceOnEventList: the current task leaves its ready list and waits, *)
(* in an event list and, for the ticks it gives, in a delayed list.         *)
LEMMA vTaskPlaceOnEventList_Inv ==
    ASSUME KInv, TaskRuns, pxCurrentTCB # IdleTask, Ready(pxCurrentTCB),
           uxSchedulerSuspended > 0, NEW e \in EventList, NEW n \in 1 .. portMAX_DELAY,
           vTaskPlaceOnEventList(e, n), uxCriticalNesting' \in 0 .. MaxCritical
    PROVE  /\ KInv' /\ \A u \in Task : Ready(u)' <=> Ready(u) /\ u # pxCurrentTCB
           /\ \A u : Delayed(u)' <=> Delayed(u) \/ u = pxCurrentTCB
           /\ \A f \in EventList : WaitingTasks(f)' =
                  IF f = e THEN WaitingTasks(f) \cup {pxCurrentTCB} ELSE WaitingTasks(f)
           /\ pxCurrentTCB \notin WaitingTasks(e)
  <1> DEFINE D == pxDelayedTaskList
             O == pxOverflowDelayedTaskList
             t == pxCurrentTCB
             q == uxPriority[t]
             wake == (xTickCount + n) % TickMod
             times == [xStateItemValue EXCEPT ![t] = wake]
  <1>1. /\ UNCHANGED <<pxCurrentTCB, uxTopReadyPriority, xPendingReadyList, tickVars,
                       prioVars, switchVars, xSchedulerRunning, uxSchedulerSuspended, section>>
        /\ pxReadyTasksLists' = [pxReadyTasksLists EXCEPT ![q] = Without(@, t)]
        /\ xStateItemValue' = times
        /\ xEventLists' = [xEventLists EXCEPT ![e] = InsertInOrder(@, t, EventItemValue)]
        /\ xSchedulerRunning /\ section.at = "none"
        BY SectionFacts DEF vTaskPlaceOnEventList, prvAddCurrentTaskToDelayedList, TaskRuns
  <1>2. \/ /\ wake < xTickCount /\ O' = InsertInOrder(O, t, times)
           /\ UNCHANGED <<D, xNextTaskUnblockTime>>
        \/ /\ ~(wake < xTickCount) /\ D' = InsertInOrder(D, t, times) /\ O' = O
           /\ xNextTaskUnblockTime' = IF wake < xNextTaskUnblockTime THEN wake
                                      ELSE xNextTaskUnblockTime
        BY DEF vTaskPlaceOnEventList, prvAddCurrentTaskToDelayedList, WakesAfterWrap, LookNoLater
  <1>3. /\ t \in Task /\ xTickCount \in TickType /\ xNextTaskUnblockTime \in TickType
        /\ xStateItemValue \in [Task -> TickType] /\ uxPriority \in [Task -> Priority]
        /\ q \in Priority /\ uxTopReadyPriority \in Priority
        /\ xEventLists \in [EventList -> Seq(Task)]
        BY <1>1 DEF KInv, TypeOK, SectionsAreInStep
  <1>4. wake \in TickType /\ wake # xTickCount
    <2>1. n \in 1 .. TickMod - 1 BY DEF portMAX_DELAY
    <2>2. /\ xTickCount + n < TickMod => wake = xTickCount + n
          /\ xTickCount + n >= TickMod => wake = xTickCount + n - TickMod
          BY <1>3, <2>1, WrapFacts
    <2> HIDE DEF wake
    <2> QED BY <1>3, <2>1, <2>2, KernelAssumption DEF TickType
  <1> HIDE DEF wake
  <1>5. /\ times \in [Task -> TickType] /\ times[t] = wake
        /\ \A u \in Task \ {t} : times[u] = xStateItemValue[u]
        BY <1>3, <1>4
  <1>6. times \in [Task -> Int] BY <1>5, KernelAssumption DEF TickType
  <1> HIDE DEF times
  <1>7. /\ IsTaskList(D) /\ IsTaskList(O) /\ IsReadyLists(pxReadyTasksLists)
        /\ \A f \in EventList : IsTaskList(xEventLists[f])
        /\ Elements(D) \subseteq Task /\ Elements(O) \subseteq Task
        /\ IsTaskList(xPendingReadyList)
        BY ListFacts, ElementsOf DEF IsTaskList
  <1>8. /\ ~Delayed(t)
        /\ t \notin Elements(D) /\ t \notin Elements(O)
        /\ t \notin Elements(xPendingReadyList)
        /\ \A f \in EventList : t \notin Elements(xEventLists[f])
    <2>1. ~Delayed(t) BY <1>3 DEF KInv, StateListsAreExclusive, Ready
    <2> QED BY <2>1 DEF KInv, EventListsAreExclusive, WaitingTasks, Delayed
  <1>9. /\ InOrder(D, times) /\ InOrder(O, times)
        /\ \A u \in Elements(D) : times[u] > xTickCount /\ xNextTaskUnblockTime <= times[u]
        /\ \A u \in Elements(O) : times[u] < xTickCount
    <2>1. /\ InOrder(D, xStateItemValue) /\ InOrder(O, xStateItemValue)
          /\ \A u \in Elements(D) : /\ xStateItemValue[u] > xTickCount
                                    /\ xNextTaskUnblockTime <= xStateItemValue[u]
          /\ \A u \in Elements(O) : xStateItemValue[u] < xTickCount
          BY <1>1 DEF KInv, WakeTimesAreAhead, LookIsInTime, InTickLoop
    <2>2. /\ \A u \in Elements(D) : times[u] = xStateItemValue[u]
          /\ \A u \in Elements(O) : times[u] = xStateItemValue[u]
          BY <1>5, <1>7, <1>8
    <2>3. InOrder(D, times)
      <3>1. \A i \in 1 .. Len(D) : D[i] \in Elements(D) BY <1>7, ElementsOf DEF IsTaskList
      <3>2. \A i \in 1 .. Len(D) : times[D[i]] = xStateItemValue[D[i]] BY <2>2, <3>1
      <3> QED BY <2>1, <3>2 DEF InOrder
    <2>4. InOrder(O, times)
      <3>1. \A i \in 1 .. Len(O) : O[i] \in Elements(O) BY <1>7, ElementsOf DEF IsTaskList
      <3>2. \A i \in 1 .. Len(O) : times[O[i]] = xStateItemValue[O[i]] BY <2>2, <3>1
      <3> QED BY <2>1, <3>2 DEF InOrder
    <2> QED BY <2>1, <2>2, <2>3, <2>4
  <1>10. \/ /\ wake < xTickCount /\ UNCHANGED <<D, xNextTaskUnblockTime>>
            /\ IsTaskList(O') /\ Elements(O') = Elements(O) \cup {t} /\ InOrder(O', times)
         \/ /\ wake > xTickCount /\ O' = O
            /\ xNextTaskUnblockTime' = IF wake < xNextTaskUnblockTime THEN wake
                                       ELSE xNextTaskUnblockTime
            /\ IsTaskList(D') /\ Elements(D') = Elements(D) \cup {t} /\ InOrder(D', times)
    <2>1. /\ IsTaskList(InsertInOrder(O, t, times)) /\ InOrder(InsertInOrder(O, t, times), times)
          /\ Elements(InsertInOrder(O, t, times)) = Elements(O) \cup {t}
          BY <1>3, <1>6, <1>7, <1>8, <1>9, InsertInOrderFacts DEF IsTaskList
    <2>2. /\ IsTaskList(InsertInOrder(D, t, times)) /\ InOrder(InsertInOrder(D, t, times), times)
          /\ Elements(InsertInOrder(D, t, times)) = Elements(D) \cup {t}
          BY <1>3, <1>6, <1>7, <1>8, <1>9, InsertInOrderFacts DEF IsTaskList
    <2>3. ~(wake < xTickCount) => wake > xTickCount
          BY <1>3, <1>4, KernelAssumption DEF TickType
    <2> QED BY <1>2, <2>1, <2>2, <2>3
  <1>11. /\ IsTaskList(D') /\ IsTaskList(O') /\ xNextTaskUnblockTime' \in TickType
         /\ \A u : Delayed(u)' <=> Delayed(u) \/ u = t
         /\ Elements(D') \cap Elements(O') = {}
    <2>1. Elements(D) \cap Elements(O) = {} BY DEF KInv, StateListsAreExclusive
    <2> QED BY <1>3, <1>4, <1>7, <1>8, <1>10, <2>1 DEF Delayed
  <1>12. WakeTimesAreAhead' /\ LookIsInTime'
    <2>1. /\ InOrder(D', times) /\ InOrder(O', times)
          /\ \A u \in Elements(O') : times[u] < xTickCount
          BY <1>5, <1>9, <1>10
    <2>2. \A u \in Elements(D') : times[u] > xTickCount /\ xNextTaskUnblockTime' <= times[u]
      <3>1. CASE UNCHANGED <<D, xNextTaskUnblockTime>> BY <1>9, <3>1
      <3>2. CASE /\ wake > xTickCount
                 /\ xNextTaskUnblockTime' = IF wake < xNextTaskUnblockTime THEN wake
                                            ELSE xNextTaskUnblockTime
                 /\ Elements(D') = Elements(D) \cup {t}
        <4>1. /\ wake \in Int /\ xNextTaskUnblockTime \in Int
              /\ \A u \in Task : times[u] \in Int
              BY <1>3, <1>4, <1>6, KernelAssumption DEF TickType
        <4> QED BY <1>5, <1>7, <1>9, <3>2, <4>1
      <3> QED BY <1>10, <3>1, <3>2
    <2>3. xStateItemValue' = times /\ xTickCount' = xTickCount BY <1>1
    <2> QED BY <2>1, <2>2, <2>3 DEF WakeTimesAreAhead, LookIsInTime
  <1>13. /\ IsReadyLists(pxReadyTasksLists')
         /\ \A r \in Priority : Elements(pxReadyTasksLists'[r]) =
                IF r = q THEN Elements(pxReadyTasksLists[r]) \ {t}
                ELSE Elements(pxReadyTasksLists[r])
    <2>1. t \in Elements(pxReadyTasksLists[q]) BY DEF Ready
    <2>2. /\ IsReadyLists([pxReadyTasksLists EXCEPT ![q] = Without(@, t)])
          /\ \A r \in Priority : Elements([pxReadyTasksLists EXCEPT ![q] = Without(@, t)][r]) =
                 IF r = q THEN Elements(pxReadyTasksLists[r]) \ {t}
                 ELSE Elements(pxReadyTasksLists[r])
      <3>1. t \in Task /\ q \in Priority /\ IsReadyLists(pxReadyTasksLists) BY <1>3, <1>7
      <3> HIDE DEF t, q
      <3> QED BY <2>1, <3>1, TakeFromReadyFacts
    <2> QED BY <1>1, <2>2
  <1>14. \A r \in Priority : \A u \in Task :
             u \in Elements(pxReadyTasksLists'[r]) <=> u \in Elements(pxReadyTasksLists[r]) /\ u # t
    <2>1. \A r \in Priority : t \in Elements(pxReadyTasksLists[r]) => r = q
          BY <1>3 DEF KInv, StateListsAreExclusive
    <2> QED BY <1>13, <2>1
  <1>15. \A u \in Task : Ready(u)' <=> Ready(u) /\ u # t BY <1>1, <1>3, <1>14 DEF Ready
  <1>16. StateListsAreExclusive'
    <2>1. \A r \in Priority : \A u \in Task \cap Elements(pxReadyTasksLists'[r]) :
              uxPriority[u] = r /\ ~Delayed(u)'
          BY <1>11, <1>14 DEF KInv, StateListsAreExclusive
    <2> QED BY <1>1, <1>11, <1>13, <2>1 DEF StateListsAreExclusive, IsReadyLists, IsTaskList
  <1>17. ReadyIsRecorded' BY <1>1, <1>15, KernelAssumption DEF KInv, ReadyIsRecorded
  <1>18. /\ xEventLists' \in [EventList -> Seq(Task)]
         /\ \A f \in EventList :
                /\ IsTaskList(xEventLists'[f])
                /\ Elements(xEventLists'[f]) =
                       IF f = e THEN Elements(xEventLists[f]) \cup {t} ELSE Elements(xEventLists[f])
    <2> DEFINE s == InsertInOrder(xEventLists[e], t, EventItemValue)
    <2>1. EventItemValue \in [Task -> Int]
          BY <1>3, KernelAssumption DEF EventItemValue, Priority
    <2>2. IsTaskList(s) /\ Elements(s) = Elements(xEventLists[e]) \cup {t}
      <3>1. IsTaskList(xEventLists[e]) /\ t \notin Elements(xEventLists[e]) BY <1>7, <1>8
      <3> HIDE DEF t
      <3> QED BY <1>3, <2>1, <3>1, InsertInOrderFacts DEF IsTaskList
    <2>3. xEventLists' = [xEventLists EXCEPT ![e] = s] BY <1>1
    <2> HIDE DEF s
    <2>4. /\ xEventLists' \in [EventList -> Seq(Task)]
          /\ \A f \in EventList : xEventLists'[f] = IF f = e THEN s ELSE xEventLists[f]
          BY <1>3, <2>2, <2>3 DEF IsTaskList
    <2> QED BY <1>7, <2>2, <2>4
  <1>19. EventListsAreExclusive'
    <2>1. /\ \A f, g \in EventList : f # g =>
                 Elements(xEventLists[f]) \cap Elements(xEventLists[g]) = {}
          /\ \A f \in EventList : Elements(xEventLists[f]) \cap Elements(xPendingReadyList) = {}
          /\ \A u \in Elements(xPendingReadyList) : Delayed(u)
          /\ \A f \in EventList : \A u \in Elements(xEventLists[f]) : Delayed(u)
          /\ NoDuplicates(xPendingReadyList)
          BY DEF KInv, EventListsAreExclusive, WaitingTasks
    <2>2. ASSUME NEW f \in EventList, NEW g \in EventList, f # g
          PROVE  Elements(xEventLists'[f]) \cap Elements(xEventLists'[g]) = {}
      <3>1. /\ Elements(xEventLists[f]) \cap Elements(xEventLists[g]) = {}
            /\ t \notin Elements(xEventLists[f]) /\ t \notin Elements(xEventLists[g])
            BY <1>8, <2>1, <2>2
      <3>2. CASE f = e BY <1>18, <2>2, <3>1, <3>2
      <3>3. CASE g = e BY <1>18, <2>2, <3>1, <3>3
      <3>4. CASE f # e /\ g # e BY <1>18, <3>1, <3>4
      <3> QED BY <3>2, <3>3, <3>4
    <2>3. \A f \in EventList : Elements(xEventLists'[f]) \cap Elements(xPendingReadyList) = {}
          BY <1>8, <1>18, <2>1
    <2>4. /\ \A u \in Elements(xPendingReadyList) : Delayed(u)'
          /\ \A f \in EventList : \A u \in Elements(xEventLists'[f]) : Delayed(u)'
          BY <1>11, <1>18, <2>1
    <2> QED BY <1>1, <1>18, <2>1, <2>2, <2>3, <2>4
            DEF EventListsAreExclusive, WaitingTasks, IsTaskList
  <1>20. TypeOK'
        BY SMTT(40), <1>1, <1>5, <1>11, <1>13, <1>18 DEF KInv, TypeOK, IsTaskList, IsReadyLists
  <1>21. SectionsAreInStep' BY <1>1 DEF KInv, SectionsAreInStep
  <1>22. PrioritiesComeBack' BY <1>1 DEF KInv, PrioritiesComeBack
  <1>23. KInv' BY <1>12, <1>16, <1>17, <1>19, <1>20, <1>21, <1>22 DEF KInv
  <1>24. /\ \A f \in EventList : WaitingTasks(f)' =
                IF f = e THEN WaitingTasks(f) \cup {t} ELSE WaitingTasks(f)
         /\ t \notin WaitingTasks(e)
        BY <1>8, <1>18 DEF WaitingTasks
  <1> QED BY <1>11, <1>15, <1>23, <1>24
-----------------------------------------------------------------------------
(* prvInitialiseTaskLists and the initial values of the statics.            *)
LEMMA InitKInv == Init => KInv
  <1> SUFFICES ASSUME Init PROVE KInv OBVIOUS
  <1> DEFINE S == Task \cup {xListEnd}
  <1>1. /\ << >> \in Seq(Task) /\ <<xListEnd>> \in Seq(S)
        /\ Elements(<< >>) = {} /\ Elements(<<xListEnd>>) = {xListEnd}
        /\ NoDuplicates(<< >>) /\ NoDuplicates(<<xListEnd>>)
        BY DEF Elements, NoDuplicates
  <1>2. \A key : InOrder(<< >>, key) BY DEF InOrder
  <1>3. 0 \in Priority /\ 0 \in TickType BY KernelAssumption DEF Priority, TickType
  <1>4. /\ \A p \in Priority : pxReadyTasksLists[p] = <<xListEnd>>
        /\ \A e \in EventList : xEventLists[e] = << >>
        /\ \A t \in Task : uxPriority[t] = 0 /\ uxBasePriority[t] = 0
        BY DEF Init
  <1>5. TypeOK
    <2>1. section \in Section BY SectionFacts DEF Init
    <2>2. /\ pxReadyTasksLists \in [Priority -> Seq(S)]
          /\ xEventLists \in [EventList -> Seq(Task)]
          /\ xStateItemValue \in [Task -> TickType]
          BY <1>1, <1>3 DEF Init
    <2>3. /\ uxPriority \in [Task -> Priority] /\ uxBasePriority \in [Task -> Priority]
          /\ uxMutexesHeld \in [Task -> 0 .. MaxMutexesHeld]
          BY <1>3, Bounds DEF Init
    <2>4. /\ pxCurrentTCB \in Task \cup {NULL} /\ uxTopReadyPriority \in Priority
          /\ {pxDelayedTaskList, pxOverflowDelayedTaskList, xPendingReadyList} \subseteq Seq(Task)
          /\ xTickCount \in TickType /\ xNextTaskUnblockTime \in TickType
          /\ {xSchedulerRunning, xYieldPending, PENDING_SOFT_SV} \subseteq BOOLEAN
          BY <1>1, <1>3 DEF Init
    <2>5. /\ uxPendedTicks \in 0 .. MaxPendedTicks /\ uxSchedulerSuspended \in 0 .. MaxSuspended
          /\ uxCriticalNesting \in 0 .. MaxCritical
          BY Bounds DEF Init
    <2> QED BY <2>1, <2>2, <2>3, <2>4, <2>5 DEF TypeOK, Section
  <1>6. SectionsAreInStep BY SectionFacts DEF Init, SectionsAreInStep
  <1>7. \A t : ~Delayed(t) BY <1>1 DEF Init, Delayed
  <1>8. \A t \in Task : \A p \in Priority : t \notin Elements(pxReadyTasksLists[p])
        BY <1>1, <1>4, KernelAssumption
  <1>9. StateListsAreExclusive
    <2>1. pxDelayedTaskList = << >> /\ pxOverflowDelayedTaskList = << >> BY DEF Init
    <2> QED BY <1>1, <1>4, <1>8, <2>1 DEF StateListsAreExclusive
  <1>10. EventListsAreExclusive
    <2>1. xPendingReadyList = << >> BY DEF Init
    <2> QED BY <1>1, <1>4, <2>1 DEF EventListsAreExclusive, WaitingTasks
  <1>11. WakeTimesAreAhead /\ LookIsInTime
        BY <1>1, <1>2 DEF Init, WakeTimesAreAhead, LookIsInTime
  <1>12. ReadyIsRecorded
    <2>1. \A t \in Task : ~Ready(t) BY <1>3, <1>4, <1>8 DEF Ready
    <2> QED BY <2>1 DEF Init, ReadyIsRecorded
  <1>13. PrioritiesComeBack BY <1>4 DEF PrioritiesComeBack
  <1> QED BY <1>5, <1>6, <1>9, <1>10, <1>11, <1>12, <1>13 DEF KInv

(* Whatever the current task calls.                                         *)
LEMMA TaskStepKInv == ASSUME KInv, TaskStep PROVE KInv'
  <1>1. /\ TaskRuns /\ pxCurrentTCB # IdleTask /\ uxCriticalNesting' \in 0 .. MaxCritical
        /\ xSchedulerRunning /\ section = NoSection
        BY DEF TaskStep, TaskRuns
  <1>2. CASE portYIELD \/ UNCHANGED kernelVars BY <1>1, <1>2, portYIELD_Inv
  <1>3. CASE \E e \in EventList, yields \in BOOLEAN : xTaskRemoveFromEventList(e, yields)
        BY <1>1, <1>3, xTaskRemoveFromEventList_Inv
  <1>4. CASE xTaskResumeAll BY <1>1, <1>4, xTaskResumeAll_Inv
  <1>5. CASE \E t \in Task, p \in 0 .. configMAX_PRIORITIES : xTaskCreate(t, p)
        BY <1>1, <1>5, xTaskCreate_Inv
  <1>6. CASE vTaskSuspendAll BY <1>1, <1>6, vTaskSuspendAll_Inv
  <1>7. CASE /\ Ready(pxCurrentTCB) /\ uxSchedulerSuspended > 0
             /\ \E e \in EventList, n \in 1 .. portMAX_DELAY : vTaskPlaceOnEventList(e, n)
        BY <1>1, <1>7, vTaskPlaceOnEventList_Inv
  <1>8. CASE pvTaskIncrementMutexHeldCount BY <1>1, <1>8, pvTaskIncrementMutexHeldCount_Inv
  <1>9. CASE xTaskPriorityDisinherit BY <1>1, <1>9, xTaskPriorityDisinherit_Inv
  <1>10. CASE \E h \in Task : uxMutexesHeld[h] > 0 /\ xTaskPriorityInherit(h)
        BY <1>1, <1>10, xTaskPriorityInherit_Inv
  <1>11. CASE \E h \in Task, p \in Priority :
                  uxMutexesHeld[h] > 0 /\ vTaskPriorityDisinheritAfterTimeout(h, p)
        BY <1>1, <1>11, vTaskPriorityDisinheritAfterTimeout_Inv
  <1> QED BY <1>2, <1>3, <1>4, <1>5, <1>6, <1>7, <1>8, <1>9, <1>10, <1>11 DEF TaskStep

(* Every step keeps the invariant.                                          *)
LEMMA NextKInv == ASSUME KInv, [Next]_vars PROVE KInv'
  <1>1. uxCriticalNesting \in 0 .. MaxCritical BY DEF KInv, TypeOK
  <1>2. CASE TaskStep BY <1>2, TaskStepKInv
  <1>3. CASE Startup /\ UNCHANGED uxCriticalNesting
    <2>1. CASE \E t \in Task, p \in 0 .. configMAX_PRIORITIES : xTaskCreate(t, p)
          BY <1>1, <1>3, <2>1, xTaskCreate_Inv
    <2>2. CASE xTaskCreate(IdleTask, 0)
      <3>1. IdleTask \in Task /\ 0 \in 0 .. configMAX_PRIORITIES BY KernelAssumption
      <3> QED BY <1>1, <1>3, <2>2, <3>1, xTaskCreate_Inv
    <2>3. CASE vTaskStartScheduler BY <1>3, <2>3, vTaskStartScheduler_Inv
    <2> QED BY <1>3, <2>1, <2>2, <2>3 DEF Startup
  <1>4. CASE xPortSysTickHandle /\ UNCHANGED uxCriticalNesting BY <1>4, xPortSysTickHandle_Inv
  <1>5. CASE SV_ISR /\ UNCHANGED uxCriticalNesting BY <1>5, SV_ISR_Inv
  <1>6. CASE InterruptWakes /\ UNCHANGED uxCriticalNesting
    <2>1. xSchedulerRunning /\ section = NoSection BY <1>6 DEF InterruptWakes, InterruptsOn
    <2>2. PICK e \in EventList, yields \in BOOLEAN : xTaskRemoveFromEventList(e, yields)
          BY <1>6 DEF InterruptWakes
    <2> QED BY <1>1, <1>6, <2>1, <2>2, xTaskRemoveFromEventList_Inv
  <1>7. CASE SectionStep /\ UNCHANGED uxCriticalNesting
        BY <1>7, TickUnblock_Inv, TickReturn_Inv, ResumeTickReturn_Inv, ResumePending_Inv,
           ResumePendingDone_Inv, ResumeTick_Inv, ResumeEnd_Inv
        DEF SectionStep
  <1>8. CASE UNCHANGED vars BY <1>1, <1>8, portYIELD_Inv DEF vars
  <1> QED BY <1>2, <1>3, <1>4, <1>5, <1>6, <1>7, <1>8 DEF Next

(* KInv is inductive, and so every behaviour of the scheduler keeps it.     *)
LEMMA KInvHolds == Spec => []KInv
  BY InitKInv, NextKInv, PTL DEF Spec
-----------------------------------------------------------------------------
(* Every TCB, list and counter of task.c stays what it is declared to be,   *)
(* priorities and tick counts stay in range.                                *)
THEOREM KernelTypeCorrect == Spec => []TypeOK
  <1>1. KInv => TypeOK BY DEF KInv
  <1> QED BY <1>1, KInvHolds, PTL

(* uxListRemove always finds what it expects: every xStateListItem is in    *)
(* one list, every xEventListItem in at most one.                           *)
THEOREM ListsStayExclusive == Spec => []ListsAreExclusive
  <1>1. KInv => ListsAreExclusive BY DEF KInv, ListsAreExclusive
  <1> QED BY <1>1, KInvHolds, PTL

(* Nobody oversleeps, across any wrap of xTickCount: the delayed list is    *)
(* ahead of the count and empty when taskSWITCH_DELAYED_LISTS swaps it.     *)
THEOREM NobodyOversleeps == Spec => []WakeTimesAreAhead
  <1>1. KInv => WakeTimesAreAhead BY DEF KInv
  <1> QED BY <1>1, KInvHolds, PTL

(* xNextTaskUnblockTime never hides a task that is due.                     *)
THEOREM UnblockTimeIsInTime == Spec => []UnblockTimeIsNotLate
  <1>1. ASSUME KInv PROVE UnblockTimeIsNotLate
    <2> DEFINE D == pxDelayedTaskList
    <2>1. /\ IsTaskList(D) /\ InOrder(D, xStateItemValue)
          /\ xNextTaskUnblockTime \in TickType
          BY <1>1, ListFacts DEF KInv, TypeOK, WakeTimesAreAhead
    <2>2. CASE D = << >>
      <3>1. HeadWakeTime(D) = TickMod - 1 BY <2>2 DEF HeadWakeTime, portMAX_DELAY
      <3> QED BY <2>1, <3>1, KernelAssumption DEF UnblockTimeIsNotLate, TickType
    <2>3. CASE D # << >>
      <3>1. D[1] \in Elements(D) /\ HeadWakeTime(D) = xStateItemValue[D[1]]
            BY <1>1, <2>1, <2>3, HeadIsFirst
      <3> QED BY <1>1, <3>1 DEF KInv, LookIsInTime, UnblockTimeIsNotLate
    <2> QED BY <2>2, <2>3
  <1> QED BY <1>1, KInvHolds, PTL

(* The search of taskSELECT_HIGHEST_PRIORITY_TASK starts at or above every  *)
(* ready task and finds one, for the idle task never blocks.                *)
THEOREM SelectionIsSound == Spec => []SelectionFindsHighest
  <1>1. ASSUME KInv PROVE SelectionFindsHighest
    <2>1. ASSUME NEW p \in Priority, NonEmpty(p) PROVE p <= uxTopReadyPriority
      <3>1. \E t \in Task : t \in Elements(pxReadyTasksLists[p])
            BY <1>1, <2>1, NonEmptyMeans DEF KInv, TypeOK, StateListsAreExclusive, NonEmpty
      <3>2. PICK t \in Task : t \in Elements(pxReadyTasksLists[p]) BY <3>1
      <3>3. uxPriority[t] = p /\ Ready(t) BY <1>1, <3>2 DEF KInv, StateListsAreExclusive, Ready
      <3> QED BY <1>1, <3>3 DEF KInv, ReadyIsRecorded
    <2> QED BY <1>1, <2>1 DEF SelectionFindsHighest, KInv, ReadyIsRecorded
  <1> QED BY <1>1, KInvHolds, PTL

(* Priority inheritance only raises, and ends with the last mutex.          *)
THEOREM InheritanceEnds == Spec => []PrioritiesComeBack
  <1>1. KInv => PrioritiesComeBack BY DEF KInv
  <1> QED BY <1>1, KInvHolds, PTL
-----------------------------------------------------------------------------
(* Steps that keep the current task, the count and who is ready.            *)
StandsStill ==
    /\ UNCHANGED <<pxCurrentTCB, xTickCount>>
    /\ \A t \in Task \ {pxCurrentTCB} : Created(t) => Ready(t)' = Ready(t)

(* Nothing of it changes.                                                   *)
LEMMA SameReady ==
    ASSUME UNCHANGED <<pxCurrentTCB, xTickCount, pxReadyTasksLists, uxPriority>>
    PROVE  StandsStill
  BY DEF StandsStill, Ready

(* A switch does nothing while the scheduler is suspended, a tick is only   *)
(* counted, and a woken task only noted.                                    *)
LEMMA SuspendedStep ==
    ASSUME KInv, Next, uxSchedulerSuspended > 0, uxSchedulerSuspended' > 0
    PROVE  StandsStill
  <1>1. /\ uxSchedulerSuspended \in 0 .. MaxSuspended /\ uxSchedulerSuspended # 0
        BY Bounds DEF KInv, TypeOK
  <1>2. /\ xSchedulerRunning /\ section.at = "none" /\ pxCurrentTCB \in Task
        BY <1>1 DEF KInv, SectionsAreInStep
  <1>3. uxPriority \in [Task -> Priority] BY ListFacts
  <1>4. ASSUME NEW e \in EventList, NEW yields \in BOOLEAN, xTaskRemoveFromEventList(e, yields)
        PROVE  StandsStill
        BY <1>1, <1>4, SameReady DEF xTaskRemoveFromEventList
  <1>5. ASSUME NEW t \in Task, NEW p \in Priority,
               SetPriority(t, p) \/ UNCHANGED <<uxPriority, readyVars>>,
               UNCHANGED <<pxCurrentTCB, xTickCount, xSchedulerRunning, delayVars>>
        PROVE  StandsStill
    <2>1. CASE SetPriority(t, p)
      <3>1. \A u \in Task : Ready(u)' <=> Ready(u) BY <1>5, <2>1, SetPriorityKeepsLists
      <3> QED BY <1>5, <3>1 DEF StandsStill, Ready
    <2>2. CASE UNCHANGED <<uxPriority, readyVars>> BY <1>5, <2>2, SameReady
    <2> QED BY <1>5, <2>1, <2>2
  <1>6. CASE TaskStep
    <2>1. TaskRuns /\ pxCurrentTCB # IdleTask /\ uxCriticalNesting' \in 0 .. MaxCritical
          BY <1>6 DEF TaskStep
    <2>2. CASE \/ portYIELD \/ UNCHANGED kernelVars \/ xTaskResumeAll \/ vTaskSuspendAll
               \/ pvTaskIncrementMutexHeldCount
          BY <2>2, SameReady
          DEF portYIELD, xTaskResumeAll, vTaskSuspendAll, pvTaskIncrementMutexHeldCount
    <2>3. CASE \E e \in EventList, yields \in BOOLEAN : xTaskRemoveFromEventList(e, yields)
          BY <1>4, <2>3
    <2>4. ASSUME NEW t \in Task, NEW p \in 0 .. configMAX_PRIORITIES, xTaskCreate(t, p)
          PROVE  StandsStill
      <3>1. \A u \in Task : Ready(u)' <=> Ready(u) \/ u = t BY <2>1, <2>4, xTaskCreate_Inv
      <3>2. UNCHANGED <<pxCurrentTCB, xTickCount>> /\ ~Created(t)
            BY <1>2, <2>4, KernelAssumption DEF xTaskCreate, prvAddNewTaskToReadyList
      <3> QED BY <3>1, <3>2 DEF StandsStill, Ready
    <2>5. CASE /\ Ready(pxCurrentTCB) /\ uxSchedulerSuspended > 0
               /\ \E e \in EventList, n \in 1 .. portMAX_DELAY : vTaskPlaceOnEventList(e, n)
      <3>1. PICK e \in EventList, n \in 1 .. portMAX_DELAY : vTaskPlaceOnEventList(e, n) BY <2>5
      <3>2. \A u \in Task : Ready(u)' <=> Ready(u) /\ u # pxCurrentTCB
            BY <2>1, <2>5, <3>1, vTaskPlaceOnEventList_Inv
      <3>3. UNCHANGED <<pxCurrentTCB, xTickCount>> BY <3>1 DEF vTaskPlaceOnEventList
      <3> QED BY <3>2, <3>3 DEF StandsStill, Ready
    <2>6. CASE xTaskPriorityDisinherit
      <3> DEFINE p == uxBasePriority[pxCurrentTCB]
      <3>1. p \in Priority BY <1>2 DEF KInv, TypeOK
      <3>2. /\ SetPriority(pxCurrentTCB, p) \/ UNCHANGED <<uxPriority, readyVars>>
            /\ UNCHANGED <<pxCurrentTCB, xTickCount, xSchedulerRunning, delayVars>>
            BY <2>6 DEF xTaskPriorityDisinherit
      <3> HIDE DEF p
      <3> QED BY <1>2, <1>5, <3>1, <3>2
    <2>7. ASSUME NEW h \in Task, xTaskPriorityInherit(h) PROVE StandsStill
      <3> DEFINE p == uxPriority[pxCurrentTCB]
      <3>1. p \in Priority BY <1>2, <1>3
      <3>2. /\ SetPriority(h, p) \/ UNCHANGED <<uxPriority, readyVars>>
            /\ UNCHANGED <<pxCurrentTCB, xTickCount, xSchedulerRunning, delayVars>>
            BY <2>7 DEF xTaskPriorityInherit
      <3> HIDE DEF p
      <3> QED BY <1>5, <3>1, <3>2
    <2>8. ASSUME NEW h \in Task, NEW q \in Priority, vTaskPriorityDisinheritAfterTimeout(h, q)
          PROVE  StandsStill
      <3> DEFINE p == Higher(uxBasePriority[h], q)
      <3>1. p \in Priority BY DEF KInv, TypeOK, Higher
      <3>2. /\ SetPriority(h, p) \/ UNCHANGED <<uxPriority, readyVars>>
            /\ UNCHANGED <<pxCurrentTCB, xTickCount, xSchedulerRunning, delayVars>>
            BY <2>8 DEF vTaskPriorityDisinheritAfterTimeout
      <3> HIDE DEF p
      <3> QED BY <1>5, <3>1, <3>2
    <2> QED BY <1>6, <2>2, <2>3, <2>4, <2>5, <2>6, <2>7, <2>8 DEF TaskStep
  <1>7. CASE Startup BY <1>2, <1>7 DEF Startup
  <1>8. CASE xPortSysTickHandle BY <1>8, SameReady DEF xPortSysTickHandle
  <1>9. CASE SV_ISR BY <1>9, SameReady DEF SV_ISR, vTaskSwitchContext
  <1>10. CASE InterruptWakes BY <1>4, <1>10 DEF InterruptWakes
  <1>11. CASE SectionStep
        BY <1>2, <1>11
        DEF SectionStep, TickUnblock, TickReturn, ResumeTickReturn, ResumePending,
            ResumePendingDone, ResumeTick, ResumeEnd
  <1> QED BY <1>6, <1>7, <1>8, <1>9, <1>10, <1>11 DEF Next

(* While vTaskSuspendAll is in force no handler switches tasks, counts a    *)
(* tick or moves another task between the state lists: what                 *)
(* vTaskPlaceOnEventList relies on outside a critical section.              *)
THEOREM SuspensionIsSafe == Spec => SuspensionHoldsStill
  <1>1. ASSUME KInv, [Next]_vars
        PROVE  [uxSchedulerSuspended > 0 /\ uxSchedulerSuspended' > 0 =>
                  /\ UNCHANGED <<pxCurrentTCB, xTickCount>>
                  /\ \A t \in Task \ {pxCurrentTCB} :
                         Created(t) => Ready(t)' = Ready(t)]_vars
        BY <1>1, SuspendedStep DEF StandsStill
  <1> QED BY <1>1, KInvHolds, PTL DEF Spec, SuspensionHoldsStill
===============================================================================
