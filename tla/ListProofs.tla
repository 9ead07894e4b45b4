------------------------------ MODULE ListProofs ------------------------------
(***************************************************************************)
(* Lemmas about lists as sequences, which the proofs about the lists of    *)
(* the kernel and of the pools share.                                      *)
(***************************************************************************)
EXTENDS Lists, Functions, SequenceTheorems, WellFoundedInduction, TLAPS

-----------------------------------------------------------------------------
(* The least number, in place of an induction.                             *)

\* A set of natural numbers that is not empty has a least element.
LEMMA Least ==
  ASSUME NEW T \in SUBSET Nat, T # {}
  PROVE  \E m \in T : \A x \in T : m <= x
<1>. DEFINE R == OpToRel(<, Nat)
<1>1. IsWellFoundedOn(R, Nat)
  BY NatLessThanWellFounded
<1>2. \E m \in T : \A y \in T : ~ (<<y, m>> \in R)
  <2>. HIDE DEF R
  <2>. QED BY <1>1, WFMin
<1>3. ASSUME NEW a \in Nat, NEW b \in Nat, ~(<<b, a>> \in R)
      PROVE  a <= b
  BY <1>3 DEF OpToRel
<1>. QED BY <1>2, <1>3

\* A set of numbers that holds 0 and, with every number below n, its successor,
\* holds all numbers up to n.
LEMMA Upwards ==
  ASSUME NEW T, NEW n \in Nat, 0 \in T, \A i \in 1..n : i - 1 \in T => i \in T
  PROVE  \A i \in 0..n : i \in T
<1>. DEFINE F == {i \in 0..n : i \notin T}
<1>1. SUFFICES ASSUME F # {} PROVE FALSE
  OBVIOUS
<1>2. F \in SUBSET Nat
  OBVIOUS
<1>3. PICK m \in F : \A x \in F : m <= x
  <2>. HIDE DEF F
  <2>. QED BY <1>1, <1>2, Least
<1>4. m \in 1..n /\ m - 1 \in 0..n /\ ~(m <= m - 1)
  OBVIOUS
<1>5. m - 1 \in T
  BY <1>3, <1>4
<1>. QED BY <1>4, <1>5

-----------------------------------------------------------------------------
(* Queues without repetition.                                              *)

\* Appending an element adds it to the range and, if it is new, keeps the
\* sequence free of repetitions (List_insert behind the last item).
LEMMA AppendRange ==
  ASSUME NEW S, NEW s \in Seq(S), NEW x \in S
  PROVE  /\ Append(s, x) \in Seq(S)
         /\ Range(Append(s, x)) = Range(s) \cup {x}
         /\ IsInjective(s) /\ x \notin Range(s) => IsInjective(Append(s, x))
<1>1. /\ Append(s, x) \in Seq(S)
      /\ Len(Append(s, x)) = Len(s) + 1
      /\ \A i \in 1..Len(s) : Append(s, x)[i] = s[i]
      /\ Append(s, x)[Len(s) + 1] = x
  BY AppendProperties
<1>2. DOMAIN s = 1..Len(s) /\ DOMAIN Append(s, x) = 1..(Len(s) + 1) /\ Len(s) \in Nat
  BY <1>1, LenProperties
<1>3. Range(Append(s, x)) = Range(s) \cup {x}
  BY <1>1, <1>2 DEF Range
<1>4. ASSUME IsInjective(s), x \notin Range(s)
      PROVE  IsInjective(Append(s, x))
  BY <1>1, <1>2, <1>4 DEF IsInjective, Range
<1>. QED BY <1>1, <1>3, <1>4

\* A non-empty sequence is its head and its tail; without repetitions the head
\* is not in the tail (List_detach of the first item).
LEMMA TailRange ==
  ASSUME NEW S, NEW s \in Seq(S), s # <<>>
  PROVE  /\ Head(s) \in S
         /\ Tail(s) \in Seq(S)
         /\ Range(s) = Range(Tail(s)) \cup {Head(s)}
         /\ IsInjective(s) => IsInjective(Tail(s)) /\ Head(s) \notin Range(Tail(s))
<1>1. /\ Head(s) \in S /\ Head(s) = s[1]
      /\ Tail(s) \in Seq(S)
      /\ Len(Tail(s)) = Len(s) - 1
      /\ \A i \in 1..Len(Tail(s)) : Tail(s)[i] = s[i + 1]
  BY HeadTailProperties
<1>2. /\ DOMAIN s = 1..Len(s) /\ Len(s) \in Nat \ {0}
      /\ DOMAIN Tail(s) = 1..(Len(s) - 1)
  BY <1>1, LenProperties, EmptySeq
<1>3. Range(s) = Range(Tail(s)) \cup {Head(s)}
  <2>1. ASSUME NEW i \in DOMAIN s, i # 1
        PROVE  s[i] \in Range(Tail(s))
    <3>1. i - 1 \in DOMAIN Tail(s) /\ Tail(s)[i - 1] = s[(i - 1) + 1] /\ (i - 1) + 1 = i
      BY <1>1, <1>2, <2>1
    <3>. QED BY <3>1 DEF Range
  <2>2. Range(Tail(s)) \subseteq Range(s)
    <3>1. \A i \in DOMAIN Tail(s) : i + 1 \in DOMAIN s /\ Tail(s)[i] = s[i + 1]
      BY <1>1, <1>2
    <3>. QED BY <3>1 DEF Range
  <2>3. Head(s) \in Range(s)
    BY <1>1, <1>2 DEF Range
  <2>. QED BY <1>1, <2>1, <2>2, <2>3 DEF Range
<1>4. ASSUME IsInjective(s)
      PROVE  IsInjective(Tail(s)) /\ Head(s) \notin Range(Tail(s))
  <2>1. \A i \in DOMAIN Tail(s) : i + 1 \in DOMAIN s /\ i + 1 # 1 /\ Tail(s)[i] = s[i + 1]
    BY <1>1, <1>2
  <2>2. Head(s) \notin Range(Tail(s))
    BY <1>1, <1>2, <1>4, <2>1 DEF IsInjective, Range
  <2>3. \A i, j \in DOMAIN Tail(s) : i + 1 = j + 1 => i = j
    BY <1>2
  <2>4. IsInjective(Tail(s))
    BY <1>4, <2>1, <2>3 DEF IsInjective
  <2>. QED BY <2>2, <2>4
<1>. QED BY <1>1, <1>3, <1>4

\* Two sequences without repetitions and without a common element make one.
LEMMA ConcatRange ==
  ASSUME NEW S, NEW s \in Seq(S), NEW t \in Seq(S)
  PROVE  /\ s \o t \in Seq(S)
         /\ Range(s \o t) = Range(s) \cup Range(t)
         /\ IsInjective(s) /\ IsInjective(t) /\ Range(s) \cap Range(t) = {}
              => IsInjective(s \o t)
<1>1. /\ s \o t \in Seq(S)
      /\ Len(s \o t) = Len(s) + Len(t)
      /\ \A i \in 1..(Len(s) + Len(t)) :
           (s \o t)[i] = IF i <= Len(s) THEN s[i] ELSE t[i - Len(s)]
  BY ConcatProperties
<1>2. /\ DOMAIN s = 1..Len(s) /\ DOMAIN t = 1..Len(t)
      /\ DOMAIN (s \o t) = 1..(Len(s) + Len(t))
      /\ Len(s) \in Nat /\ Len(t) \in Nat
  BY <1>1, LenProperties
<1>3. Range(s \o t) = Range(s) \cup Range(t)
  BY RangeConcatenation
<1>4. ASSUME IsInjective(s), IsInjective(t), Range(s) \cap Range(t) = {},
             NEW i \in DOMAIN (s \o t), NEW j \in DOMAIN (s \o t), (s \o t)[i] = (s \o t)[j]
      PROVE  i = j
  <2>1. ASSUME NEW k \in DOMAIN (s \o t)
        PROVE  IF k <= Len(s) THEN k \in DOMAIN s /\ (s \o t)[k] = s[k]
                              ELSE k - Len(s) \in DOMAIN t /\ (s \o t)[k] = t[k - Len(s)]
    BY <1>1, <1>2
  <2>2. CASE i <= Len(s) /\ j <= Len(s)
    BY <1>4, <2>1, <2>2 DEF IsInjective
  <2>3. CASE i > Len(s) /\ j > Len(s)
    <3>1. i - Len(s) = j - Len(s)
      BY <1>2, <1>4, <2>1, <2>3 DEF IsInjective
    <3>. QED BY <3>1, <1>2
  <2>4. CASE i <= Len(s) /\ j > Len(s)
    <3>1. (s \o t)[i] \in Range(s) /\ (s \o t)[j] \in Range(t)
      BY <1>2, <2>1, <2>4 DEF Range
    <3>. QED BY <3>1, <1>4
  <2>5. CASE i > Len(s) /\ j <= Len(s)
    <3>1. (s \o t)[i] \in Range(t) /\ (s \o t)[j] \in Range(s)
      BY <1>2, <2>1, <2>5 DEF Range
    <3>. QED BY <3>1, <1>4
  <2>. QED BY <1>2, <2>2, <2>3, <2>4, <2>5
<1>5. ASSUME IsInjective(s), IsInjective(t), Range(s) \cap Range(t) = {}
      PROVE  IsInjective(s \o t)
  BY <1>4, <1>5 DEF IsInjective
<1>. QED BY <1>1, <1>3, <1>5

-----------------------------------------------------------------------------
(* Detaching.                                                              *)

\* The sequences that Without goes through exist: what is left of the first i
\* items, for every i.
LEMMA WithoutRest ==
  ASSUME NEW S, NEW s \in Seq(S), NEW A
  PROVE  \E r : /\ DOMAIN r = 0..Len(s)
                /\ r[0] = <<>>
                /\ \A i \in 1..Len(s) :
                     r[i] = IF s[i] \in A THEN r[i - 1] ELSE Append(r[i - 1], s[i])
                /\ Without(s, A) = r[Len(s)]
<1>. DEFINE n == Len(s)
            Step(g, i) == IF i = 0 THEN <<>>
                          ELSE IF s[i] \in A THEN g[i - 1] ELSE Append(g[i - 1], s[i])
            Good(g, m) == g = [i \in 0..m |-> Step(g, i)]
            T == {m \in 0..n : \E g : Good(g, m)}
<1>1. n \in Nat
  BY LenProperties
<1>2. 0 \in T
  <2>1. Good([i \in 0..0 |-> <<>>], 0)
    OBVIOUS
  <2>. HIDE DEF Good
  <2>. QED BY <1>1, <2>1
<1>3. ASSUME NEW m \in 1..n, m - 1 \in T
      PROVE  m \in T
  <2>1. PICK g : Good(g, m - 1)
    BY <1>3
  <2>. DEFINE h == [i \in 0..m |-> IF i = m THEN Step(g, m) ELSE g[i]]
  <2>2. ASSUME NEW i \in 0..m
        PROVE  h[i] = Step(h, i)
    <3>1. CASE i = m
      <4>1. m - 1 \in 0..m /\ m - 1 # m
        BY <1>1
      <4>2. h[m - 1] = g[m - 1] /\ h[m] = Step(g, m)
        BY <1>1, <4>1
      <4>. QED BY <3>1, <4>2
    <3>2. CASE i # m
      <4>1. i \in 0..(m - 1)
        BY <1>1, <3>2
      <4>2. h[i] = Step(g, i)
        BY <2>1, <3>2, <4>1
      <4>3. i # 0 => i - 1 \in 0..m /\ i - 1 # m
        BY <1>1, <3>2
      <4>4. i # 0 => h[i - 1] = g[i - 1]
        BY <4>3
      <4>. QED BY <4>2, <4>4
    <3>. QED BY <3>1, <3>2
  <2>3. Good(h, m)
    BY <2>2
  <2>. HIDE DEF h, Good
  <2>. QED BY <1>1, <2>3
<1>4. n \in T
  <2>. HIDE DEF T
  <2>1. \A i \in 1..n : i - 1 \in T => i \in T
    BY <1>3
  <2>2. \A i \in 0..n : i \in T
    <3>. HIDE DEF n
    <3>. QED BY <1>1, <1>2, <2>1, Upwards
  <2>. QED BY <1>1, <2>2
<1>. DEFINE r == CHOOSE g : Good(g, n)
<1>5. Good(r, n)
  BY <1>4
<1>6. Without(s, A) = r[n]
  BY DEF Without
<1>7. r[0] = <<>> /\ \A i \in 1..n : r[i] = Step(r, i)
  <2>1. r = [i \in 0..n |-> Step(r, i)]
    BY <1>5
  <2>. HIDE DEF r, n, Step
  <2>2. \A i \in 0..n : r[i] = Step(r, i)
    BY <2>1
  <2>. QED BY <1>1, <2>2 DEF Step
<1>8. DOMAIN r = 0..n
  <2>. HIDE DEF r, Step
  <2>. QED BY <1>5
<1>. QED
  <2>. HIDE DEF r
  <2>. QED BY <1>6, <1>7, <1>8, <1>1
\* Detaching leaves the items that are not to go, in a list of the same kind.
LEMMA WithoutRange ==
  ASSUME NEW S, NEW s \in Seq(S), NEW A
  PROVE  /\ Without(s, A) \in Seq(S)
         /\ Range(Without(s, A)) = Range(s) \ A
         /\ IsInjective(s) => IsInjective(Without(s, A))
<1>1. PICK r : /\ DOMAIN r = 0..Len(s)
               /\ r[0] = <<>>
               /\ \A i \in 1..Len(s) :
                    r[i] = IF s[i] \in A THEN r[i - 1] ELSE Append(r[i - 1], s[i])
               /\ Without(s, A) = r[Len(s)]
  BY WithoutRest
<1>. DEFINE n == Len(s)
            First(i) == {s[j] : j \in 1..i}
            T == {i \in 0..n : /\ r[i] \in Seq(S)
                               /\ Range(r[i]) = First(i) \ A
                               /\ IsInjective(s) => IsInjective(r[i])}
<1>2. n \in Nat /\ DOMAIN s = 1..n /\ \A i \in 1..n : s[i] \in S
  BY LenProperties, ElementOfSeq
<1>3. 0 \in T
  <2>1. <<>> \in Seq(S) /\ Range(<<>>) = {} /\ IsInjective(<<>>)
    BY DEF Range, IsInjective
  <2>2. First(0) = {}
    OBVIOUS
  <2>. HIDE DEF First
  <2>3. r[0] \in Seq(S) /\ Range(r[0]) = First(0) \ A /\ IsInjective(r[0])
    BY <1>1, <2>1, <2>2
  <2>4. 0 \in 0..n
    BY <1>2
  <2>. QED BY <2>3, <2>4
<1>4. ASSUME NEW i \in 1..n, i - 1 \in T
      PROVE  i \in T
  <2>1. i \in 0..n /\ s[i] \in S /\ i \in DOMAIN s
    BY <1>2
  <2>2. First(i) = First(i - 1) \cup {s[i]}
    <3>1. 1..i = (1..(i - 1)) \cup {i}
      BY <1>2
    <3>. QED BY <3>1
  <2>3. /\ r[i - 1] \in Seq(S) /\ Range(r[i - 1]) = First(i - 1) \ A
        /\ IsInjective(s) => IsInjective(r[i - 1])
    BY <1>4
  <2>. HIDE DEF First
  <2>4. CASE s[i] \in A
    <3>1. r[i] = r[i - 1]
      BY <1>1, <2>4
    <3>. QED BY <2>1, <2>2, <2>3, <2>4, <3>1
  <2>5. CASE s[i] \notin A
    <3>1. r[i] = Append(r[i - 1], s[i])
      BY <1>1, <2>5
    <3>2. IsInjective(s) => s[i] \notin First(i - 1)
      <4>1. \A j \in 1..(i - 1) : j \in DOMAIN s /\ j # i
        BY <1>2
      <4>. QED BY <2>1, <4>1 DEF IsInjective, First
    <3>3. /\ r[i] \in Seq(S) /\ Range(r[i]) = Range(r[i - 1]) \cup {s[i]}
          /\ IsInjective(r[i - 1]) /\ s[i] \notin Range(r[i - 1]) => IsInjective(r[i])
      BY <2>1, <2>3, <3>1, AppendRange
    <3>. QED BY <2>1, <2>2, <2>3, <2>5, <3>2, <3>3
  <2>. QED BY <2>4, <2>5
<1>5. n \in T
  <2>. HIDE DEF T
  <2>1. \A i \in 1..n : i - 1 \in T => i \in T
    BY <1>4
  <2>2. \A i \in 0..n : i \in T
    <3>. HIDE DEF n
    <3>. QED BY <1>2, <1>3, <2>1, Upwards
  <2>. QED BY <1>2, <2>2
<1>6. Range(s) = First(n)
  BY <1>2 DEF Range
<1>. QED BY <1>1, <1>5, <1>6

\* Detaching what is not on a list changes nothing.
LEMMA WithoutNone ==
  ASSUME NEW S, NEW s \in Seq(S), NEW A, Range(s) \cap A = {}
  PROVE  Without(s, A) = s
<1>1. PICK r : /\ DOMAIN r = 0..Len(s)
               /\ r[0] = <<>>
               /\ \A i \in 1..Len(s) :
                    r[i] = IF s[i] \in A THEN r[i - 1] ELSE Append(r[i - 1], s[i])
               /\ Without(s, A) = r[Len(s)]
  BY WithoutRest
<1>. DEFINE n == Len(s)
            T == {i \in 0..n : r[i] = SubSeq(s, 1, i)}
<1>2. n \in Nat /\ DOMAIN s = 1..n /\ \A i \in 1..n : s[i] \in S \ A
  BY LenProperties, ElementOfSeq DEF Range
<1>3. 0 \in T
  <2>1. SubSeq(s, 1, 0) = <<>>
    BY SubSeqEmpty
  <2>2. 0 \in 0..n
    BY <1>2
  <2>. QED BY <1>1, <2>1, <2>2
<1>4. ASSUME NEW i \in 1..n, i - 1 \in T
      PROVE  i \in T
  <2>1. r[i] = Append(SubSeq(s, 1, i - 1), s[i])
    BY <1>1, <1>2, <1>4
  <2>2. SubSeq(s, 1, i) = SubSeq(s, 1, i - 1) \o <<s[i]>>
    <3>1. 1 \in 1..Len(s) /\ i \in 1..Len(s)
      BY <1>2
    <3>. QED BY <3>1, SubSeqRecursiveSecond
  <2>3. SubSeq(s, 1, i - 1) \in Seq(S)
    <3>1. i - 1 \in Int /\ \A j \in 1..(i - 1) : s[j] \in S
      BY <1>2
    <3>. QED BY <3>1, SubSeqProperties
  <2>4. Append(SubSeq(s, 1, i - 1), s[i]) = SubSeq(s, 1, i - 1) \o <<s[i]>>
    BY <1>2, <2>3, AppendIsConcat
  <2>5. r[i] = SubSeq(s, 1, i) /\ i \in 0..n
    BY <1>2, <2>1, <2>2, <2>4
  <2>. QED BY <2>5
<1>5. n \in T
  <2>. HIDE DEF T
  <2>1. \A i \in 1..n : i - 1 \in T => i \in T
    BY <1>4
  <2>2. \A i \in 0..n : i \in T
    <3>. HIDE DEF n
    <3>. QED BY <1>2, <1>3, <2>1, Upwards
  <2>. QED BY <1>2, <2>2
<1>. QED BY <1>1, <1>5, SubSeqFull
===============================================================================
