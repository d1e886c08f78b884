-------------------------------- MODULE Sums --------------------------------
(***************************************************************************)
(* SumFunction of a function with a finite domain: the bytes of the blocks *)
(* of the plane pool, the sizes of the entries of the artifact cache; and  *)
(* what every fold over a finite set needs, for those of Dataflow.         *)
(*                                                                         *)
(* SumFunction is a recursion over the subsets of the domain.  That the    *)
(* recursion has a solution, and that it does not depend on the order of   *)
(* the elements, is proved by induction over their number, which rests on  *)
(* the least element of a set of numbers.                                  *)
(***************************************************************************)
EXTENDS Integers, FiniteSets, Functions, FiniteSetTheorems, WellFoundedInduction, TLAPS

\* A nonempty set of natural numbers has a least element.
LEMMA LeastElement ==
  ASSUME NEW T \in SUBSET Nat, T # {}
  PROVE  \E n \in T : \A m \in T : n <= m
<1> DEFINE R == OpToRel(<, Nat)
<1>1. IsWellFoundedOn(R, Nat)
  BY NatLessThanWellFounded
<1>2. \A x, y \in Nat : x < y => <<x, y>> \in R
  BY DEF OpToRel
<1> HIDE DEF R
<1>3. PICK n \in T : \A m \in T : <<m, n>> \notin R
  BY <1>1, WFMin
<1>4. \A m \in T : n <= m
  <2> TAKE m \in T
  <2>1. ~(m < n)
    BY <1>2, <1>3
  <2> QED BY <2>1
<1> QED BY <1>4

\* Induction over the natural numbers, for a set instead of a predicate.
LEMMA Counting ==
  ASSUME NEW S, 0 \in S, \A n \in Nat : n \in S => n + 1 \in S
  PROVE  Nat \subseteq S
<1> DEFINE T == {n \in Nat : n \notin S}
<1> SUFFICES ASSUME T # {} PROVE FALSE
  OBVIOUS
<1>1. PICK n \in T : \A m \in T : n <= m
  BY LeastElement
<1>2. n # 0 /\ n - 1 \in Nat /\ n - 1 \notin T
  BY <1>1
<1> QED BY <1>2

\* SumFunction takes the elements of its domain in the order of Pick.  Its
\* recursion over the sets of D, and the sets of at most n elements.
Pick(T) == CHOOSE p \in T : TRUE
Partial(w, D, sum) == [T \in D |-> IF T = {} THEN 0 ELSE w[Pick(T)] + sum[T \ {Pick(T)}]]
Sized(A, n) == {T \in SUBSET A : Cardinality(T) <= n}

\* One element less is one set further down.
LEMMA Smaller ==
  ASSUME NEW A, IsFiniteSet(A), NEW n \in Nat, NEW T \in Sized(A, n + 1), NEW p \in T
  PROVE  /\ T \ {p} \in Sized(A, n)
         /\ p \in A /\ T \in SUBSET A
<1>1. T \in SUBSET A /\ Cardinality(T) <= n + 1
  BY DEF Sized
<1>2. IsFiniteSet(T) /\ Cardinality(T) \in Nat
  BY <1>1, FS_Subset, FS_CardinalityType
<1>3. Cardinality(T \ {p}) = Cardinality(T) - 1
  BY <1>2, FS_RemoveElement
<1>4. Cardinality(T \ {p}) <= n
  BY <1>1, <1>2, <1>3
<1> QED BY <1>1, <1>4 DEF Sized

\* The sets of at most n elements of a finite set, from none to all.
LEMMA SizedAll ==
  ASSUME NEW A, IsFiniteSet(A)
  PROVE  /\ Cardinality(A) \in Nat
         /\ Sized(A, Cardinality(A)) = SUBSET A
         /\ Sized(A, 0) = {{}}
         /\ \A n \in Nat : Sized(A, n) \subseteq Sized(A, n + 1) /\ Sized(A, n) \in SUBSET SUBSET A
<1>1. \A T \in SUBSET A : Cardinality(T) \in Nat /\ Cardinality(T) <= Cardinality(A)
  BY FS_Subset, FS_CardinalityType
<1>2. \A T \in SUBSET A : Cardinality(T) <= 0 <=> T = {}
  BY <1>1, FS_Subset, FS_EmptySet
<1>3. Sized(A, Cardinality(A)) = SUBSET A /\ Cardinality(A) \in Nat
  BY <1>1, FS_CardinalityType DEF Sized
<1>4. Sized(A, 0) = {{}}
  BY <1>2 DEF Sized
<1>5. ASSUME NEW n \in Nat PROVE Sized(A, n) \subseteq Sized(A, n + 1) /\ Sized(A, n) \in SUBSET SUBSET A
  BY <1>1 DEF Sized
<1> QED BY <1>3, <1>4, <1>5

\* A recursion over the subsets of A: pick[T] is the element of T that is taken,
\* and h[T][v] the value at T, of the value v at the rest.
Recursion(A, base, h, pick, iter) ==
  iter = [T \in SUBSET A |-> IF T = {} THEN base ELSE h[T][iter[T \ {pick[T]}]]]

\* It has a solution on a finite set.
LEMMA RecursionExists ==
  ASSUME NEW A, IsFiniteSet(A), NEW base, NEW h, NEW pick, \A T \in SUBSET A : T # {} => pick[T] \in T
  PROVE  \E iter : Recursion(A, base, h, pick, iter)
<1> DEFINE On(D, iter) == iter = [T \in D |-> IF T = {} THEN base ELSE h[T][iter[T \ {pick[T]}]]]
           S == {n \in Nat : \E iter : On(Sized(A, n), iter)}
<1>1. 0 \in S
  <2>1. On({{}}, [T \in {{}} |-> base])
    OBVIOUS
  <2>2. Sized(A, 0) = {{}}
    BY SizedAll
  <2>3. \E iter : On(Sized(A, 0), iter)
    BY <2>1, <2>2
  <2> HIDE DEF On
  <2> QED BY <2>3
<1>2. ASSUME NEW n \in Nat, n \in S PROVE n + 1 \in S
  <2>1. PICK g : On(Sized(A, n), g)
    BY <1>2
  <2> DEFINE f == [T \in Sized(A, n + 1) |-> IF T = {} THEN base ELSE h[T][g[T \ {pick[T]}]]]
  <2>2. \A T \in Sized(A, n) : T \in Sized(A, n + 1) /\ f[T] = g[T]
    BY <2>1, SizedAll
  <2>3. ASSUME NEW T \in Sized(A, n + 1), T # {} PROVE f[T \ {pick[T]}] = g[T \ {pick[T]}]
    <3>1. T \in SUBSET A
      BY SizedAll
    <3> QED BY <3>1, <2>2, <2>3, Smaller
  <2>4. On(Sized(A, n + 1), f)
    BY <2>3
  <2> HIDE DEF f
  <2> QED BY <2>4
<1> HIDE DEF S
<1>3. Nat \subseteq S
  BY <1>1, <1>2, Counting
<1>4. Cardinality(A) \in S
  BY <1>3, SizedAll
<1>5. \E iter : On(SUBSET A, iter)
  <2>1. Sized(A, Cardinality(A)) = SUBSET A
    BY SizedAll
  <2> HIDE DEF On
  <2> QED BY <1>4, <2>1 DEF S
<1> QED BY <1>5 DEF Recursion

\* What holds at the empty set, and at T when it holds at the rest of T, holds at
\* every subset: I[T] is the set of the values allowed at T.
LEMMA RecursionStays ==
  ASSUME NEW A, IsFiniteSet(A), NEW pick, \A T \in SUBSET A : T # {} => pick[T] \in T,
         NEW iter, NEW I, iter[{}] \in I[{}],
         \A T \in SUBSET A : T # {} /\ iter[T \ {pick[T]}] \in I[T \ {pick[T]}] => iter[T] \in I[T]
  PROVE  \A T \in SUBSET A : iter[T] \in I[T]
<1> DEFINE S == {n \in Nat : \A T \in Sized(A, n) : iter[T] \in I[T]}
<1>1. 0 \in S
  <2>1. Sized(A, 0) = {{}}
    BY SizedAll
  <2> QED BY <2>1
<1>2. ASSUME NEW n \in Nat, n \in S PROVE n + 1 \in S
  <2>1. ASSUME NEW T \in Sized(A, n + 1), T # {} PROVE iter[T] \in I[T]
    <3>1. T \in SUBSET A
      BY SizedAll
    <3>2. T \ {pick[T]} \in Sized(A, n)
      BY <2>1, <3>1, Smaller
    <3> QED BY <2>1, <3>1, <3>2, <1>2
  <2> QED BY <2>1
<1> HIDE DEF S
<1>3. Nat \subseteq S
  BY <1>1, <1>2, Counting
<1>4. Cardinality(A) \in S
  BY <1>3, SizedAll
<1> QED BY <1>4, SizedAll DEF S

\* Both: a recursion whose every step leads from an allowed value to an allowed one.
LEMMA RecursionAllowed ==
  ASSUME NEW A, IsFiniteSet(A), NEW base, NEW h, NEW pick, \A T \in SUBSET A : T # {} => pick[T] \in T,
         NEW I, base \in I[{}],
         \A T \in SUBSET A : T # {} => \A v \in I[T \ {pick[T]}] : h[T][v] \in I[T]
  PROVE  \E iter : Recursion(A, base, h, pick, iter) /\ \A T \in SUBSET A : iter[T] \in I[T]
<1>1. PICK iter : Recursion(A, base, h, pick, iter)
  BY RecursionExists
<1>2. \A T \in SUBSET A : iter[T] = IF T = {} THEN base ELSE h[T][iter[T \ {pick[T]}]]
  BY <1>1 DEF Recursion
<1>3. iter[{}] \in I[{}]
  BY <1>2
<1>4. \A T \in SUBSET A : T # {} /\ iter[T \ {pick[T]}] \in I[T \ {pick[T]}] => iter[T] \in I[T]
  BY <1>2
<1>5. \A T \in SUBSET A : iter[T] \in I[T]
  BY <1>3, <1>4, RecursionStays
<1> QED BY <1>1, <1>5

\* sum holds the sum of the weights w over each subset of A, in the order of Pick;
\* at T it is what one gets when any element is taken first.
IsSum(w, A, sum) == sum = Partial(w, SUBSET A, sum)

Adds(w, sum, T) == sum[T] \in Nat /\ \A p \in T : sum[T] = w[p] + sum[T \ {p}]

\* The recursion of SumFunction has a solution on a finite set.
LEMMA SumsExist ==
  ASSUME NEW A, IsFiniteSet(A), NEW w
  PROVE  \E sum : IsSum(w, A, sum)
<1> DEFINE S == {n \in Nat : \E sum : sum = Partial(w, Sized(A, n), sum)}
<1>1. 0 \in S
  <2>1. [T \in {{}} |-> 0] = Partial(w, {{}}, [T \in {{}} |-> 0])
    BY DEF Partial
  <2> QED BY <2>1, SizedAll
<1>2. ASSUME NEW n \in Nat, n \in S PROVE n + 1 \in S
  <2>1. PICK g : g = Partial(w, Sized(A, n), g)
    BY <1>2
  <2> DEFINE h == Partial(w, Sized(A, n + 1), g)
  <2>2. \A T \in Sized(A, n) : h[T] = g[T]
    <3> TAKE T \in Sized(A, n)
    <3>1. T \in Sized(A, n + 1)
      BY SizedAll
    <3>2. g[T] = IF T = {} THEN 0 ELSE w[Pick(T)] + g[T \ {Pick(T)}]
      BY <2>1 DEF Partial
    <3> QED BY <3>1, <3>2 DEF Partial
  <2>3. ASSUME NEW T \in Sized(A, n + 1), T # {} PROVE h[T \ {Pick(T)}] = g[T \ {Pick(T)}]
    <3>1. Pick(T) \in T
      BY <2>3 DEF Pick
    <3> QED BY <3>1, <2>2, Smaller
  <2>4. h = Partial(w, Sized(A, n + 1), h)
    BY <2>3 DEF Partial
  <2> HIDE DEF h
  <2> QED BY <2>4
<1> HIDE DEF S
<1>3. Nat \subseteq S
  BY <1>1, <1>2, Counting
<1>4. Cardinality(A) \in S
  BY <1>3, SizedAll
<1> QED BY <1>4, SizedAll DEF S, IsSum

\* The order of the elements does not matter.
LEMMA AnyOrder ==
  ASSUME NEW A, IsFiniteSet(A), NEW w \in [A -> Nat], NEW sum, IsSum(w, A, sum)
  PROVE  \A T \in SUBSET A : Adds(w, sum, T)
<1> DEFINE S == {n \in Nat : \A T \in Sized(A, n) : Adds(w, sum, T)}
<1>1. \A T \in SUBSET A : sum[T] = IF T = {} THEN 0 ELSE w[Pick(T)] + sum[T \ {Pick(T)}]
  BY DEF Partial, IsSum
<1>a. Adds(w, sum, {})
  <2>1. {} \in SUBSET A
    OBVIOUS
  <2>2. sum[{}] = 0
    BY <1>1, <2>1
  <2> QED BY <2>2 DEF Adds
<1>2. 0 \in S
  BY <1>a, SizedAll
<1>3. ASSUME NEW n \in Nat, n \in S PROVE n + 1 \in S
  <2>1. ASSUME NEW T \in Sized(A, n + 1), T # {} PROVE Adds(w, sum, T)
    <3> DEFINE c == Pick(T)
    <3>1. c \in T
      BY <2>1 DEF Pick
    <3> HIDE DEF c
    <3>2. \A p \in T : T \ {p} \in Sized(A, n) /\ p \in A /\ T \in SUBSET A
      BY Smaller
    <3>3. \A p \in T : Adds(w, sum, T \ {p})
      BY <3>2, <1>3
    <3>4. sum[T] = w[c] + sum[T \ {c}]
      BY <1>1, <2>1, <3>1, <3>2 DEF c
    <3>5. ASSUME NEW p \in T, p # c PROVE sum[T] = w[p] + sum[T \ {p}]
      <4>1. p \in T \ {c} /\ c \in T \ {p} /\ (T \ {c}) \ {p} = (T \ {p}) \ {c}
        BY <3>1, <3>5
      <4>2. sum[T \ {c}] = w[p] + sum[(T \ {c}) \ {p}]
        BY <3>1, <3>3, <4>1 DEF Adds
      <4>3. sum[T \ {p}] = w[c] + sum[(T \ {p}) \ {c}]
        BY <3>3, <4>1 DEF Adds
      <4>4. w[p] \in Nat /\ w[c] \in Nat /\ sum[T \ {c}] \in Nat /\ sum[T \ {p}] \in Nat
        BY <3>1, <3>2, <3>3 DEF Adds
      <4>5. (T \ {c}) \ {p} \in Sized(A, n) /\ sum[(T \ {c}) \ {p}] \in Nat
        <5>1. T \ {c} \in Sized(A, n + 1)
          BY <3>1, <3>2, SizedAll
        <5>2. (T \ {c}) \ {p} \in Sized(A, n)
          BY <4>1, <5>1, Smaller
        <5> QED BY <5>2, <1>3 DEF Adds
      <4> DEFINE rest == sum[(T \ {c}) \ {p}]
      <4>6. sum[T \ {c}] = w[p] + rest /\ sum[T \ {p}] = w[c] + rest /\ rest \in Nat
        BY <4>1, <4>2, <4>3, <4>5
      <4> HIDE DEF rest
      <4> QED BY <3>4, <4>4, <4>6
    <3>6. w[c] \in Nat /\ sum[T \ {c}] \in Nat
      BY <3>1, <3>2, <3>3 DEF Adds
    <3>7. ASSUME NEW p \in T PROVE sum[T] = w[p] + sum[T \ {p}]
      BY <3>4, <3>5
    <3>8. sum[T] \in Nat
      BY <3>4, <3>6
    <3> QED BY <3>7, <3>8 DEF Adds
  <2> QED BY <2>1, <1>a
<1> HIDE DEF S
<1>4. Nat \subseteq S
  BY <1>2, <1>3, Counting
<1>5. Cardinality(A) \in S
  BY <1>4, SizedAll
<1> QED BY <1>5, SizedAll DEF S

\* The sum over B depends on the weights in B only.
LEMMA SameWeights ==
  ASSUME NEW A, IsFiniteSet(A), NEW B \in SUBSET A,
         NEW w \in [A -> Nat], NEW v \in [A -> Nat], \A p \in B : v[p] = w[p],
         NEW sum, IsSum(w, A, sum),
         NEW tot, IsSum(v, A, tot)
  PROVE  tot[B] = sum[B]
<1> DEFINE S == {n \in Nat : \A T \in Sized(A, n) : T \subseteq B => tot[T] = sum[T]}
<1>a. \A T \in SUBSET A : Adds(w, sum, T) /\ Adds(v, tot, T)
  BY AnyOrder
<1>1. sum[{}] = 0 /\ tot[{}] = 0
  <2>1. {} \in SUBSET A
    OBVIOUS
  <2> QED BY <2>1 DEF Partial, IsSum
<1>2. 0 \in S
  BY <1>1, SizedAll
<1>3. ASSUME NEW n \in Nat, n \in S PROVE n + 1 \in S
  <2>1. ASSUME NEW T \in Sized(A, n + 1), T \subseteq B, NEW p \in T PROVE tot[T] = sum[T]
    <3>1. T \ {p} \in Sized(A, n) /\ T \in SUBSET A /\ T \ {p} \subseteq B
      BY <2>1, Smaller
    <3>2. tot[T \ {p}] = sum[T \ {p}]
      BY <3>1, <1>3
    <3>3. sum[T] = w[p] + sum[T \ {p}]
      BY <3>1, <1>a DEF Adds
    <3>4. tot[T] = v[p] + tot[T \ {p}]
      BY <3>1, <1>a DEF Adds
    <3> QED BY <2>1, <3>2, <3>3, <3>4
  <2>2. ASSUME NEW T \in Sized(A, n + 1), T \subseteq B PROVE tot[T] = sum[T]
    BY <2>1, <2>2, <1>1
  <2> QED BY <2>2
<1> HIDE DEF S
<1>4. Nat \subseteq S
  BY <1>2, <1>3, Counting
<1>5. Cardinality(A) \in S
  BY <1>4, SizedAll
<1> QED BY <1>5, SizedAll DEF S

\* SumFunction is that sum.
LEMMA SumIs ==
  ASSUME NEW A, IsFiniteSet(A), NEW w \in [A -> Nat]
  PROVE  \E sum : IsSum(w, A, sum) /\ SumFunction(w) = sum[A]
<1>1. SumFunction(w) = (CHOOSE sum : IsSum(w, A, sum))[A]
  <2>1. DOMAIN w = A
    OBVIOUS
  <2> QED BY <2>1 DEF SumFunction, SumFunctionOnSet, FoldFunctionOnSet, MapThenFoldSet, IsSum, Partial, Pick
<1>2. PICK s : IsSum(w, A, s)
  BY SumsExist
<1> DEFINE t == CHOOSE sum : IsSum(w, A, sum)
<1>3. IsSum(w, A, t)
  BY <1>2
<1> HIDE DEF t
<1>4. SumFunction(w) = t[A]
  BY <1>1 DEF t
<1> QED BY <1>3, <1>4

\* Nothing adds up to nothing.
LEMMA SumOfZeros ==
  ASSUME NEW A, IsFiniteSet(A), NEW w \in [A -> Nat], \A p \in A : w[p] = 0
  PROVE  SumFunction(w) = 0
<1>1. PICK sum : IsSum(w, A, sum) /\ SumFunction(w) = sum[A]
  BY SumIs
<1> DEFINE z == [T \in SUBSET A |-> 0]
<1>2. IsSum(w, A, z)
  <2>1. \A T \in SUBSET A : T # {} => Pick(T) \in A /\ T \ {Pick(T)} \in SUBSET A
    BY DEF Pick
  <2> QED BY <2>1 DEF Partial, IsSum
<1> HIDE DEF z
<1>3. z[A] = sum[A]
  BY <1>1, <1>2, SameWeights
<1>4. z[A] = 0
  BY DEF z
<1> QED BY <1>1, <1>3, <1>4

\* One weight changes: the sum changes by as much.  liveBytes and cachedBytes of the
\* plane pool, and the total of _prune_lru, are kept like that.
LEMMA SumChange ==
  ASSUME NEW A, IsFiniteSet(A), NEW w \in [A -> Nat], NEW v \in [A -> Nat],
         NEW q \in A, \A p \in A \ {q} : v[p] = w[p]
  PROVE  /\ SumFunction(w) \in Nat /\ SumFunction(v) \in Nat
         /\ SumFunction(v) = SumFunction(w) - w[q] + v[q]
<1>1. PICK sum : IsSum(w, A, sum) /\ SumFunction(w) = sum[A]
  BY SumIs
<1>2. PICK tot : IsSum(v, A, tot) /\ SumFunction(v) = tot[A]
  BY SumIs
<1>3. A \in SUBSET A /\ A \ {q} \in SUBSET A
  OBVIOUS
<1>4. tot[A \ {q}] = sum[A \ {q}]
  BY <1>1, <1>2, <1>3, SameWeights
<1>a. Adds(w, sum, A) /\ Adds(w, sum, A \ {q})
  BY <1>1, <1>3, AnyOrder
<1>b. Adds(v, tot, A)
  BY <1>2, <1>3, AnyOrder
<1>5. sum[A] \in Nat /\ sum[A \ {q}] \in Nat /\ sum[A] = w[q] + sum[A \ {q}]
  BY <1>a DEF Adds
<1>6. tot[A] \in Nat /\ tot[A] = v[q] + tot[A \ {q}]
  BY <1>b DEF Adds
<1>7. w[q] \in Nat /\ v[q] \in Nat
  OBVIOUS
<1> QED BY <1>1, <1>2, <1>4, <1>5, <1>6, <1>7
=============================================================================
