------------------------ MODULE LinePlanCacheProofs ------------------------
(***************************************************************************)
(* Proofs about LinePlanCache, for any threads, lengths, limits and bound.  *)
(*                                                                         *)
(* The inductive invariant says of the list more than Coherent does: it is *)
(* the front of the history of uses, in which no length occurs twice.       *)
(***************************************************************************)
EXTENDS LinePlanCache, TLAPS, SequenceTheorems, FiniteSetTheorems, Functions

Distinct(q) == \A i, j \in 1..Len(q) : q[i] = q[j] => i = j

\* The list is as much of the history as fits.
Front ==
  /\ Distinct(recency)
  /\ limit # 0 => /\ Len(order) <= limit /\ Len(order) <= Len(recency)
                  /\ Len(order) = limit \/ Len(order) = Len(recency)
                  /\ \A i \in 1..Len(order) : order[i] = recency[i]
  /\ limit = 0 => order = <<>> /\ \A t \in Threads : pc[t] \in {"idle", "use"}

Listed == \A s \in Sizes : plans[s] # None <=> \E i \in 1..Len(order) : order[i] = s

Lengths ==
  /\ \A s \in Sizes : plans[s] # None => plans[s].size = s
  /\ \A t \in Threads : /\ pc[t] = "insert" => built[t].size = want[t]
                        /\ pc[t] = "use" => plan[t].size = want[t]

IInv == TypeOK /\ Front /\ Listed /\ Lengths

-----------------------------------------------------------------------------
(***************************************************************************)
(* The list operations.                                                    *)
(***************************************************************************)

\* splice to the front: the same lengths, the one used first, those before it
\* one place later.
LEMMA MoveProperties ==
  ASSUME NEW q \in Seq(Sizes), Distinct(q), NEW s \in Sizes, NEW i \in 1..Len(q), q[i] = s
  PROVE  /\ MoveToFront(q, s) \in Seq(Sizes)
         /\ Len(MoveToFront(q, s)) = Len(q)
         /\ Distinct(MoveToFront(q, s))
         /\ \A j \in 1..Len(q) :
              MoveToFront(q, s)[j] = IF j = 1 THEN s ELSE IF j <= i THEN q[j - 1] ELSE q[j]
         /\ \A j \in 1..Len(q) : \E k \in 1..Len(q) : MoveToFront(q, s)[k] = q[j]
         /\ \A k \in 1..Len(q) : \E j \in 1..Len(q) : MoveToFront(q, s)[k] = q[j]
<1> DEFINE m == MoveToFront(q, s)
           elt(j) == IF j = 1 THEN s ELSE IF j <= i THEN q[j - 1] ELSE q[j]
<1>1. Len(q) \in Nat /\ i \in 1..Len(q) /\ \A j \in 1..Len(q) : q[j] \in Sizes
  OBVIOUS
<1>2. Place(q, s) = {i}
  BY DEF Place, Distinct
<1>3. m = [j \in 1..Len(q) |-> elt(j)]
  BY <1>2 DEF MoveToFront
<1>4. \A j \in 1..Len(q) : elt(j) \in Sizes
  BY <1>1
<1>5. m \in Seq(Sizes) /\ Len(m) = Len(q) /\ \A j \in 1..Len(q) : m[j] = elt(j)
  BY <1>1, <1>3, <1>4
<1> HIDE DEF m
<1>6. Distinct(m)
  <2> SUFFICES ASSUME NEW j \in 1..Len(q), NEW k \in 1..Len(q), m[j] = m[k]
               PROVE  j = k
    BY <1>5 DEF Distinct
  <2> DEFINE old(n) == IF n = 1 THEN i ELSE IF n <= i THEN n - 1 ELSE n
  <2>1. \A n \in 1..Len(q) : old(n) \in 1..Len(q) /\ elt(n) = q[old(n)]
    BY <1>1
  <2>2. q[old(j)] = q[old(k)]
    BY <1>5, <2>1
  <2>3. old(j) = old(k)
    <3> HIDE DEF old, elt
    <3> QED BY <2>1, <2>2 DEF Distinct
  <2> QED BY <1>1, <2>3
<1>7. ASSUME NEW j \in 1..Len(q) PROVE \E k \in 1..Len(q) : m[k] = q[j]
  <2>1. CASE j = i
    <3>1. 1 \in 1..Len(q) /\ elt(1) = q[j]
      BY <1>1, <2>1
    <3> QED BY <1>5, <3>1
  <2>2. CASE j < i
    <3>1. j + 1 \in 1..Len(q) /\ elt(j + 1) = q[j]
      BY <1>1, <2>2
    <3> QED BY <1>5, <3>1
  <2>3. CASE j > i
    <3>1. elt(j) = q[j]
      BY <1>1, <2>3
    <3> QED BY <1>5, <3>1
  <2> QED BY <1>1, <2>1, <2>2, <2>3
<1>8. ASSUME NEW k \in 1..Len(q) PROVE \E j \in 1..Len(q) : m[k] = q[j]
  <2>1. m[k] = elt(k)
    BY <1>5
  <2> QED BY <1>1, <2>1
<1> QED BY <1>5, <1>6, <1>7, <1>8 DEF m

\* push_front of a length that is not there.
LEMMA PushProperties ==
  ASSUME NEW q \in Seq(Sizes), Distinct(q), NEW s \in Sizes, \A i \in 1..Len(q) : q[i] # s
  PROVE  LET p == PushFront(q, s)
         IN  /\ p \in Seq(Sizes) /\ Len(p) = Len(q) + 1 /\ Distinct(p)
             /\ \A j \in 1..(Len(q) + 1) : p[j] = IF j = 1 THEN s ELSE q[j - 1]
<1> DEFINE p == PushFront(q, s)
<1>1. Len(q) \in Nat /\ \A j \in 1..Len(q) : q[j] \in Sizes
  OBVIOUS
<1>2. p \in Seq(Sizes) /\ Len(p) = Len(q) + 1
      /\ \A j \in 1..(Len(q) + 1) : p[j] = IF j = 1 THEN s ELSE q[j - 1]
  <2>1. <<s>> \in Seq(Sizes) /\ Len(<<s>>) = 1 /\ <<s>>[1] = s
    OBVIOUS
  <2>2. /\ p \in Seq(Sizes) /\ Len(p) = 1 + Len(q)
        /\ \A j \in 1..(1 + Len(q)) : p[j] = IF j <= 1 THEN <<s>>[j] ELSE q[j - 1]
    BY <2>1, ConcatProperties DEF PushFront
  <2> HIDE DEF p
  <2> QED BY <1>1, <2>1, <2>2
<1> HIDE DEF p
<1>3. Distinct(p)
  <2> SUFFICES ASSUME NEW j \in 1..(Len(q) + 1), NEW k \in 1..(Len(q) + 1), p[j] = p[k]
               PROVE  j = k
    BY <1>2 DEF Distinct
  <2>1. CASE j = 1 /\ k # 1
    <3>1. k - 1 \in 1..Len(q) /\ p[j] = s /\ p[k] = q[k - 1]
      BY <1>1, <1>2, <2>1
    <3> QED BY <3>1
  <2>2. CASE j # 1 /\ k = 1
    <3>1. j - 1 \in 1..Len(q) /\ p[k] = s /\ p[j] = q[j - 1]
      BY <1>1, <1>2, <2>2
    <3> QED BY <3>1
  <2>3. CASE j # 1 /\ k # 1
    <3>1. /\ j - 1 \in 1..Len(q) /\ k - 1 \in 1..Len(q)
          /\ p[j] = q[j - 1] /\ p[k] = q[k - 1]
      BY <1>1, <1>2, <2>3
    <3>2. j - 1 = k - 1
      BY <3>1 DEF Distinct
    <3> QED BY <1>1, <3>2
  <2> QED BY <2>1, <2>2, <2>3
<1> QED BY <1>2, <1>3 DEF p

\* A front of a list.
LEMMA FrontOf ==
  ASSUME NEW q \in Seq(Sizes), NEW n \in 0..Len(q)
  PROVE  /\ SubSeq(q, 1, n) \in Seq(Sizes) /\ Len(SubSeq(q, 1, n)) = n
         /\ \A j \in 1..n : SubSeq(q, 1, n)[j] = q[j]
<1> DEFINE f == SubSeq(q, 1, n)
<1>1. n \in Nat /\ \A j \in 1..n : q[j] \in Sizes
  OBVIOUS
<1>2. /\ f \in Seq(Sizes)
      /\ Len(f) = IF 1 <= n THEN n - 1 + 1 ELSE 0
      /\ \A j \in 1..(n - 1 + 1) : f[j] = q[1 + j - 1]
  BY <1>1, SubSeqProperties
<1> HIDE DEF f
<1>3. Len(f) = n
  BY <1>1, <1>2
<1>4. ASSUME NEW j \in 1..n PROVE f[j] = q[j]
  <2>1. j \in 1..(n - 1 + 1) /\ 1 + j - 1 = j
    BY <1>1
  <2> QED BY <1>2, <2>1
<1> QED BY <1>2, <1>3, <1>4 DEF f

-----------------------------------------------------------------------------
(***************************************************************************)
(* The history.                                                            *)
(***************************************************************************)

\* A use puts its length first; what was before an old place of it moves down
\* one place, and everything does when it is new.
LEMMA UsedProperties ==
  ASSUME NEW s \in Sizes, recency \in Seq(Sizes), Distinct(recency), Used(s)
  PROVE  /\ recency' \in Seq(Sizes) /\ Distinct(recency')
         /\ Len(recency') \in Nat \ {0} /\ Len(recency') >= Len(recency)
         /\ recency'[1] = s
         /\ \A j \in 2..Len(recency') :
              (\A k \in 1..(j - 1) : recency[k] # s) => recency'[j] = recency[j - 1]
         /\ (\A k \in 1..Len(recency) : recency[k] # s) => Len(recency') = Len(recency) + 1
         /\ \A k \in 1..Len(recency) : recency[k] = s =>
              /\ Len(recency') = Len(recency)
              /\ \A j \in 1..Len(recency) :
                   recency'[j] = IF j = 1 THEN s ELSE IF j <= k THEN recency[j - 1] ELSE recency[j]
<1>1. Len(recency) \in Nat
  OBVIOUS
<1>2. CASE Place(recency, s) # {}
  <2>1. PICK i \in 1..Len(recency) : recency[i] = s
    BY <1>2 DEF Place
  <2>2. recency' = MoveToFront(recency, s)
    BY <1>2, <2>1 DEF Used
  <2> DEFINE m == MoveToFront(recency, s)
  <2>9. /\ m \in Seq(Sizes) /\ Len(m) = Len(recency) /\ Distinct(m)
        /\ \A j \in 1..Len(recency) :
             m[j] = IF j = 1 THEN s ELSE IF j <= i THEN recency[j - 1] ELSE recency[j]
    BY <2>1, MoveProperties
  <2>10. recency' = m
    BY <2>2
  <2> HIDE DEF m
  <2>3. /\ recency' \in Seq(Sizes) /\ Len(recency') = Len(recency) /\ Distinct(recency')
        /\ \A j \in 1..Len(recency) :
             recency'[j] = IF j = 1 THEN s ELSE IF j <= i THEN recency[j - 1] ELSE recency[j]
    BY <2>9, <2>10
  <2>4. \A k \in 1..Len(recency) : recency[k] = s => k = i
    BY <2>1 DEF Distinct
  <2>5. recency'[1] = s
    BY <1>1, <2>1, <2>3
  <2>6. ASSUME NEW j \in 2..Len(recency'), \A k \in 1..(j - 1) : recency[k] # s
        PROVE  recency'[j] = recency[j - 1]
    <3>1. j <= i /\ j # 1 /\ j \in 1..Len(recency)
      BY <1>1, <2>1, <2>3, <2>6
    <3> QED BY <2>3, <3>1
  <2>7. ~ \A k \in 1..Len(recency) : recency[k] # s
    BY <2>1
  <2> QED BY <1>1, <2>1, <2>3, <2>4, <2>5, <2>6, <2>7
<1>3. CASE Place(recency, s) = {}
  <2>1. \A k \in 1..Len(recency) : recency[k] # s
    BY <1>3 DEF Place
  <2>2. recency' = PushFront(recency, s)
    BY <1>3 DEF Used
  <2>3. /\ recency' \in Seq(Sizes) /\ Len(recency') = Len(recency) + 1 /\ Distinct(recency')
        /\ \A j \in 1..(Len(recency) + 1) : recency'[j] = IF j = 1 THEN s ELSE recency[j - 1]
    BY <2>1, <2>2, PushProperties
  <2> QED BY <1>1, <2>1, <2>3
<1> QED BY <1>2, <1>3

-----------------------------------------------------------------------------
(***************************************************************************)
(* Each step keeps the invariant.                                          *)
(***************************************************************************)

\* The cache starts empty.
LEMMA InitIInv == Init => IInv
<1> SUFFICES ASSUME Init PROVE IInv
  OBVIOUS
<1>1. TypeOK
  BY CacheAssumption DEF Init, TypeOK, Plan
<1>2. order = <<>> /\ recency = <<>> /\ Len(order) = 0 /\ Len(recency) = 0
  BY DEF Init
<1>3. Front
  <2>1. limit \in Nat /\ \A t \in Threads : pc[t] = "idle"
    BY CacheAssumption DEF Init
  <2> QED BY <1>2, <2>1 DEF Front, Distinct
<1>4. Listed /\ Lengths
  BY <1>2 DEF Init, Listed, Lengths
<1> QED BY <1>1, <1>3, <1>4 DEF IInv

\* What a thread that returns from get() has: a plan of its length.
LEMMA ReturnType ==
  ASSUME TypeOK, NEW t \in Threads, NEW p \in Plan, Return(t, p), pc[t] # "use"
  PROVE  /\ pc' \in [Threads -> {"idle", "find", "build", "insert", "use"}]
         /\ plan' \in [Threads -> Plan \cup {None}]
         /\ pc'[t] = "use" /\ plan'[t] = p /\ p # None
         /\ \A u \in Threads : u # t => pc'[u] = pc[u] /\ plan'[u] = plan[u]
BY CacheAssumption DEF TypeOK, Return, Plan

\* A hit, in either critical section: the length moves to the front.
LEMMA HitStep ==
  ASSUME IInv, NEW t \in Threads, pc[t] \in {"find", "insert"}, want[t] \in Cached,
         order' = MoveToFront(order, want[t]), Used(want[t])
  PROVE  /\ order' \in Seq(Sizes) /\ recency' \in Seq(Sizes)
         /\ \A s \in Sizes : (\E i \in 1..Len(order') : order'[i] = s) <=> \E i \in 1..Len(order) : order[i] = s
         /\ Distinct(recency')
         /\ limit # 0
         /\ Len(order') <= limit /\ Len(order') <= Len(recency')
         /\ Len(order') = limit \/ Len(order') = Len(recency')
         /\ \A i \in 1..Len(order') : order'[i] = recency'[i]
<1> DEFINE s == want[t]
<1>1. s \in Sizes /\ order \in Seq(Sizes) /\ recency \in Seq(Sizes) /\ limit # 0
  BY DEF IInv, TypeOK, Cached, Front
<1>2. PICK i \in 1..Len(order) : order[i] = s
  BY DEF Cached, IInv, Listed
<1>3. /\ Distinct(recency)
      /\ Len(order) <= limit /\ Len(order) <= Len(recency)
      /\ Len(order) = limit \/ Len(order) = Len(recency)
      /\ \A k \in 1..Len(order) : order[k] = recency[k]
      /\ Len(order) \in Nat /\ Len(recency) \in Nat
  BY <1>1 DEF IInv, Front
<1>4. Distinct(order)
  <2> SUFFICES ASSUME NEW j \in 1..Len(order), NEW k \in 1..Len(order), order[j] = order[k]
               PROVE  j = k
    BY DEF Distinct
  <2>1. j \in 1..Len(recency) /\ k \in 1..Len(recency) /\ recency[j] = recency[k]
    BY <1>3
  <2> QED BY <1>3, <2>1 DEF Distinct
<1>5. /\ order' \in Seq(Sizes) /\ Len(order') = Len(order)
      /\ \A j \in 1..Len(order) :
           order'[j] = IF j = 1 THEN s ELSE IF j <= i THEN order[j - 1] ELSE order[j]
      /\ \A x \in Sizes : (\E j \in 1..Len(order') : order'[j] = x) <=> \E j \in 1..Len(order) : order[j] = x
  <2> DEFINE m == MoveToFront(order, want[t])
             moved(j) == IF j = 1 THEN want[t] ELSE IF j <= i THEN order[j - 1] ELSE order[j]
  <2>1. order' = m
    OBVIOUS
  <2>5. /\ m \in Seq(Sizes) /\ Len(m) = Len(order)
        /\ \A j \in 1..Len(order) : m[j] = moved(j)
        /\ \A j \in 1..Len(order) : \E k \in 1..Len(order) : m[k] = order[j]
        /\ \A k \in 1..Len(order) : \E j \in 1..Len(order) : m[k] = order[j]
    BY <1>1, <1>2, <1>4, MoveProperties
  <2> HIDE DEF m, moved
  <2>2. /\ order' \in Seq(Sizes) /\ Len(order') = Len(order)
        /\ \A j \in 1..Len(order) : order'[j] = moved(j)
        /\ \A j \in 1..Len(order) : \E k \in 1..Len(order) : order'[k] = order[j]
        /\ \A k \in 1..Len(order) : \E j \in 1..Len(order) : order'[k] = order[j]
    BY ONLY <2>1, <2>5
  <2>3. ASSUME NEW x \in Sizes, NEW k \in 1..Len(order), order'[k] = x
        PROVE  \E j \in 1..Len(order) : order[j] = x
    BY <2>2, <2>3
  <2>4. ASSUME NEW x \in Sizes, NEW j \in 1..Len(order), order[j] = x
        PROVE  \E k \in 1..Len(order) : order'[k] = x
    BY <2>2, <2>4
  <2> QED BY <2>2, <2>3, <2>4 DEF moved
<1>6. i \in 1..Len(recency) /\ recency[i] = s
  BY <1>2, <1>3
<1>7. /\ recency' \in Seq(Sizes) /\ Distinct(recency') /\ Len(recency') = Len(recency)
      /\ \A j \in 1..Len(recency) :
           recency'[j] = IF j = 1 THEN s ELSE IF j <= i THEN recency[j - 1] ELSE recency[j]
  BY <1>1, <1>3, <1>6, UsedProperties
<1>8. ASSUME NEW j \in 1..Len(order') PROVE order'[j] = recency'[j]
  <2>1. j \in 1..Len(order) /\ j \in 1..Len(recency)
    BY <1>3, <1>5
  <2>2. j # 1 => order[j - 1] = recency[j - 1]
    <3>1. j # 1 => j - 1 \in 1..Len(order)
      BY <1>3, <2>1
    <3> QED BY <1>3, <3>1
  <2>3. order[j] = recency[j]
    BY <1>3, <2>1
  <2>4. order'[j] = IF j = 1 THEN s ELSE IF j <= i THEN order[j - 1] ELSE order[j]
    BY <1>5, <2>1
  <2>5. recency'[j] = IF j = 1 THEN s ELSE IF j <= i THEN recency[j - 1] ELSE recency[j]
    BY <1>7, <2>1
  <2> HIDE DEF s
  <2> QED BY <2>2, <2>3, <2>4, <2>5
<1> QED BY <1>1, <1>3, <1>5, <1>7, <1>8

\* A miss that enters its plan: the length is pushed, those beyond the limit go.
LEMMA EnterStep ==
  ASSUME IInv, NEW t \in Threads, pc[t] = "insert", want[t] \notin Cached, Insert(t)
  PROVE  /\ order' \in Seq(Sizes) /\ recency' \in Seq(Sizes)
         /\ \A s \in Sizes : (\E i \in 1..Len(order') : order'[i] = s) <=> plans'[s] # None
         /\ \A s \in Sizes : plans'[s] \in {None, plans[s]} \/ (s = want[t] /\ plans'[s] = built[t])
         /\ plans'[want[t]] = built[t]
         /\ Distinct(recency')
         /\ Len(order') <= limit /\ Len(order') <= Len(recency')
         /\ Len(order') = limit \/ Len(order') = Len(recency')
         /\ \A i \in 1..Len(order') : order'[i] = recency'[i]
<1> DEFINE s == want[t]
           pushed == PushFront(order, s)
           keep == IF Len(pushed) > limit THEN limit ELSE Len(pushed)
<1>1. /\ s \in Sizes /\ order \in Seq(Sizes) /\ recency \in Seq(Sizes) /\ limit \in Nat \ {0}
      /\ built[t] # None
  BY CacheAssumption DEF IInv, TypeOK, Front
<1>2. \A i \in 1..Len(order) : order[i] # s
  BY <1>1 DEF IInv, Listed, Cached
<1>3. /\ Distinct(recency)
      /\ Len(order) <= limit /\ Len(order) <= Len(recency)
      /\ Len(order) = limit \/ Len(order) = Len(recency)
      /\ \A k \in 1..Len(order) : order[k] = recency[k]
      /\ Len(order) \in Nat /\ Len(recency) \in Nat
  BY <1>1 DEF IInv, Front
<1>4. Distinct(order)
  <2> SUFFICES ASSUME NEW j \in 1..Len(order), NEW k \in 1..Len(order), order[j] = order[k]
               PROVE  j = k
    BY DEF Distinct
  <2>1. j \in 1..Len(recency) /\ k \in 1..Len(recency) /\ recency[j] = recency[k]
    BY <1>3
  <2> QED BY <1>3, <2>1 DEF Distinct
<1>5. /\ pushed \in Seq(Sizes) /\ Len(pushed) = Len(order) + 1 /\ Distinct(pushed)
      /\ \A j \in 1..(Len(order) + 1) : pushed[j] = IF j = 1 THEN s ELSE order[j - 1]
  BY <1>1, <1>2, <1>4, PushProperties
<1>6. /\ order' = SubSeq(pushed, 1, keep)
      /\ plans' = [x \in Sizes |->
           IF \E i \in keep + 1..Len(pushed) : pushed[i] = x THEN None
           ELSE IF x = s THEN built[t] ELSE plans[x]]
      /\ Used(s)
  BY DEF Insert, Kept
<1> HIDE DEF pushed
<1>7. keep \in 1..Len(pushed) /\ keep <= limit /\ keep <= Len(order) + 1
      /\ (keep = limit \/ keep = Len(order) + 1)
  BY <1>1, <1>3, <1>5
<1> HIDE DEF keep
<1>8. order' \in Seq(Sizes) /\ Len(order') = keep /\ \A j \in 1..keep : order'[j] = pushed[j]
  <2>1. keep \in 0..Len(pushed)
    BY <1>7
  <2> QED BY <1>5, <1>6, <2>1, FrontOf
<1>9. /\ recency' \in Seq(Sizes) /\ Distinct(recency')
      /\ Len(recency') \in Nat \ {0} /\ Len(recency') >= Len(recency)
      /\ recency'[1] = s
      /\ \A j \in 2..Len(recency') :
           (\A k \in 1..(j - 1) : recency[k] # s) => recency'[j] = recency[j - 1]
      /\ (\A k \in 1..Len(recency) : recency[k] # s) => Len(recency') = Len(recency) + 1
  BY <1>1, <1>3, <1>6, UsedProperties
<1>10. Len(order) = Len(recency) => Len(recency') = Len(recency) + 1
  BY <1>2, <1>3, <1>9
<1>11. keep <= Len(recency') /\ (keep = limit \/ keep = Len(recency'))
  BY <1>1, <1>3, <1>7, <1>9, <1>10
<1>12. ASSUME NEW j \in 1..keep PROVE order'[j] = recency'[j]
  <2>1. CASE j = 1
    BY <2>1, <1>5, <1>7, <1>8, <1>9
  <2>2. CASE j # 1
    <3>1. /\ j - 1 \in 1..Len(order) /\ j \in 2..Len(recency') /\ j \in 1..(Len(order) + 1)
          /\ \A k \in 1..(j - 1) : k \in 1..Len(order)
      BY <2>2, <1>3, <1>5, <1>7, <1>11
    <3>2. order'[j] = order[j - 1]
      BY <2>2, <3>1, <1>5, <1>8
    <3>3. recency'[j] = recency[j - 1]
      BY <3>1, <1>2, <1>3, <1>9
    <3> QED BY <3>1, <3>2, <3>3, <1>3
  <2> QED BY <2>1, <2>2
<1>13. plans'[s] = built[t]
  <2>1. \A i \in keep + 1..Len(pushed) : pushed[i] # s
    <3> SUFFICES ASSUME NEW i \in keep + 1..Len(pushed) PROVE pushed[i] # s
      OBVIOUS
    <3>1. i \in 1..Len(pushed) /\ 1 \in 1..Len(pushed) /\ i # 1
      BY <1>3, <1>5, <1>7
    <3>2. pushed[1] = s
      BY <3>1, <1>5
    <3> QED BY <3>1, <3>2, <1>5 DEF Distinct
  <2> QED BY <2>1, <1>1, <1>6
<1>14. ASSUME NEW x \in Sizes
       PROVE  (\E i \in 1..keep : order'[i] = x) <=> plans'[x] # None
  <2>1. CASE \E i \in keep + 1..Len(pushed) : pushed[i] = x
    <3>1. plans'[x] = None
      BY <2>1, <1>6
    <3>2. PICK i \in keep + 1..Len(pushed) : pushed[i] = x
      BY <2>1
    <3>3. ASSUME NEW j \in 1..keep PROVE order'[j] # x
      <4>1. j \in 1..Len(pushed) /\ i \in 1..Len(pushed) /\ i # j
        BY <1>3, <1>5, <1>7
      <4> QED BY <4>1, <3>2, <1>5, <1>8 DEF Distinct
    <3> QED BY <3>1, <3>3
  <2>2. CASE ~ \E i \in keep + 1..Len(pushed) : pushed[i] = x
    <3>1. CASE x = s
      <4>1. 1 \in 1..keep /\ order'[1] = s
        BY <1>3, <1>5, <1>7, <1>8
      <4> QED BY <3>1, <4>1, <1>1, <1>13
    <3>2. CASE x # s
      <4>1. plans'[x] = plans[x]
        BY <2>2, <3>2, <1>6
      <4>2. plans[x] # None <=> \E i \in 1..Len(order) : order[i] = x
        BY DEF IInv, Listed
      <4>3. ASSUME NEW i \in 1..Len(order), order[i] = x PROVE \E j \in 1..keep : order'[j] = x
        <5>1. i + 1 \in 1..Len(pushed) /\ pushed[i + 1] = x
          BY <4>3, <1>3, <1>5
        <5>2. i + 1 \in 1..keep
          BY <5>1, <2>2, <1>3, <1>5, <1>7
        <5> QED BY <5>1, <5>2, <1>8
      <4>4. ASSUME NEW j \in 1..keep, order'[j] = x PROVE \E i \in 1..Len(order) : order[i] = x
        <5>1. pushed[j] = x /\ j \in 1..(Len(order) + 1)
          BY <4>4, <1>3, <1>5, <1>7, <1>8
        <5>2. j # 1 /\ j - 1 \in 1..Len(order) /\ order[j - 1] = x
          BY <5>1, <3>2, <1>3, <1>5
        <5> QED BY <5>2
      <4> QED BY <4>1, <4>2, <4>3, <4>4
    <3> QED BY <3>1, <3>2
  <2> QED BY <2>1, <2>2
<1>15. \A x \in Sizes : plans'[x] \in {None, plans[x]} \/ (x = s /\ plans'[x] = built[t])
  BY <1>6
<1> QED BY <1>7, <1>8, <1>9, <1>11, <1>12, <1>13, <1>14, <1>15

\* A transform begins.
LEMMA GetStep ==
  ASSUME IInv, NEW t \in Threads, NEW s \in Sizes, Get(t, s)
  PROVE  IInv'
<1>1. /\ pc[t] = "idle" /\ want' = [want EXCEPT ![t] = s]
      /\ limit' = limit /\ plans' = plans /\ order' = order /\ built' = built /\ recency' = recency
  BY DEF Get
<1>2. CASE limit = 0
  <2> DEFINE p == [size |-> s, build |-> builds + 1]
  <2>1. builds < MaxBuilds /\ builds' = builds + 1 /\ Return(t, p)
    BY <1>2 DEF Get
  <2>2. p \in Plan /\ builds' \in 0..MaxBuilds /\ p.size = s
    BY <2>1, CacheAssumption DEF IInv, TypeOK, Plan
  <2> HIDE DEF p
  <2>3. /\ pc' \in [Threads -> {"idle", "find", "build", "insert", "use"}]
        /\ plan' \in [Threads -> Plan \cup {None}]
        /\ pc'[t] = "use" /\ plan'[t] = p /\ p # None
        /\ \A u \in Threads : u # t => pc'[u] = pc[u] /\ plan'[u] = plan[u]
    BY <1>1, <2>1, <2>2, ReturnType DEF IInv
  <2>4. TypeOK'
    BY <1>1, <2>2, <2>3 DEF IInv, TypeOK
  <2>5. Front'
    <3>1. \A u \in Threads : pc'[u] \in {"idle", "use"}
      BY <1>2, <2>3 DEF IInv, Front
    <3> QED BY <1>1, <1>2, <3>1 DEF IInv, Front, Distinct
  <2>6. Listed' /\ Lengths'
    BY <1>1, <2>2, <2>3 DEF IInv, TypeOK, Listed, Lengths
  <2> QED BY <2>4, <2>5, <2>6 DEF IInv
<1>3. CASE limit # 0
  <2>1. pc' = [pc EXCEPT ![t] = "find"] /\ builds' = builds /\ plan' = plan
    BY <1>3 DEF Get
  <2>2. TypeOK'
    BY <1>1, <2>1 DEF IInv, TypeOK
  <2>3. Front'
    BY <1>1, <1>3, <2>1 DEF IInv, Front, Distinct
  <2>4. Listed' /\ Lengths'
    BY <1>1, <2>1 DEF IInv, TypeOK, Listed, Lengths
  <2> QED BY <2>2, <2>3, <2>4 DEF IInv
<1> QED BY <1>2, <1>3

\* The first critical section.
LEMMA FindStep ==
  ASSUME IInv, NEW t \in Threads, Find(t)
  PROVE  IInv'
<1>1. /\ pc[t] = "find"
      /\ limit' = limit /\ plans' = plans /\ want' = want /\ built' = built /\ builds' = builds
  BY DEF Find
<1>2. want[t] \in Sizes
  BY <1>1 DEF IInv, TypeOK
<1>3. CASE want[t] \in Cached
  <2>1. order' = MoveToFront(order, want[t]) /\ Return(t, plans[want[t]]) /\ Used(want[t])
    BY <1>3 DEF Find
  <2>2. plans[want[t]] \in Plan /\ plans[want[t]].size = want[t]
    BY <1>3 DEF IInv, TypeOK, Cached, Lengths
  <2>3. /\ pc' \in [Threads -> {"idle", "find", "build", "insert", "use"}]
        /\ plan' \in [Threads -> Plan \cup {None}]
        /\ pc'[t] = "use" /\ plan'[t] = plans[want[t]] /\ plans[want[t]] # None
        /\ \A u \in Threads : u # t => pc'[u] = pc[u] /\ plan'[u] = plan[u]
    BY <1>1, <2>1, <2>2, ReturnType DEF IInv
  <2>4. /\ order' \in Seq(Sizes) /\ recency' \in Seq(Sizes)
        /\ \A s \in Sizes : (\E i \in 1..Len(order') : order'[i] = s) <=> \E i \in 1..Len(order) : order[i] = s
        /\ Distinct(recency')
        /\ limit # 0
        /\ Len(order') <= limit /\ Len(order') <= Len(recency')
        /\ Len(order') = limit \/ Len(order') = Len(recency')
        /\ \A i \in 1..Len(order') : order'[i] = recency'[i]
    BY <1>1, <1>3, <2>1, HitStep
  <2>5. TypeOK'
    BY <1>1, <2>3, <2>4 DEF IInv, TypeOK
  <2>6. Front'
    BY <1>1, <2>4 DEF Front, Distinct
  <2>7. Listed'
    BY <1>1, <2>4 DEF IInv, Listed
  <2>8. Lengths'
    BY <1>1, <2>2, <2>3 DEF IInv, TypeOK, Lengths
  <2> QED BY <2>5, <2>6, <2>7, <2>8 DEF IInv
<1>4. CASE want[t] \notin Cached
  <2>1. pc' = [pc EXCEPT ![t] = "build"] /\ order' = order /\ plan' = plan /\ recency' = recency
    BY <1>4 DEF Find
  <2>2. TypeOK'
    BY <1>1, <1>2, <2>1 DEF IInv, TypeOK
  <2>3. limit # 0
    BY <1>1 DEF IInv, Front
  <2>4. Front'
    BY <1>1, <2>1, <2>3 DEF IInv, Front, Distinct
  <2>5. Listed' /\ Lengths'
    BY <1>1, <2>1 DEF IInv, TypeOK, Listed, Lengths
  <2> QED BY <2>2, <2>4, <2>5 DEF IInv
<1> QED BY <1>3, <1>4

\* The plan is built, the mutex free.
LEMMA BuildStep ==
  ASSUME IInv, NEW t \in Threads, Build(t)
  PROVE  IInv'
<1> DEFINE p == [size |-> want[t], build |-> builds + 1]
<1>1. /\ pc[t] = "build" /\ builds < MaxBuilds /\ builds' = builds + 1
      /\ built' = [built EXCEPT ![t] = p] /\ pc' = [pc EXCEPT ![t] = "insert"]
      /\ limit' = limit /\ plans' = plans /\ order' = order /\ want' = want /\ plan' = plan
      /\ recency' = recency
  BY DEF Build
<1>2. want[t] \in Sizes /\ p \in Plan /\ builds' \in 0..MaxBuilds /\ p.size = want[t]
  BY <1>1, CacheAssumption DEF IInv, TypeOK, Plan
<1> HIDE DEF p
<1>3. p # None
  BY <1>2, CacheAssumption DEF Plan
<1>4. TypeOK'
  BY <1>1, <1>2, <1>3 DEF IInv, TypeOK
<1>5. limit # 0
  BY <1>1 DEF IInv, Front
<1>6. Front'
  BY <1>1, <1>5 DEF IInv, Front, Distinct
<1>7. Listed' /\ Lengths'
  BY <1>1, <1>2 DEF IInv, TypeOK, Listed, Lengths
<1> QED BY <1>4, <1>6, <1>7 DEF IInv

\* The second critical section.
LEMMA InsertStep ==
  ASSUME IInv, NEW t \in Threads, Insert(t)
  PROVE  IInv'
<1>1. /\ pc[t] = "insert" /\ built' = [built EXCEPT ![t] = None] /\ Used(want[t])
      /\ limit' = limit /\ want' = want /\ builds' = builds
  BY DEF Insert
<1>2. want[t] \in Sizes /\ built[t] \in Plan /\ built[t].size = want[t]
  BY <1>1 DEF IInv, TypeOK, Lengths
<1>3. CASE want[t] \in Cached
  <2>1. order' = MoveToFront(order, want[t]) /\ Return(t, plans[want[t]]) /\ plans' = plans
    BY <1>3 DEF Insert
  <2>2. plans[want[t]] \in Plan /\ plans[want[t]].size = want[t]
    BY <1>3 DEF IInv, TypeOK, Cached, Lengths
  <2>3. /\ pc' \in [Threads -> {"idle", "find", "build", "insert", "use"}]
        /\ plan' \in [Threads -> Plan \cup {None}]
        /\ pc'[t] = "use" /\ plan'[t] = plans[want[t]] /\ plans[want[t]] # None
        /\ \A u \in Threads : u # t => pc'[u] = pc[u] /\ plan'[u] = plan[u]
    BY <1>1, <2>1, <2>2, ReturnType DEF IInv
  <2>4. /\ order' \in Seq(Sizes) /\ recency' \in Seq(Sizes)
        /\ \A s \in Sizes : (\E i \in 1..Len(order') : order'[i] = s) <=> \E i \in 1..Len(order) : order[i] = s
        /\ Distinct(recency')
        /\ limit # 0
        /\ Len(order') <= limit /\ Len(order') <= Len(recency')
        /\ Len(order') = limit \/ Len(order') = Len(recency')
        /\ \A i \in 1..Len(order') : order'[i] = recency'[i]
    BY <1>1, <1>3, <2>1, HitStep
  <2>5. TypeOK'
    <3>1. built' \in [Threads -> Plan \cup {None}] /\ built'[t] = None
          /\ \A u \in Threads : u # t => built'[u] = built[u]
      BY <1>1 DEF IInv, TypeOK
    <3>2. \A u \in Threads : /\ pc'[u] # "idle" => want'[u] \in Sizes
                             /\ pc'[u] = "insert" <=> built'[u] # None
                             /\ pc'[u] = "use" <=> plan'[u] # None
      BY <1>1, <1>2, <2>3, <3>1 DEF IInv, TypeOK
    <3> QED BY <1>1, <2>1, <2>3, <2>4, <3>1, <3>2 DEF IInv, TypeOK
  <2>6. Front'
    BY <1>1, <2>4 DEF Front, Distinct
  <2>7. Listed'
    BY <2>1, <2>4 DEF IInv, Listed
  <2>8. Lengths'
    BY <1>1, <2>1, <2>2, <2>3 DEF IInv, TypeOK, Lengths
  <2> QED BY <2>5, <2>6, <2>7, <2>8 DEF IInv
<1>4. CASE want[t] \notin Cached
  <2>1. Return(t, built[t])
    BY <1>4 DEF Insert
  <2>2. /\ pc' \in [Threads -> {"idle", "find", "build", "insert", "use"}]
        /\ plan' \in [Threads -> Plan \cup {None}]
        /\ pc'[t] = "use" /\ plan'[t] = built[t] /\ built[t] # None
        /\ \A u \in Threads : u # t => pc'[u] = pc[u] /\ plan'[u] = plan[u]
    BY <1>1, <1>2, <2>1, ReturnType DEF IInv
  <2>3. /\ order' \in Seq(Sizes) /\ recency' \in Seq(Sizes)
        /\ \A s \in Sizes : (\E i \in 1..Len(order') : order'[i] = s) <=> plans'[s] # None
        /\ \A s \in Sizes : plans'[s] \in {None, plans[s]} \/ (s = want[t] /\ plans'[s] = built[t])
        /\ Distinct(recency')
        /\ Len(order') <= limit /\ Len(order') <= Len(recency')
        /\ Len(order') = limit \/ Len(order') = Len(recency')
        /\ \A i \in 1..Len(order') : order'[i] = recency'[i]
    BY <1>1, <1>4, EnterStep
  <2>4. plans' \in [Sizes -> Plan \cup {None}]
    <3>1. DOMAIN plans' = Sizes /\ plans' = [s \in Sizes |-> plans'[s]]
      BY <1>4 DEF Insert
    <3>2. \A s \in Sizes : plans'[s] \in Plan \cup {None}
      BY <1>2, <2>3 DEF IInv, TypeOK
    <3> QED BY <3>1, <3>2
  <2>5. TypeOK'
    <3>1. built' \in [Threads -> Plan \cup {None}] /\ built'[t] = None
          /\ \A u \in Threads : u # t => built'[u] = built[u]
      BY <1>1 DEF IInv, TypeOK
    <3>2. \A u \in Threads : /\ pc'[u] # "idle" => want'[u] \in Sizes
                             /\ pc'[u] = "insert" <=> built'[u] # None
                             /\ pc'[u] = "use" <=> plan'[u] # None
      BY <1>1, <1>2, <2>2, <3>1 DEF IInv, TypeOK
    <3> QED BY <1>1, <2>2, <2>3, <2>4, <3>1, <3>2 DEF IInv, TypeOK
  <2>6. limit # 0
    BY <1>1 DEF IInv, Front
  <2>7. Front'
    BY <1>1, <2>3, <2>6 DEF Front, Distinct
  <2>8. Listed'
    BY <2>3 DEF Listed
  <2>9. Lengths'
    <3>1. \A s \in Sizes : plans'[s] # None => plans'[s].size = s
      BY <1>2, <2>3 DEF IInv, Lengths
    <3>2. \A u \in Threads : pc'[u] = "use" => plan'[u].size = want'[u]
      BY <1>1, <1>2, <2>2 DEF IInv, Lengths
    <3>3. \A u \in Threads : pc'[u] = "insert" => built'[u].size = want'[u]
      BY <1>1, <2>2 DEF IInv, TypeOK, Lengths
    <3> QED BY <3>1, <3>2, <3>3 DEF Lengths
  <2> QED BY <2>5, <2>7, <2>8, <2>9 DEF IInv
<1> QED BY <1>3, <1>4

\* Every step.
LEMMA NextIInv == IInv /\ [Next]_vars => IInv'
<1> SUFFICES ASSUME IInv, [Next]_vars PROVE IInv'
  OBVIOUS
<1>1. ASSUME NEW t \in Threads, Drop(t) PROVE IInv'
  <2>1. /\ pc[t] = "use" /\ pc' = [pc EXCEPT ![t] = "idle"]
        /\ want' = [want EXCEPT ![t] = None] /\ plan' = [plan EXCEPT ![t] = None]
        /\ limit' = limit /\ plans' = plans /\ order' = order /\ built' = built
        /\ builds' = builds /\ recency' = recency
    BY <1>1 DEF Drop
  <2>2. TypeOK'
    BY <2>1 DEF IInv, TypeOK
  <2>3. Front'
    BY <2>1 DEF IInv, TypeOK, Front, Distinct
  <2>4. Listed' /\ Lengths'
    BY <2>1 DEF IInv, TypeOK, Listed, Lengths
  <2> QED BY <2>2, <2>3, <2>4 DEF IInv
<1>2. ASSUME NEW t \in Threads, Clear(t) PROVE IInv'
  <2>1. /\ plans' = [s \in Sizes |-> None] /\ order' = <<>> /\ recency' = <<>>
        /\ limit' = limit /\ pc' = pc /\ want' = want /\ built' = built /\ plan' = plan
        /\ builds' = builds /\ Len(order') = 0 /\ Len(recency') = 0
    BY <1>2 DEF Clear
  <2>2. TypeOK'
    BY <2>1 DEF IInv, TypeOK
  <2>3. limit \in Nat
    BY CacheAssumption DEF IInv, TypeOK
  <2>4. Front'
    BY <2>1, <2>3 DEF IInv, Front, Distinct
  <2>5. Listed' /\ Lengths'
    BY <2>1 DEF IInv, Listed, Lengths
  <2> QED BY <2>2, <2>4, <2>5 DEF IInv
<1>3. CASE UNCHANGED vars
  BY <1>3 DEF vars, IInv, TypeOK, Front, Distinct, Listed, Lengths
<1> QED BY <1>1, <1>2, <1>3, GetStep, FindStep, BuildStep, InsertStep DEF Next

-----------------------------------------------------------------------------
(***************************************************************************)
(* What follows from the invariant.                                        *)
(***************************************************************************)

\* In every reachable state the strengthened invariant holds.
THEOREM Inductive == Spec => []IInv
<1> QED BY InitIInv, NextIInv, PTL DEF Spec

\* A list that is a front of the history names no length twice.
LEMMA OrderDistinct == IInv => Distinct(order)
<1> SUFFICES ASSUME IInv, NEW j \in 1..Len(order), NEW k \in 1..Len(order), order[j] = order[k]
             PROVE  j = k
  BY DEF Distinct
<1>1. limit # 0
  <2> SUFFICES ASSUME limit = 0 PROVE FALSE
    OBVIOUS
  <2>1. Len(order) = 0
    BY DEF IInv, Front
  <2> QED BY <2>1
<1>2. Len(order) \in Nat /\ Len(recency) \in Nat
  BY DEF IInv, TypeOK
<1>3. j \in 1..Len(recency) /\ k \in 1..Len(recency) /\ recency[j] = recency[k]
  BY <1>1, <1>2 DEF IInv, Front
<1> QED BY <1>3 DEF IInv, Front, Distinct

\* The plan cache's variables keep their types: a thread inside a transform has
\* a plan, one between the critical sections has the plan it built.
THEOREM Typed == Spec => []TypeOK
<1>1. IInv => TypeOK
  BY DEF IInv
<1> QED BY <1>1, Inductive, PTL

\* The map and the list of LinePlanCache always name the same lengths, each once.
THEOREM ListMatchesMap == Spec => []Coherent
<1>1. ASSUME IInv PROVE Coherent
  <2>1. Distinct(order)
    BY <1>1, OrderDistinct
  <2>2. ASSUME NEW s \in Sizes PROVE s \in Cached <=> Place(order, s) # {}
    BY <1>1 DEF IInv, Listed, Cached, Place
  <2> QED BY <2>1, <2>2 DEF Coherent, Distinct
<1> QED BY <1>1, Inductive, PTL

\* At most `limit` plans are cached, none when the cache is disabled.
Bounded == Cardinality(Cached) <= limit

\* The cache never holds more plans than its limit: the map has no length that
\* is not in the list.
THEOREM WithinLimit == Spec => []Bounded
<1>1. ASSUME IInv PROVE Bounded
  <2> DEFINE n == Len(order)
             f == [i \in 1..n |-> order[i]]
  <2>1. n \in Nat /\ limit \in Nat /\ \A i \in 1..n : order[i] \in Sizes
    BY <1>1, CacheAssumption DEF IInv, TypeOK
  <2>2. n <= limit
    <3>1. order = <<>> => n = 0
      OBVIOUS
    <3> QED BY <1>1, <2>1, <3>1 DEF IInv, Front
  <2>3. \A s \in Sizes : s \in Cached <=> \E i \in 1..n : order[i] = s
    BY <1>1 DEF IInv, Listed, Cached
  <2>4. f \in Surjection(1..n, Cached)
    <3>1. f \in [1..n -> Cached]
      BY <2>1, <2>3
    <3>2. \A s \in Cached : \E i \in 1..n : f[i] = s
      BY <2>3 DEF Cached
    <3> QED BY <3>1, <3>2 DEF Surjection
  <2> HIDE DEF n, f
  <2>5. ExistsSurjection(1..n, Cached)
    BY <2>4 DEF ExistsSurjection
  <2>6. IsFiniteSet(1..n)
    BY <2>1, FS_Interval
  <2>7. IsFiniteSet(Cached)
    BY <2>4, <2>6, FS_Surjection
  <2>8. Cardinality(Cached) \in Nat /\ Cardinality(Cached) <= n
    BY <2>1, <2>5, <2>7, FS_SurjCardinalityBound, FS_CardinalityType
  <2> QED BY <2>1, <2>2, <2>8 DEF Bounded
<1> QED BY <1>1, Inductive, PTL

\* No interleaving of builds, evictions and clears gives a transform a plan of
\* another length.
THEOREM PlanFitsLine == Spec => []RightPlan
<1>1. IInv => RightPlan
  BY DEF IInv, Lengths, RightPlan, Cached
<1> QED BY <1>1, Inductive, PTL

\* What eviction leaves is the most recently used lengths, in order of use.
THEOREM KeepsMostRecent == Spec => []LeastRecentEvicted
<1>1. ASSUME IInv
      PROVE  order = SubSeq(recency, 1, IF Len(recency) < limit THEN Len(recency) ELSE limit)
  <2> DEFINE n == IF Len(recency) < limit THEN Len(recency) ELSE limit
  <2>1. order \in Seq(Sizes) /\ recency \in Seq(Sizes) /\ limit \in Nat
    BY <1>1, CacheAssumption DEF IInv, TypeOK
  <2>2. /\ Len(order) <= limit /\ Len(order) <= Len(recency)
        /\ Len(order) = limit \/ Len(order) = Len(recency)
        /\ \A i \in 1..Len(order) : order[i] = recency[i]
    <3>1. CASE limit # 0
      BY <1>1, <3>1 DEF IInv, Front
    <3>2. CASE limit = 0
      <4>1. order = <<>> => Len(order) = 0
        OBVIOUS
      <4> QED BY <1>1, <2>1, <3>2, <4>1 DEF IInv, Front
    <3> QED BY <3>1, <3>2
  <2>3. Len(order) \in Nat /\ Len(recency) \in Nat
    BY <2>1
  <2>4. n \in 0..Len(recency) /\ Len(order) = n
    BY <2>1, <2>2, <2>3
  <2> HIDE DEF n
  <2>5. /\ SubSeq(recency, 1, n) \in Seq(Sizes) /\ Len(SubSeq(recency, 1, n)) = n
        /\ \A j \in 1..n : SubSeq(recency, 1, n)[j] = recency[j]
    BY <2>1, <2>4, FrontOf
  <2>6. order = SubSeq(recency, 1, n)
    BY <2>1, <2>2, <2>4, <2>5, SeqEqual
  <2> QED BY <2>6 DEF n
<1>2. IInv => LeastRecentEvicted
  BY <1>1 DEF LeastRecentEvicted
<1> QED BY <1>2, Inductive, PTL

\* get() leaves with the plan that is in the cache, and never replaces one.
THEOREM SharesOneCopy == Spec => OneCopy
<1> DEFINE Copy ==
      \A t \in Threads : limit # 0 /\ pc[t] # "use" /\ pc'[t] = "use" =>
        /\ plans'[want[t]] = plan'[t]
        /\ plans[want[t]] # None => plan'[t] = plans[want[t]]
<1>1. ASSUME IInv, [Next]_vars PROVE [Copy]_vars
  <2> SUFFICES ASSUME Next, NEW t \in Threads, limit # 0, pc[t] # "use", pc'[t] = "use"
               PROVE  /\ plans'[want[t]] = plan'[t]
                      /\ plans[want[t]] # None => plan'[t] = plans[want[t]]
    BY <1>1
  <2>1. PICK u \in Threads : \/ \E s \in Sizes : Get(u, s)
                             \/ Find(u) \/ Build(u) \/ Insert(u) \/ Drop(u) \/ Clear(u)
    BY DEF Next
  <2>2. pc \in [Threads -> {"idle", "find", "build", "insert", "use"}]
        /\ plan \in [Threads -> Plan \cup {None}]
    BY <1>1 DEF IInv, TypeOK
  <2>3. CASE \E s \in Sizes : Get(u, s)
    BY <2>2, <2>3 DEF Get
  <2>4. CASE Find(u)
    <3>1. u = t /\ want[t] \in Cached
      BY <2>2, <2>4 DEF Find, Return
    <3> QED BY <2>2, <2>4, <3>1 DEF Find, Return
  <2>5. CASE Build(u)
    BY <2>2, <2>5 DEF Build
  <2>6. CASE Insert(u)
    <3>1. u = t /\ pc[t] = "insert" /\ want[t] \in Sizes
      BY <1>1, <2>2, <2>6 DEF Insert, Return, IInv, TypeOK
    <3>2. CASE want[t] \in Cached
      BY <2>2, <2>6, <3>1, <3>2 DEF Insert, Return
    <3>3. CASE want[t] \notin Cached
      <4>1. plans[want[t]] = None
        BY <3>1, <3>3 DEF Cached
      <4>2. plans'[want[t]] = built[t]
        BY <1>1, <2>6, <3>1, <3>3, EnterStep
      <4>3. plan'[t] = built[t]
        BY <2>2, <2>6, <3>1, <3>3 DEF Insert, Return
      <4> QED BY <4>1, <4>2, <4>3
    <3> QED BY <3>2, <3>3
  <2>7. CASE Drop(u) \/ Clear(u)
    BY <2>2, <2>7 DEF Drop, Clear
  <2> QED BY <2>1, <2>3, <2>4, <2>5, <2>6, <2>7
<1> HIDE DEF Copy
<1>2. IInv /\ [Next]_vars => [Copy]_vars
  BY <1>1
<1>3. Spec => [][Copy]_vars
  BY <1>2, Inductive, PTL DEF Spec
<1> QED BY <1>3 DEF OneCopy, Copy
=============================================================================
