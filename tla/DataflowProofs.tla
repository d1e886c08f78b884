---------------------------- MODULE DataflowProofs ----------------------------
EXTENDS Dataflow, Sums, SequenceTheorems

AllLowered == \A p \in Programs : Lowered(p)
AllSwept == \A p \in Programs : NothingLost(p.nodes, p.dram)

Buffer == STRING \X Nat
NodeSet == [body : Seq(Statement), level : Nat \cup {NoLevel}]
NodeSeq == Seq(NodeSet)

-----------------------------------------------------------------------------
(***************************************************************************)
(* Sets of numbers.                                                        *)
(***************************************************************************)

\* A finite set of numbers has a greatest and a least element.
LEMMA MaxIs ==
  ASSUME NEW S \in SUBSET Nat, IsFiniteSet(S), S # {}
  PROVE  Max(S) \in S /\ \A x \in S : x <= Max(S)
<1> DEFINE Top(T) == \E m \in T : \A x \in T : x <= m
           C == {n \in Nat : \A T \in Sized(S, n) : T # {} => Top(T)}
<1>1. 0 \in C
  BY SizedAll
<1>2. ASSUME NEW n \in Nat, n \in C PROVE n + 1 \in C
  <2>1. ASSUME NEW T \in Sized(S, n + 1), NEW p \in T PROVE Top(T)
    <3>1. T \ {p} \in Sized(S, n) /\ T \in SUBSET Nat
      BY Smaller
    <3>2. CASE T \ {p} = {}
      BY <3>1, <3>2
    <3>3. CASE T \ {p} # {}
      <4>1. PICK m \in T \ {p} : \A x \in T \ {p} : x <= m
        BY <3>1, <3>3, <1>2
      <4> QED BY <3>1, <4>1
    <3> QED BY <3>2, <3>3
  <2> HIDE DEF Top
  <2> QED BY <2>1
<1> HIDE DEF C
<1>3. Nat \subseteq C
  BY <1>1, <1>2, Counting
<1>4. Cardinality(S) \in C
  BY <1>3, SizedAll
<1>5. Top(S)
  BY <1>4, SizedAll DEF C
<1>6. \E x \in S : \A y \in S : x >= y
  <2>1. PICK m \in S : \A x \in S : x <= m
    BY <1>5
  <2>2. \A x \in S : m >= x
    BY <2>1
  <2> QED BY <2>2
<1>7. Max(S) \in S /\ \A y \in S : Max(S) >= y
  BY <1>6 DEF Max
<1>8. \A y \in S : y <= Max(S)
  BY <1>7
<1> QED BY <1>7, <1>8

LEMMA MinIs ==
  ASSUME NEW S \in SUBSET Nat, S # {}
  PROVE  Min(S) \in S /\ \A x \in S : Min(S) <= x
<1>1. \E x \in S : \A y \in S : x <= y
  BY LeastElement
<1> QED BY <1>1 DEF Min

\* Consecutive numbers are an interval.
LEMMA ConsecutiveIs ==
  ASSUME NEW S \in SUBSET Nat, IsFiniteSet(S), S # {}, Consecutive(S)
  PROVE  S = Min(S)..Max(S)
<1>1. Min(S) \in S /\ Max(S) \in S /\ \A x \in S : Min(S) <= x /\ x <= Max(S)
  BY MaxIs, MinIs
<1> DEFINE lo == Min(S)  hi == Max(S)
<1>2. lo \in Nat /\ hi \in Nat /\ lo <= hi
  BY <1>1
<1>3. S \subseteq lo..hi
  BY <1>1, <1>2
<1>4. IsFiniteSet(lo..hi) /\ Cardinality(lo..hi) = hi - lo + 1
  BY <1>2, FS_Interval
<1>5. Cardinality(S) = hi - lo + 1
  BY DEF Consecutive
<1> HIDE DEF lo, hi
<1>6. S = lo..hi
  BY <1>3, <1>4, <1>5, FS_Subset
<1> QED BY <1>6 DEF lo, hi

\* At most one element.
LEMMA AtMostOne ==
  ASSUME NEW S, IsFiniteSet(S)
  PROVE  ~(Cardinality(S) > 1) <=> \A x, y \in S : x = y
<1>1. CASE S = {}
  BY <1>1, FS_EmptySet
<1>2. CASE S # {}
  <2>1. PICK x \in S : TRUE
    BY <1>2
  <2>2. Cardinality(S) \in Nat /\ Cardinality(S \ {x}) = Cardinality(S) - 1 /\ IsFiniteSet(S \ {x})
    BY FS_CardinalityType, FS_RemoveElement
  <2>3. Cardinality(S \ {x}) \in Nat /\ (Cardinality(S \ {x}) = 0 <=> S \ {x} = {})
    BY <2>2, FS_CardinalityType, FS_EmptySet
  <2>4. S \ {x} = {} <=> \A y, z \in S : y = z
    BY <2>1
  <2> QED BY <2>2, <2>3, <2>4
<1> QED BY <1>1, <1>2

-----------------------------------------------------------------------------
(***************************************************************************)
(* Sequences.                                                              *)
(***************************************************************************)

\* t takes the place of what follows the first a elements of s up to the z-th.
Splice(s, t, a, z) == SubSeq(s, 1, a) \o t \o SubSeq(s, z + 1, Len(s))

LEMMA Part ==
  ASSUME NEW A, NEW s \in Seq(A), NEW a \in 0..Len(s)
  PROVE  /\ SubSeq(s, 1, a) \in Seq(A) /\ Len(SubSeq(s, 1, a)) = a
         /\ \A k \in 1..a : SubSeq(s, 1, a)[k] = s[k]
         /\ SubSeq(s, a + 1, Len(s)) \in Seq(A) /\ Len(SubSeq(s, a + 1, Len(s))) = Len(s) - a
         /\ \A k \in 1..(Len(s) - a) : SubSeq(s, a + 1, Len(s))[k] = s[a + k]
<1>1. Len(s) \in Nat /\ s \in [1..Len(s) -> A] /\ a \in Nat
  BY LenProperties
<1>2. PICK l \in Nat : l = Len(s)
  BY <1>1
<1>3. /\ SubSeq(s, 1, a) \in Seq(A) /\ Len(SubSeq(s, 1, a)) = a
      /\ \A k \in 1..a : SubSeq(s, 1, a)[k] = s[k]
  BY <1>1, SubSeqProperties
<1>4. PICK w : w = SubSeq(s, a + 1, l)
  OBVIOUS
<1>5. /\ w \in Seq(A) /\ Len(w) = IF a + 1 <= l THEN l - (a + 1) + 1 ELSE 0
      /\ \A k \in 1..(l - (a + 1) + 1) : w[k] = s[(a + 1) + k - 1]
  <2>1. a + 1 \in Int /\ l \in Int /\ \A k \in (a + 1)..l : s[k] \in A
    BY <1>1, <1>2
  <2> QED BY <2>1, <1>4, SubSeqProperties
<1>6. a <= l /\ l - (a + 1) + 1 = l - a /\ \A k \in 1..(l - a) : (a + 1) + k - 1 = a + k
  BY <1>1, <1>2
<1>7. \A k \in 1..(l - a) : w[k] = s[a + k]
  BY <1>5, <1>6
<1>8. Len(w) = l - a
  BY <1>1, <1>5, <1>6
<1> QED BY <1>2, <1>3, <1>4, <1>5, <1>7, <1>8

\* r is s and then t.
Joins(r, s, m, t, n) == (\A k \in 1..m : r[k] = s[k]) /\ (\A k \in 1..n : r[m + k] = t[k])

LEMMA Joined ==
  ASSUME NEW A, NEW s \in Seq(A), NEW t \in Seq(A), NEW m, NEW n, m = Len(s), n = Len(t)
  PROVE  s \o t \in Seq(A) /\ Len(s \o t) = m + n /\ Joins(s \o t, s, m, t, n)
<1>1. m \in Nat /\ n \in Nat
  BY LenProperties
<1>2. /\ s \o t \in Seq(A) /\ Len(s \o t) = m + n
      /\ \A i \in 1..(m + n) : (s \o t)[i] = IF i <= m THEN s[i] ELSE t[i - m]
  BY ConcatProperties
<1>3. PICK u : u = s \o t
  OBVIOUS
<1>4. \A k \in 1..m : u[k] = s[k]
  BY <1>1, <1>2, <1>3
<1>5. \A k \in 1..n : u[m + k] = t[k]
  <2> TAKE k \in 1..n
  <2>1. PICK i : i = m + k
    OBVIOUS
  <2>2. i \in 1..(m + n) /\ ~(i <= m) /\ i - m = k
    BY <1>1, <2>1
  <2>3. u[i] = t[k]
    BY <1>2, <1>3, <2>2
  <2> QED BY <2>1, <2>3
<1> QED BY <1>2, <1>3, <1>4, <1>5 DEF Joins

\* In parts: the head of s, then t, then the tail of s.
Splices(r, s, l, t, n, a, z) ==
  /\ \A k \in 1..a : r[k] = s[k]
  /\ \A k \in 1..n : r[a + k] = t[k]
  /\ \A k \in 1..(l - z) : r[a + n + k] = s[z + k]

LEMMA Spliced ==
  ASSUME NEW A, NEW s \in Seq(A), NEW t \in Seq(A), NEW l, l = Len(s), NEW n, n = Len(t),
         NEW a \in 0..l, NEW z \in a..l
  PROVE  /\ Splice(s, t, a, z) \in Seq(A)
         /\ Len(Splice(s, t, a, z)) = a + n + l - z
         /\ Splices(Splice(s, t, a, z), s, l, t, n, a, z)
<1>1. l \in Nat /\ n \in Nat /\ a \in Nat /\ z \in 0..l /\ z \in Nat
  BY LenProperties
<1>2. PICK u, w : u = SubSeq(s, 1, a) /\ w = SubSeq(s, z + 1, l)
  OBVIOUS
<1>3. u \in Seq(A) /\ Len(u) = a /\ \A k \in 1..a : u[k] = s[k]
  BY <1>2, Part
<1>4. w \in Seq(A) /\ Len(w) = l - z /\ \A k \in 1..(l - z) : w[k] = s[z + k]
  BY <1>1, <1>2, Part
<1>5. PICK ut : ut = u \o t
  OBVIOUS
<1>6. ut \in Seq(A) /\ Len(ut) = a + n /\ Joins(ut, u, a, t, n)
  <2>1. u \in Seq(A) /\ t \in Seq(A) /\ a = Len(u) /\ n = Len(t)
    BY <1>3
  <2>2. u \o t \in Seq(A) /\ Len(u \o t) = a + n /\ Joins(u \o t, u, a, t, n)
    BY <2>1, Joined
  <2> QED BY <1>5, <2>2
<1>7. PICK r : r = ut \o w
  OBVIOUS
<1>8. r \in Seq(A) /\ Len(r) = (a + n) + (l - z) /\ Joins(r, ut, a + n, w, l - z)
  <2>1. a + n = Len(ut) /\ l - z = Len(w)
    BY <1>4, <1>6
  <2> QED BY <1>4, <1>6, <1>7, <2>1, Joined
<1>9. r = Splice(s, t, a, z)
  BY <1>2, <1>5, <1>7 DEF Splice
<1>10. \A k \in 1..a : r[k] = s[k]
  BY <1>1, <1>3, <1>6, <1>8 DEF Joins
<1>11. \A k \in 1..n : r[a + k] = t[k]
  BY <1>1, <1>6, <1>8 DEF Joins
<1>12. \A k \in 1..(l - z) : r[a + n + k] = s[z + k]
  BY <1>4, <1>8 DEF Joins
<1>13. Len(r) = a + n + l - z
  BY <1>1, <1>8
<1> QED BY <1>8, <1>9, <1>10, <1>11, <1>12, <1>13 DEF Splices

\* Where each of the sequences of seqs ends in flat, which they make up.
Ends(seqs, N, flat, end) ==
  /\ end \in [0..N -> Nat] /\ end[0] = 0 /\ Len(flat) = end[N]
  /\ \A i \in 1..N : end[i] = end[i - 1] + Len(seqs[i])
  /\ \A i \in 1..N : \A k \in 1..Len(seqs[i]) : end[i - 1] + k \in 1..end[N] /\ flat[end[i - 1] + k] = seqs[i][k]
  /\ \A m \in 1..end[N] : \E i \in 1..N : \E k \in 1..Len(seqs[i]) : m = end[i - 1] + k

Flattens(seqs, n, f) == f = [i \in 1..n |-> IF i = 1 THEN seqs[i] ELSE f[i - 1] \o seqs[i]]

LEMMA FlattenExists ==
  ASSUME NEW seqs, NEW n \in Nat
  PROVE  \E f : Flattens(seqs, n, f)
<1> DEFINE S == {m \in Nat : \E f : Flattens(seqs, m, f)}
<1>1. 0 \in S
  <2>1. Flattens(seqs, 0, [i \in 1..0 |-> 0])
    BY DEF Flattens
  <2> QED BY <2>1
<1>2. ASSUME NEW m \in Nat, m \in S PROVE m + 1 \in S
  <2>1. PICK g : Flattens(seqs, m, g)
    BY <1>2
  <2> DEFINE f == [i \in 1..(m + 1) |-> IF i = 1 THEN seqs[i] ELSE g[i - 1] \o seqs[i]]
  <2>2. \A i \in 1..m : f[i] = g[i]
    <3> TAKE i \in 1..m
    <3>1. g[i] = IF i = 1 THEN seqs[i] ELSE g[i - 1] \o seqs[i]
      BY <2>1 DEF Flattens
    <3> QED BY <3>1
  <2>3. \A i \in 1..(m + 1) : i # 1 => i - 1 \in 1..m
    OBVIOUS
  <2>4. \A i \in 1..(m + 1) : f[i] = IF i = 1 THEN seqs[i] ELSE f[i - 1] \o seqs[i]
    BY <2>2, <2>3
  <2>5. f = [i \in 1..(m + 1) |-> f[i]]
    OBVIOUS
  <2> HIDE DEF f
  <2>6. Flattens(seqs, m + 1, f)
    BY <2>4, <2>5 DEF Flattens
  <2> QED BY <2>6
<1> HIDE DEF S
<1>3. Nat \subseteq S
  BY <1>1, <1>2, Counting
<1> QED BY <1>3 DEF S

\* What the first n sequences make up, f[n], is what those before the n-th make
\* up and then the n-th; end[n] is its length, len[n] that of the n-th sequence.
Appends(seqs, len, end, f, n) ==
  /\ len[n] \in Nat /\ end[n - 1] \in Nat /\ end[n] = end[n - 1] + len[n]
  /\ \A m \in 1..end[n - 1] : f[n][m] = f[n - 1][m]
  /\ \A k \in 1..len[n] : f[n][end[n - 1] + k] = seqs[n][k]

LEMMA FlattenSteps ==
  ASSUME NEW A, NEW N \in Nat, NEW seqs, \A i \in 1..N : seqs[i] \in Seq(A),
         NEW f, Flattens(seqs, N, f)
  PROVE  \A n \in 1..N : f[n] \in Seq(A)
<1>1. \A i \in 1..N : f[i] = IF i = 1 THEN seqs[i] ELSE f[i - 1] \o seqs[i]
  BY DEF Flattens
<1> DEFINE S == {n \in Nat : n + 1 \in 1..N => f[n + 1] \in Seq(A)}
<1>2. 0 \in S
  <2>1. CASE 1 \in 1..N
    BY <2>1, <1>1
  <2> QED BY <2>1
<1>3. ASSUME NEW n \in Nat, n \in S PROVE n + 1 \in S
  <2> SUFFICES ASSUME n + 2 \in 1..N PROVE f[n + 2] \in Seq(A)
    OBVIOUS
  <2>1. PICK z : z = n + 2
    OBVIOUS
  <2>2. n + 1 \in 1..N /\ z \in 1..N /\ z - 1 = n + 1 /\ z # 1
    BY <2>1
  <2>3. f[z] = f[n + 1] \o seqs[z] /\ f[n + 1] \in Seq(A) /\ seqs[z] \in Seq(A)
    BY <2>2, <1>1, <1>3
  <2>4. f[z] \in Seq(A)
    BY <2>3, ConcatProperties
  <2> QED BY <2>1, <2>4
<1> HIDE DEF S
<1>4. Nat \subseteq S
  BY <1>2, <1>3, Counting
<1> TAKE n \in 1..N
<1>5. n - 1 \in Nat /\ (n - 1) + 1 = n
  OBVIOUS
<1> QED BY <1>5, <1>4 DEF S

LEMMA FlattenAppends ==
  ASSUME NEW A, NEW N \in Nat, NEW seqs, \A i \in 1..N : seqs[i] \in Seq(A),
         NEW f, Flattens(seqs, N, f),
         NEW end, end[0] = 0, \A n \in 1..N : end[n] = Len(f[n]),
         NEW len, \A n \in 1..N : len[n] = Len(seqs[n])
  PROVE  \A n \in 1..N : Appends(seqs, len, end, f, n)
<1>1. \A n \in 1..N : f[n] \in Seq(A)
  BY FlattenSteps
<1>2. \A n \in 1..N : len[n] \in Nat /\ end[n] \in Nat
  BY <1>1, LenProperties
<1> TAKE n \in 1..N
<1>3. f[n] = IF n = 1 THEN seqs[n] ELSE f[n - 1] \o seqs[n]
  BY DEF Flattens
<1>4. CASE n = 1
  <2>1. f[n] = seqs[n] /\ end[n - 1] = 0 /\ end[n] = len[n] /\ len[n] \in Nat
    BY <1>2, <1>3, <1>4
  <2> QED BY <2>1 DEF Appends
<1>5. CASE n # 1
  <2>1. PICK g, t, a, b : g = f[n - 1] /\ t = seqs[n] /\ a = end[n - 1] /\ b = len[n]
    OBVIOUS
  <2>2. n - 1 \in 1..N
    BY <1>5
  <2>3. g \in Seq(A) /\ t \in Seq(A) /\ a = Len(g) /\ b = Len(t) /\ a \in Nat /\ b \in Nat
    BY <1>1, <1>2, <2>1, <2>2
  <2>4. f[n] = g \o t
    BY <1>3, <1>5, <2>1
  <2>5. Len(f[n]) = a + b /\ Joins(f[n], g, a, t, b)
    BY <2>3, <2>4, Joined
  <2> QED BY <2>1, <2>3, <2>5 DEF Appends, Joins
<1> QED BY <1>4, <1>5

\* All that the first n of them make up is there, and nothing else.
Prefix(seqs, len, end, f, n) ==
  /\ \A i \in 1..n : \A k \in 1..len[i] : end[i - 1] + k \in 1..end[n] /\ f[n][end[i - 1] + k] = seqs[i][k]
  /\ \A m \in 1..end[n] : \E i \in 1..n : \E k \in 1..len[i] : m = end[i - 1] + k

LEMMA FlattenPrefix ==
  ASSUME NEW N \in Nat, NEW seqs, NEW len, NEW end, NEW f, end[0] = 0,
         \A n \in 1..N : Appends(seqs, len, end, f, n)
  PROVE  \A n \in 1..N : Prefix(seqs, len, end, f, n)
<1> DEFINE C == {n \in Nat : n + 1 \in 1..N => Prefix(seqs, len, end, f, n + 1)}
<1>1. 0 \in C
  <2> SUFFICES ASSUME 1 \in 1..N PROVE Prefix(seqs, len, end, f, 1)
    OBVIOUS
  <2>1. 1 - 1 = 0 /\ end[1] = len[1] /\ end[0] = 0 /\ len[1] \in Nat
        /\ \A k \in 1..len[1] : f[1][k] = seqs[1][k]
    BY DEF Appends
  <2>2. \A i \in 1..1 : i = 1
    OBVIOUS
  <2> QED BY <2>1, <2>2 DEF Prefix
<1>2. ASSUME NEW n \in Nat, n \in C PROVE n + 1 \in C
  <2> SUFFICES ASSUME n + 2 \in 1..N PROVE Prefix(seqs, len, end, f, n + 2)
    OBVIOUS
  <2>1. PICK a, z : a = n + 1 /\ z = n + 2
    OBVIOUS
  <2>2. a \in 1..N /\ z \in 1..N /\ z - 1 = a /\ Prefix(seqs, len, end, f, a)
    BY <1>2, <2>1
  <2>3. (\A i \in 1..z : i = z \/ i \in 1..a) /\ (\A i \in 1..a : i \in 1..z) /\ z \in 1..z
    BY <2>1
  <2>4. /\ end[z] = end[a] + len[z] /\ end[a] \in Nat /\ len[z] \in Nat
        /\ \A k \in 1..len[z] : f[z][end[a] + k] = seqs[z][k]
        /\ \A m \in 1..end[a] : f[z][m] = f[a][m]
    BY <2>2 DEF Appends
  <2>5. ASSUME NEW i \in 1..z, NEW k \in 1..len[i]
        PROVE  end[i - 1] + k \in 1..end[z] /\ f[z][end[i - 1] + k] = seqs[i][k]
    <3>1. CASE i = z
      <4>1. k \in 1..len[z] /\ end[i - 1] = end[a]
        BY <3>1, <2>2
      <4> QED BY <2>4, <3>1, <4>1
    <3>2. CASE i \in 1..a
      <4>1. end[i - 1] + k \in 1..end[a] /\ f[a][end[i - 1] + k] = seqs[i][k]
        BY <2>2, <3>2 DEF Prefix
      <4> QED BY <4>1, <2>4
    <3> QED BY <3>1, <3>2, <2>3
  <2>6. ASSUME NEW m \in 1..end[z] PROVE \E i \in 1..z : \E k \in 1..len[i] : m = end[i - 1] + k
    <3>1. CASE m <= end[a]
      <4>1. m \in 1..end[a]
        BY <3>1, <2>4
      <4>2. \E i \in 1..a : \E k \in 1..len[i] : m = end[i - 1] + k
        BY <4>1, <2>2 DEF Prefix
      <4> QED BY <4>2, <2>3
    <3>2. CASE m > end[a]
      <4>1. m - end[a] \in 1..len[z] /\ m = end[z - 1] + (m - end[a])
        BY <3>2, <2>2, <2>4
      <4> QED BY <4>1, <2>3
    <3> QED BY <3>1, <3>2, <2>4
  <2>7. Prefix(seqs, len, end, f, z)
    BY <2>5, <2>6 DEF Prefix
  <2> QED BY <2>1, <2>7
<1> HIDE DEF C
<1>3. Nat \subseteq C
  BY <1>1, <1>2, Counting
<1> TAKE n \in 1..N
<1>4. n - 1 \in Nat /\ (n - 1) + 1 = n
  OBVIOUS
<1> QED BY <1>3, <1>4 DEF C

LEMMA FlattenIs ==
  ASSUME NEW A, NEW seqs \in Seq(Seq(A))
  PROVE  /\ FlattenSeq(seqs) \in Seq(A)
         /\ \E end : Ends(seqs, Len(seqs), FlattenSeq(seqs), end)
<1>1. Len(seqs) \in Nat /\ DOMAIN seqs = 1..Len(seqs) /\ \A i \in 1..Len(seqs) : seqs[i] \in Seq(A)
  BY LenProperties, ElementOfSeq
<1>2. PICK N \in Nat : N = Len(seqs)
  BY <1>1
<1>3. CASE N = 0
  <2>1. seqs = <<>> /\ FlattenSeq(seqs) = <<>>
    BY <1>2, <1>3, EmptySeq DEF FlattenSeq
  <2>2. Len(<<>>) = 0 /\ <<>> \in Seq(A)
    BY EmptySeq
  <2>3. PICK end : end = [i \in 0..0 |-> 0]
    OBVIOUS
  <2>4. Ends(seqs, 0, <<>>, end)
    BY <2>2, <2>3 DEF Ends
  <2> QED BY <2>1, <2>2, <2>4, <1>2, <1>3
<1>4. CASE N # 0
  <2> DEFINE f == CHOOSE g : Flattens(seqs, N, g)
  <2>1. FlattenSeq(seqs) = f[N]
    BY <1>2, <1>4 DEF FlattenSeq, Flattens
  <2>2. Flattens(seqs, N, f)
    BY FlattenExists
  <2> HIDE DEF f
  <2>3. \A n \in 1..N : f[n] \in Seq(A)
    BY <1>1, <1>2, <2>2, FlattenSteps
  <2>4. PICK end : end = [i \in 0..N |-> IF i = 0 THEN 0 ELSE Len(f[i])]
    OBVIOUS
  <2>5. PICK len : len = [i \in 1..N |-> Len(seqs[i])]
    OBVIOUS
  <2>6. end[0] = 0 /\ (\A n \in 1..N : end[n] = Len(f[n])) /\ (\A n \in 1..N : len[n] = Len(seqs[n]))
    BY <2>4, <2>5
  <2>7. \A n \in 1..N : Appends(seqs, len, end, f, n)
    BY <1>1, <1>2, <2>2, <2>6, FlattenAppends
  <2>8. \A n \in 1..N : Prefix(seqs, len, end, f, n)
    BY <2>6, <2>7, FlattenPrefix
  <2>9. end \in [0..N -> Nat]
    <3>1. \A n \in 1..N : Len(f[n]) \in Nat
      BY <2>3, LenProperties
    <3> QED BY <3>1, <2>4
  <2>10. \A i \in 1..N : end[i] = end[i - 1] + Len(seqs[i])
    BY <2>6, <2>7 DEF Appends
  <2>11. /\ \A i \in 1..N : \A k \in 1..Len(seqs[i]) : end[i - 1] + k \in 1..end[N] /\ f[N][end[i - 1] + k] = seqs[i][k]
         /\ \A m \in 1..end[N] : \E i \in 1..N : \E k \in 1..Len(seqs[i]) : m = end[i - 1] + k
    <3>1. N \in 1..N
      BY <1>4
    <3>2. Prefix(seqs, len, end, f, N)
      BY <3>1, <2>8
    <3> QED BY <3>2, <2>6 DEF Prefix
  <2>12. N \in 1..N
    BY <1>4
  <2>13. Ends(seqs, N, f[N], end)
    BY <2>6, <2>9, <2>10, <2>11, <2>12 DEF Ends
  <2> QED BY <1>2, <2>1, <2>3, <2>12, <2>13
<1> QED BY <1>3, <1>4

-----------------------------------------------------------------------------
(***************************************************************************)
(* Nodes and buffers.                                                      *)
(***************************************************************************)

\* A node is a level and a sequence of statements.
LEMMA NodeIs ==
  ASSUME NEW n \in NodeSet
  PROVE  /\ n.level \in Nat \cup {NoLevel}
         /\ n.body \in Seq(Statement) /\ Len(n.body) \in Nat /\ DOMAIN n.body = 1..Len(n.body)
         /\ \A k \in DOMAIN n.body : n.body[k] \in Statement
<1>1. n.body \in Seq(Statement) /\ n.level \in Nat \cup {NoLevel}
  BY DEF NodeSet
<1>2. Len(n.body) \in Nat /\ DOMAIN n.body = 1..Len(n.body) /\ n.body \in [1..Len(n.body) -> Statement]
  BY <1>1, LenProperties
<1> QED BY <1>1, <1>2

\* What a statement uses.
LEMMA ReadsIs ==
  ASSUME NEW s \in Statement
  PROVE  /\ s.to \in Buffer /\ Reads(s) \in SUBSET Buffer /\ IsFiniteSet(Reads(s))
         /\ s.reads \in Seq(Buffer) /\ DOMAIN s.reads = 1..Len(s.reads) /\ Len(s.reads) \in Nat
         /\ \A r \in DOMAIN s.reads : s.reads[r] \in Buffer
<1>1. s.to \in Buffer /\ s.reads \in Seq(Buffer)
  BY DEF Statement, Buffer
<1>2. Len(s.reads) \in Nat /\ DOMAIN s.reads = 1..Len(s.reads) /\ s.reads \in [1..Len(s.reads) -> Buffer]
  BY <1>1, LenProperties
<1>3. \A r \in DOMAIN s.reads : s.reads[r] \in Buffer
  BY <1>2
<1>4. ToSet(s.reads) \in SUBSET Buffer
  BY <1>3 DEF ToSet
<1>5. IsFiniteSet(ToSet(s.reads))
  <2>1. IsFiniteSet(1..Len(s.reads))
    BY <1>2, FS_Interval
  <2>2. s.reads \in Surjection(1..Len(s.reads), ToSet(s.reads))
    BY <1>2 DEF Surjection, ToSet
  <2> QED BY <2>1, <2>2, FS_Surjection
<1>6. IsFiniteSet({s.to}) /\ IsFiniteSet({})
  BY FS_Singleton, FS_EmptySet
<1>7. IsFiniteSet(Reads(s))
  BY <1>5, <1>6, FS_Union DEF Reads
<1> QED BY <1>1, <1>2, <1>3, <1>4, <1>7 DEF Reads

Used(n) == UNION {Reads(n.body[k]) : k \in DOMAIN n.body}

LEMMA Operands ==
  ASSUME NEW n \in NodeSet
  PROVE  /\ Outs(n) \in SUBSET Buffer /\ IsFiniteSet(Outs(n))
         /\ Ins(n) \in SUBSET Buffer /\ IsFiniteSet(Ins(n))
         /\ Outs(n) \cap Ins(n) = {} /\ Ins(n) = Used(n) \ Outs(n)
<1>1. \A k \in DOMAIN n.body : n.body[k] \in Statement
  BY NodeIs
<1>2. IsFiniteSet(DOMAIN n.body)
  BY NodeIs, FS_Interval
<1>3. Outs(n) \in SUBSET Buffer
  BY <1>1, ReadsIs DEF Outs
<1>4. IsFiniteSet(Outs(n))
  <2> DEFINE f == [k \in DOMAIN n.body |-> n.body[k].to]
  <2>1. f \in Surjection(DOMAIN n.body, Outs(n))
    BY DEF Surjection, Outs
  <2> QED BY <1>2, <2>1, FS_Surjection
<1> DEFINE used == {Reads(n.body[k]) : k \in DOMAIN n.body}
<1>5. IsFiniteSet(used)
  <2> DEFINE f == [k \in DOMAIN n.body |-> Reads(n.body[k])]
  <2>1. f \in Surjection(DOMAIN n.body, used)
    BY DEF Surjection
  <2> QED BY <1>2, <2>1, FS_Surjection
<1>6. \A R \in used : R \in SUBSET Buffer /\ IsFiniteSet(R)
  BY <1>1, ReadsIs
<1>7. IsFiniteSet(UNION used) /\ UNION used \in SUBSET Buffer
  BY <1>5, <1>6, FS_UNION
<1>8. IsFiniteSet(Used(n)) /\ Used(n) \in SUBSET Buffer
  BY <1>7 DEF Used
<1>9. Ins(n) = Used(n) \ Outs(n)
  BY DEF Ins, Used
<1>10. Ins(n) \in SUBSET Used(n) /\ IsFiniteSet(Ins(n))
  BY <1>8, <1>9, FS_Subset
<1> HIDE DEF used
<1> QED BY <1>3, <1>4, <1>8, <1>9, <1>10

\* A schedule is a sequence of nodes over finitely many buffers.
LEMMA ScheduleIs ==
  ASSUME NEW ns \in NodeSeq
  PROVE  /\ Len(ns) \in Nat /\ DOMAIN ns = 1..Len(ns) /\ IsFiniteSet(DOMAIN ns)
         /\ \A i \in DOMAIN ns : ns[i] \in NodeSet
         /\ Buffers(ns) \in SUBSET Buffer /\ IsFiniteSet(Buffers(ns))
<1>1. Len(ns) \in Nat /\ DOMAIN ns = 1..Len(ns) /\ ns \in [1..Len(ns) -> NodeSet]
  BY LenProperties DEF NodeSeq
<1>2. \A i \in DOMAIN ns : ns[i] \in NodeSet
  BY <1>1
<1>3. IsFiniteSet(DOMAIN ns)
  BY <1>1, FS_Interval
<1> DEFINE used == {Ins(ns[i]) \cup Outs(ns[i]) : i \in DOMAIN ns}
<1>4. IsFiniteSet(used)
  <2> DEFINE f == [i \in DOMAIN ns |-> Ins(ns[i]) \cup Outs(ns[i])]
  <2>1. f \in Surjection(DOMAIN ns, used)
    BY DEF Surjection
  <2> QED BY <1>3, <2>1, FS_Surjection
<1>5. \A R \in used : R \in SUBSET Buffer /\ IsFiniteSet(R)
  <2> SUFFICES ASSUME NEW i \in DOMAIN ns
               PROVE  Ins(ns[i]) \cup Outs(ns[i]) \in SUBSET Buffer /\ IsFiniteSet(Ins(ns[i]) \cup Outs(ns[i]))
    OBVIOUS
  <2>1. /\ Ins(ns[i]) \in SUBSET Buffer /\ Outs(ns[i]) \in SUBSET Buffer
        /\ IsFiniteSet(Ins(ns[i])) /\ IsFiniteSet(Outs(ns[i]))
    BY <1>2, Operands
  <2> QED BY <2>1, FS_Union
<1>6. IsFiniteSet(UNION used) /\ UNION used \in SUBSET Buffer
  BY <1>4, <1>5, FS_UNION
<1> QED BY <1>1, <1>2, <1>3, <1>6 DEF Buffers

LEMMA Positions ==
  ASSUME NEW ns \in NodeSeq, NEW b
  PROVE  /\ Producers(ns, b) \in SUBSET Nat /\ IsFiniteSet(Producers(ns, b))
         /\ Consumers(ns, b) \in SUBSET Nat /\ IsFiniteSet(Consumers(ns, b))
         /\ Producers(ns, b) \subseteq DOMAIN ns /\ Consumers(ns, b) \subseteq DOMAIN ns
         /\ Producers(ns, b) \cap Consumers(ns, b) = {}
<1>1. DOMAIN ns \in SUBSET Nat /\ IsFiniteSet(DOMAIN ns)
  BY ScheduleIs
<1>2. Producers(ns, b) \in SUBSET DOMAIN ns /\ Consumers(ns, b) \in SUBSET DOMAIN ns
  BY DEF Producers, Consumers
<1>3. Producers(ns, b) \cap Consumers(ns, b) = {}
  BY ScheduleIs, Operands DEF Producers, Consumers
<1> QED BY <1>1, <1>2, <1>3, FS_Subset

\* A new buffer is unlike any that is in use.
LEMMA Fresh ==
  ASSUME NEW ns \in NodeSeq, NEW b \in Buffer, NEW k \in Nat, k # 0
  PROVE  /\ New(ns, b, k) \in Buffer \ Buffers(ns)
         /\ New(ns, b, k)[1] = b[1] /\ New(ns, b, k)[2] # 0
         /\ \A l \in Nat : New(ns, b, k) = New(ns, b, l) => k = l
<1> DEFINE N == {0} \cup {c[2] : c \in Buffers(ns)}
<1>1. Buffers(ns) \in SUBSET Buffer /\ IsFiniteSet(Buffers(ns))
  BY ScheduleIs
<1>2. N \in SUBSET Nat
  BY <1>1 DEF Buffer
<1>3. IsFiniteSet(N)
  <2> DEFINE f == [c \in Buffers(ns) |-> c[2]]  M == {c[2] : c \in Buffers(ns)}
  <2>1. f \in Surjection(Buffers(ns), M)
    BY DEF Surjection
  <2>2. IsFiniteSet(M) /\ IsFiniteSet({0})
    BY <1>1, <2>1, FS_Surjection, FS_Singleton
  <2> QED BY <2>2, FS_Union
<1>4. 0 \in N /\ \A c \in Buffers(ns) : c[2] \in N
  OBVIOUS
<1> DEFINE h == Max(N)
<1>5. New(ns, b, k) = <<b[1], h + k>> /\ \A l \in Nat : New(ns, b, l) = <<b[1], h + l>>
  BY <1>2 DEF New, Highest
<1> HIDE DEF N
<1>6. h \in Nat /\ \A x \in N : x <= h
  BY <1>2, <1>3, <1>4, MaxIs
<1> HIDE DEF h
<1>7. New(ns, b, k) \in Buffer
  BY <1>5, <1>6 DEF Buffer
<1>8. \A c \in Buffers(ns) : New(ns, b, k) # c
  <2> TAKE c \in Buffers(ns)
  <2>1. c[2] \in Nat /\ c[2] <= h
    BY <1>1, <1>4, <1>6 DEF Buffer
  <2> QED BY <1>5, <1>6, <2>1
<1> QED BY <1>5, <1>6, <1>7, <1>8

\* A buffer takes the place of another one; the node does the same as before.
Instead(x, b, c) == IF x = b THEN c ELSE x

LEMMA RenameIs ==
  ASSUME NEW n \in NodeSet, NEW b \in Buffer, NEW c \in Buffer
  PROVE  /\ Rename(n, b, c) \in NodeSet /\ Rename(n, b, c).level = n.level
         /\ Outs(Rename(n, b, c)) = {Instead(x, b, c) : x \in Outs(n)}
         /\ c = b \/ c \notin Ins(n) \cup Outs(n) => Ins(Rename(n, b, c)) = {Instead(x, b, c) : x \in Ins(n)}
<1> DEFINE m == Rename(n, b, c)
           T(s) == [s EXCEPT !.to = Instead(s.to, b, c), !.reads = [r \in DOMAIN s.reads |-> Instead(s.reads[r], b, c)]]
<1>a. n.body \in Seq(Statement) /\ Len(n.body) \in Nat /\ DOMAIN n.body = 1..Len(n.body)
      /\ \A k \in DOMAIN n.body : n.body[k] \in Statement
  BY NodeIs
<1>1. m = [n EXCEPT !.body = [k \in DOMAIN n.body |-> T(n.body[k])]]
  BY DEF Rename, Instead
<1>2. ASSUME NEW s \in Statement
      PROVE  /\ T(s) \in Statement /\ T(s).to = Instead(s.to, b, c) /\ T(s).how = s.how
             /\ T(s).reads = [r \in DOMAIN s.reads |-> Instead(s.reads[r], b, c)]
             /\ Reads(T(s)) = {Instead(x, b, c) : x \in Reads(s)}
  <2>1. s.to \in Buffer /\ DOMAIN s.reads = 1..Len(s.reads) /\ Len(s.reads) \in Nat
        /\ \A r \in DOMAIN s.reads : s.reads[r] \in Buffer
    BY ReadsIs
  <2> DEFINE rs == [r \in DOMAIN s.reads |-> Instead(s.reads[r], b, c)]
  <2>2. rs \in [1..Len(s.reads) -> Buffer] /\ Instead(s.to, b, c) \in Buffer
    BY <2>1 DEF Instead
  <2>3. rs \in Seq(Buffer)
    BY <2>1, <2>2
  <2>4. T(s).to = Instead(s.to, b, c) /\ T(s).reads = rs /\ T(s).how = s.how /\ T(s) \in Statement
    BY <2>2, <2>3 DEF Statement, Buffer
  <2>5. Reads(T(s)) = {Instead(x, b, c) : x \in Reads(s)}
    <3>1. ToSet(rs) = {Instead(x, b, c) : x \in ToSet(s.reads)}
      BY <2>1 DEF ToSet
    <3> HIDE DEF T, rs
    <3> QED BY <3>1, <2>4 DEF Reads
  <2> QED BY <2>4, <2>5
<1> HIDE DEF T
<1>3. DOMAIN m.body = DOMAIN n.body /\ m.level = n.level /\ \A k \in DOMAIN n.body : m.body[k] = T(n.body[k])
  BY <1>1 DEF NodeSet
<1>4. m \in NodeSet
  <2>1. [k \in DOMAIN n.body |-> T(n.body[k])] \in [1..Len(n.body) -> Statement]
    BY <1>2, <1>a
  <2>2. [k \in DOMAIN n.body |-> T(n.body[k])] \in Seq(Statement)
    BY <1>a, <2>1
  <2> QED BY <1>1, <2>2 DEF NodeSet
<1> HIDE DEF m
<1>5. Outs(m) = {Instead(x, b, c) : x \in Outs(n)}
  <2>1. \A k \in DOMAIN n.body : m.body[k].to = Instead(n.body[k].to, b, c)
    BY <1>2, <1>3, <1>a
  <2> QED BY <1>3, <2>1 DEF Outs
<1>6. ASSUME c = b \/ c \notin Ins(n) \cup Outs(n) PROVE Ins(m) = {Instead(x, b, c) : x \in Ins(n)}
  <2>1. \A k \in DOMAIN n.body : Reads(m.body[k]) = {Instead(x, b, c) : x \in Reads(n.body[k])}
    BY <1>2, <1>3, <1>a
  <2>2. Used(m) = {Instead(x, b, c) : x \in Used(n)}
    <3>1. ASSUME NEW y \in Used(m) PROVE \E x \in Used(n) : y = Instead(x, b, c)
      BY <2>1, <1>3 DEF Used
    <3>2. ASSUME NEW x \in Used(n) PROVE Instead(x, b, c) \in Used(m)
      BY <2>1, <1>3 DEF Used
    <3> QED BY <3>1, <3>2
  <2>3. Ins(m) = Used(m) \ Outs(m) /\ Ins(n) = Used(n) \ Outs(n)
    BY <1>4, Operands
  <2>4. c = b \/ (c \notin Used(n) /\ c \notin Outs(n))
    BY <1>6, <2>3
  <2>5. \A x \in Used(n) : Instead(x, b, c) \in Outs(m) <=> x \in Outs(n)
    BY <1>5, <2>4 DEF Instead
  <2> QED BY <2>2, <2>3, <2>5
<1> QED BY <1>3, <1>4, <1>5, <1>6 DEF m

-----------------------------------------------------------------------------
(***************************************************************************)
(* The nodes run in order.                                                 *)
(***************************************************************************)

\* The statements W one after the other: F[m] is the memory after m of them.
Folds(W, base, F) == F[0] = base /\ \A m \in 1..Len(W) : F[m] = Effect(F[m - 1], W[m])

LEMMA FoldIs ==
  ASSUME NEW W \in Seq(Statement), NEW base
  PROVE  \E F : Folds(W, base, F) /\ F[Len(W)] = FoldLeft(Effect, base, W)
<1>0. PICK A : A = DOMAIN W
  OBVIOUS
<1> DEFINE On(D, iter) == iter = [T \in D |-> IF T = {} THEN base ELSE Effect(iter[T \ {Max(T)}], W[Max(T)])]
           S == {n \in Nat : \E iter : On(Sized(A, n), iter)}
<1>1. A = 1..Len(W) /\ Len(W) \in Nat /\ A \in SUBSET Nat /\ IsFiniteSet(A)
  <2>1. DOMAIN W = 1..Len(W) /\ Len(W) \in Nat
    BY LenProperties
  <2>2. IsFiniteSet(1..Len(W))
    BY <2>1, FS_Interval
  <2> QED BY <1>0, <2>1, <2>2
<1>2. ASSUME NEW T \in SUBSET A, T # {} PROVE Max(T) \in T /\ \A x \in T : x <= Max(T)
  BY <1>1, <1>2, MaxIs, FS_Subset
<1>3. 0 \in S
  <2>1. On({{}}, [T \in {{}} |-> base])
    OBVIOUS
  <2>2. Sized(A, 0) = {{}}
    BY <1>1, SizedAll
  <2>3. \E iter : On(Sized(A, 0), iter)
    BY <2>1, <2>2
  <2> HIDE DEF On
  <2> QED BY <2>3
<1>4. ASSUME NEW n \in Nat, n \in S PROVE n + 1 \in S
  <2>1. PICK g : On(Sized(A, n), g)
    BY <1>4
  <2> DEFINE f == [T \in Sized(A, n + 1) |-> IF T = {} THEN base ELSE Effect(g[T \ {Max(T)}], W[Max(T)])]
  <2>2. ASSUME NEW T \in Sized(A, n) PROVE T \in Sized(A, n + 1) /\ f[T] = g[T]
    <3>1. T \in Sized(A, n + 1)
      BY <1>1, SizedAll
    <3>2. g[T] = IF T = {} THEN base ELSE Effect(g[T \ {Max(T)}], W[Max(T)])
      BY <2>1
    <3>3. f[T] = IF T = {} THEN base ELSE Effect(g[T \ {Max(T)}], W[Max(T)])
      BY <3>1
    <3> QED BY <3>1, <3>2, <3>3
  <2>3. ASSUME NEW T \in Sized(A, n + 1), T # {} PROVE f[T \ {Max(T)}] = g[T \ {Max(T)}]
    <3>1. T \in SUBSET A
      BY <1>1, SizedAll
    <3>2. Max(T) \in T
      BY <1>2, <2>3, <3>1
    <3>3. T \ {Max(T)} \in Sized(A, n)
      BY <1>1, <3>2, Smaller
    <3> QED BY <2>2, <3>3
  <2>4. On(Sized(A, n + 1), f)
    BY <2>3
  <2> HIDE DEF f, On
  <2>5. \E iter : On(Sized(A, n + 1), iter)
    BY <2>4
  <2> QED BY <2>5
<1> HIDE DEF S
<1>5. Nat \subseteq S
  BY <1>3, <1>4, Counting
<1>6. Cardinality(A) \in S /\ Sized(A, Cardinality(A)) = SUBSET A
  BY <1>1, <1>5, SizedAll
<1>7. \E iter : On(SUBSET A, iter)
  <2> HIDE DEF On
  <2> QED BY <1>6 DEF S
<1>8. FoldLeft(Effect, base, W) = (CHOOSE iter : On(SUBSET A, iter))[A]
  BY <1>0 DEF FoldLeft, MapThenFoldSet
<1>9. PICK f : f = CHOOSE iter : On(SUBSET A, iter)
  OBVIOUS
<1>10. On(SUBSET A, f) /\ FoldLeft(Effect, base, W) = f[A]
  BY <1>7, <1>8, <1>9
<1>11. PICK F : F = [m \in 0..Len(W) |-> f[1..m]]
  OBVIOUS
<1>12. \A m \in 0..Len(W) : 1..m \in SUBSET A /\ F[m] = f[1..m]
  BY <1>1, <1>11
<1>13. F[0] = base
  <2>1. 1..0 = {}
    OBVIOUS
  <2>2. 0 \in 0..Len(W) /\ {} \in SUBSET A
    BY <1>1
  <2>3. f[{}] = base
    BY <1>10, <2>2
  <2> QED BY <1>11, <2>1, <2>2, <2>3
<1>14. ASSUME NEW m \in 1..Len(W) PROVE F[m] = Effect(F[m - 1], W[m])
  <2>1. PICK T : T = 1..m
    OBVIOUS
  <2>2. T \in SUBSET A /\ T # {} /\ m \in T
    BY <1>1, <1>12, <2>1
  <2>3. Max(T) = m
    BY <1>1, <1>2, <2>1, <2>2
  <2>4. T \ {m} = 1..(m - 1)
    BY <1>1, <2>1
  <2>5. f[T] = Effect(f[T \ {Max(T)}], W[Max(T)])
    BY <1>10, <2>2
  <2>6. f[T] = Effect(f[1..(m - 1)], W[m])
    BY <2>3, <2>4, <2>5
  <2> QED BY <1>1, <1>12, <2>1, <2>6
<1>15. F[Len(W)] = f[A]
  BY <1>1, <1>12
<1> QED BY <1>10, <1>13, <1>14, <1>15 DEF Folds

\* What a statement writes depends on what it reads and on what it writes over.
Used1(s) == ToSet(s.reads) \cup {s.to}

LEMMA EffectIs ==
  ASSUME NEW s \in Statement, NEW m, s.to \in DOMAIN m
  PROVE  /\ DOMAIN Effect(m, s) = DOMAIN m
         /\ \A x \in DOMAIN m : x # s.to => Effect(m, s)[x] = m[x]
         /\ \A q : DOMAIN q = DOMAIN m /\ (\A x \in Used1(s) : q[x] = m[x]) =>
              Effect(q, s)[s.to] = Effect(m, s)[s.to]
<1>1. DOMAIN Effect(m, s) = DOMAIN m /\ \A x \in DOMAIN m : x # s.to => Effect(m, s)[x] = m[x]
  BY DEF Effect
<1>2. ASSUME NEW q, DOMAIN q = DOMAIN m, \A x \in Used1(s) : q[x] = m[x]
      PROVE  Effect(q, s)[s.to] = Effect(m, s)[s.to]
  <2>1. \A k \in DOMAIN s.reads : s.reads[k] \in Used1(s)
    BY DEF Used1, ToSet
  <2>2. q[s.to] = m[s.to]
    BY <1>2 DEF Used1
  <2>3. [k \in DOMAIN s.reads |-> q[s.reads[k]]] = [k \in DOMAIN s.reads |-> m[s.reads[k]]]
    BY <1>2, <2>1
  <2>4. PICK a : a = [k \in DOMAIN s.reads |-> m[s.reads[k]]]
    OBVIOUS
  <2>5. PICK v : v = IF s.op = "copy" THEN a[1]
                     ELSE [op |-> s.op, of |-> IF s.how = "fill" THEN a ELSE Append(a, m[s.to])]
    OBVIOUS
  <2>6. Effect(m, s) = [m EXCEPT ![s.to] = v]
    BY <2>4, <2>5 DEF Effect
  <2>7. a = [k \in DOMAIN s.reads |-> q[s.reads[k]]]
    BY <2>3, <2>4
  <2>8. v = IF s.op = "copy" THEN a[1]
            ELSE [op |-> s.op, of |-> IF s.how = "fill" THEN a ELSE Append(a, q[s.to])]
    BY <2>2, <2>5
  <2>9. Effect(q, s) = [q EXCEPT ![s.to] = v]
    BY <2>7, <2>8 DEF Effect
  <2> QED BY <1>2, <2>6, <2>9
<1> QED BY <1>1, <1>2

Whole(ns) == FlattenSeq([i \in DOMAIN ns |-> ns[i].body])
InOrder(ns) == FoldLeft(Effect, Start(ns), Whole(ns))

\* F[end[i - 1] + k] is the memory after k statements of node i, when the nodes run
\* one after the other.
Sequential(ns, end, F) ==
  /\ end \in [0..Len(ns) -> Nat] /\ end[0] = 0
  /\ \A i \in DOMAIN ns : end[i] = end[i - 1] + Len(ns[i].body)
  /\ F[0] = Start(ns) /\ F[end[Len(ns)]] = InOrder(ns)
  /\ \A i \in DOMAIN ns : \A k \in 1..Len(ns[i].body) : \A m \in Nat :
       m = end[i - 1] + k => F[m] = Effect(F[m - 1], ns[i].body[k])
  /\ \A m \in 1..end[Len(ns)] : \E i \in DOMAIN ns : \E k \in 1..Len(ns[i].body) : m = end[i - 1] + k

LEMMA SequentialIs ==
  ASSUME NEW ns \in NodeSeq
  PROVE  \E end, F : Sequential(ns, end, F)
<1>1. PICK N, bodies : N = Len(ns) /\ bodies = [i \in DOMAIN ns |-> ns[i].body]
  OBVIOUS
<1>2. N \in Nat /\ DOMAIN ns = 1..N
  BY <1>1, ScheduleIs
<1>3. \A i \in 1..N : bodies[i] = ns[i].body /\ ns[i].body \in Seq(Statement)
        /\ Len(ns[i].body) \in Nat /\ DOMAIN ns[i].body = 1..Len(ns[i].body)
  BY <1>1, <1>2, ScheduleIs, NodeIs
<1>4. bodies \in Seq(Seq(Statement)) /\ Len(bodies) = N
  BY <1>1, <1>2, <1>3
<1>5. PICK W : W = FlattenSeq(bodies)
  OBVIOUS
<1>6. W \in Seq(Statement) /\ \E end : Ends(bodies, N, W, end)
  BY <1>4, <1>5, FlattenIs
<1>7. PICK end : Ends(bodies, N, W, end)
  BY <1>6
<1>8. PICK F : Folds(W, Start(ns), F) /\ F[Len(W)] = FoldLeft(Effect, Start(ns), W)
  BY <1>6, FoldIs
<1>9. InOrder(ns) = FoldLeft(Effect, Start(ns), W)
  BY <1>1, <1>5 DEF InOrder, Whole
<1>10. end \in [0..N -> Nat] /\ end[0] = 0 /\ Len(W) = end[N]
  BY <1>7 DEF Ends
<1>11. \A i \in DOMAIN ns : end[i] = end[i - 1] + Len(ns[i].body)
  BY <1>2, <1>3, <1>7 DEF Ends
<1>12. ASSUME NEW i \in DOMAIN ns, NEW k \in 1..Len(ns[i].body), NEW m \in Nat, m = end[i - 1] + k
       PROVE  F[m] = Effect(F[m - 1], ns[i].body[k])
  <2>2. i \in 1..N /\ k \in 1..Len(bodies[i]) /\ bodies[i] = ns[i].body
    BY <1>2, <1>3
  <2>3. \A j \in 1..N : \A l \in 1..Len(bodies[j]) : end[j - 1] + l \in 1..end[N] /\ W[end[j - 1] + l] = bodies[j][l]
    BY <1>7 DEF Ends
  <2>4. m \in 1..Len(W) /\ W[m] = ns[i].body[k]
    BY <1>10, <1>12, <2>2, <2>3
  <2>5. F[m] = Effect(F[m - 1], W[m])
    BY <1>8, <2>4 DEF Folds
  <2>6. F[m] = Effect(F[m - 1], ns[i].body[k])
    BY <2>4, <2>5
  <2> QED BY <2>6
<1>13. ASSUME NEW m \in 1..end[Len(ns)] PROVE \E i \in DOMAIN ns : \E k \in 1..Len(ns[i].body) : m = end[i - 1] + k
  <2>1. m \in 1..end[N]
    BY <1>1
  <2>2. \E i \in 1..N : \E k \in 1..Len(bodies[i]) : m = end[i - 1] + k
    BY <1>7, <2>1 DEF Ends
  <2>3. PICK i \in 1..N : \E k \in 1..Len(bodies[i]) : m = end[i - 1] + k
    BY <2>2
  <2> QED BY <1>2, <1>3, <2>3
<1>14. F[0] = Start(ns)
  BY <1>8 DEF Folds
<1>15. F[end[Len(ns)]] = InOrder(ns) /\ end \in [0..Len(ns) -> Nat]
  BY <1>1, <1>8, <1>9, <1>10
<1>16. Sequential(ns, end, F)
  BY <1>10, <1>11, <1>12, <1>13, <1>14, <1>15 DEF Sequential
<1> QED BY <1>16

\* A node ends where the next one starts or later.
LEMMA EndsIncrease ==
  ASSUME NEW ns \in NodeSeq, NEW end, NEW F, Sequential(ns, end, F)
  PROVE  \A i, j \in 0..Len(ns) : i <= j => end[i] <= end[j]
<1> DEFINE N == Len(ns)
           S == {n \in Nat : \A i, j \in 0..N : j = i + n => end[i] <= end[j]}
<1>1. N \in Nat /\ DOMAIN ns = 1..N /\ end \in [0..N -> Nat]
  BY ScheduleIs DEF Sequential
<1>2. ASSUME NEW j \in 1..N PROVE end[j - 1] \in Nat /\ end[j] \in Nat /\ end[j - 1] <= end[j]
  <2>1. j - 1 \in 0..N /\ j \in 0..N /\ j \in DOMAIN ns
    BY <1>1
  <2>2. end[j] = end[j - 1] + Len(ns[j].body)
    BY <2>1 DEF Sequential
  <2>3. ns[j] \in NodeSet
    BY <2>1, ScheduleIs
  <2>4. Len(ns[j].body) \in Nat
    BY <2>3, NodeIs
  <2> QED BY <1>1, <2>1, <2>2, <2>4
<1> HIDE DEF N
<1>3. 0 \in S
  BY <1>1
<1>4. ASSUME NEW n \in Nat, n \in S PROVE n + 1 \in S
  <2>1. ASSUME NEW i \in 0..N, NEW j \in 0..N, j = i + (n + 1) PROVE end[i] <= end[j]
    <3>1. j - 1 \in 0..N /\ j - 1 = i + n /\ j \in 1..N
      BY <1>1, <2>1
    <3>2. end[i] <= end[j - 1]
      BY <1>4, <3>1
    <3> QED BY <1>1, <1>2, <3>1, <3>2
  <2> QED BY <2>1
<1> HIDE DEF S
<1>5. Nat \subseteq S
  BY <1>3, <1>4, Counting
<1>6. ASSUME NEW i \in 0..N, NEW j \in 0..N, i <= j PROVE end[i] <= end[j]
  <2>1. j - i \in Nat /\ j = i + (j - i)
    BY <1>1, <1>6
  <2>2. j - i \in S
    BY <1>5, <2>1
  <2> QED BY <2>1, <2>2 DEF S
<1> QED BY <1>6 DEF N

\* The statement k of node i uses operands of the node.
LEMMA StatementIs ==
  ASSUME NEW ns \in NodeSeq, NEW i \in DOMAIN ns, NEW k \in 1..Len(ns[i].body), NEW s, s = ns[i].body[k]
  PROVE  /\ s \in Statement /\ s.to \in Outs(ns[i]) /\ s.to \in Buffers(ns)
         /\ Used1(s) \subseteq Outs(ns[i]) \cup Ins(ns[i])
<1>1. ns[i] \in NodeSet
  BY ScheduleIs
<1>2. k \in DOMAIN ns[i].body /\ s \in Statement
  BY <1>1, NodeIs
<1>3. s.to \in Outs(ns[i])
  BY <1>2 DEF Outs
<1>4. s.to \in Buffers(ns)
  BY <1>3 DEF Buffers
<1>5. ToSet(s.reads) \subseteq Reads(s)
  BY DEF Reads
<1>6. Reads(s) \subseteq Used(ns[i])
  BY <1>2 DEF Used
<1>7. Used(ns[i]) \subseteq Outs(ns[i]) \cup Ins(ns[i])
  BY <1>1, Operands
<1> QED BY <1>2, <1>3, <1>4, <1>5, <1>6, <1>7 DEF Used1

\* Step m of running in order is a statement of a node.
Step(ns, end, F, m, i, k) ==
  /\ m = end[i - 1] + k /\ end[i - 1] <= m - 1 /\ m <= end[i]
  /\ F[m] = Effect(F[m - 1], ns[i].body[k])

LEMMA StepIs ==
  ASSUME NEW ns \in NodeSeq, NEW end, NEW F, Sequential(ns, end, F), NEW m \in 1..end[Len(ns)]
  PROVE  \E i \in DOMAIN ns : \E k \in 1..Len(ns[i].body) : Step(ns, end, F, m, i, k)
<1>1. PICK i \in DOMAIN ns : \E k \in 1..Len(ns[i].body) : m = end[i - 1] + k
  BY DEF Sequential
<1>2. PICK k \in 1..Len(ns[i].body) : m = end[i - 1] + k
  BY <1>1
<1>3. Len(ns) \in Nat /\ i \in 1..Len(ns) /\ i - 1 \in 0..Len(ns) /\ end \in [0..Len(ns) -> Nat]
  BY ScheduleIs DEF Sequential
<1>4. end[i - 1] \in Nat /\ end[Len(ns)] \in Nat /\ end[i] \in Nat
  BY <1>3
<1>5. m \in Nat
  BY <1>4
<1>6. F[m] = Effect(F[m - 1], ns[i].body[k])
  BY <1>2, <1>5 DEF Sequential
<1>7. Len(ns[i].body) \in Nat
  BY ScheduleIs, NodeIs
<1>8. end[i] = end[i - 1] + Len(ns[i].body)
  BY DEF Sequential
<1>9. Step(ns, end, F, m, i, k)
  BY <1>2, <1>4, <1>5, <1>6, <1>7, <1>8 DEF Step
<1> QED BY <1>9

\* Nothing is added to the memory.
LEMMA MemoryIs ==
  ASSUME NEW ns \in NodeSeq, NEW end, NEW F, Sequential(ns, end, F)
  PROVE  \A m \in 0..end[Len(ns)] : DOMAIN F[m] = Buffers(ns)
<1> DEFINE M == end[Len(ns)]
           S == {m \in Nat : m <= M => DOMAIN F[m] = Buffers(ns)}
<1>1. M \in Nat
  BY ScheduleIs DEF Sequential
<1>2. 0 \in S
  BY DEF Sequential, Start
<1>3. ASSUME NEW n \in Nat, n \in S PROVE n + 1 \in S
  <2> SUFFICES ASSUME n + 1 <= M PROVE DOMAIN F[n + 1] = Buffers(ns)
    OBVIOUS
  <2>1. DOMAIN F[n] = Buffers(ns) /\ n + 1 \in 1..end[Len(ns)]
    BY <1>1, <1>3
  <2>2. PICK m : m = n + 1
    OBVIOUS
  <2>3. PICK i \in DOMAIN ns : \E k \in 1..Len(ns[i].body) : Step(ns, end, F, m, i, k)
    BY <2>1, <2>2, StepIs
  <2>4. PICK k \in 1..Len(ns[i].body) : Step(ns, end, F, m, i, k)
    BY <2>3
  <2>5. PICK s : s = ns[i].body[k]
    OBVIOUS
  <2>6. F[m] = Effect(F[m - 1], s)
    BY <2>4, <2>5 DEF Step
  <2>7. m - 1 = n
    BY <2>2
  <2>8. F[m] = Effect(F[n], s)
    BY <2>6, <2>7
  <2>9. s \in Statement /\ s.to \in Buffers(ns)
    BY <2>5, StatementIs
  <2>10. DOMAIN F[m] = DOMAIN F[n]
    BY <2>1, <2>8, <2>9, EffectIs
  <2> QED BY <2>1, <2>2, <2>10
<1> HIDE DEF S
<1>4. Nat \subseteq S
  BY <1>2, <1>3, Counting
<1> QED BY <1>1, <1>4 DEF S

\* A buffer keeps its contents while the nodes that write it do not run.
LEMMA Frame ==
  ASSUME NEW ns \in NodeSeq, NEW end, NEW F, Sequential(ns, end, F), NEW b \in Buffers(ns),
         NEW hi \in 0..end[Len(ns)], NEW lo \in 0..hi,
         \A i \in Producers(ns, b) : end[i] <= lo \/ hi <= end[i - 1]
  PROVE  F[hi][b] = F[lo][b]
<1> DEFINE S == {n \in Nat : lo + n <= hi => F[lo + n][b] = F[lo][b]}
<1>1. end[Len(ns)] \in Nat /\ hi \in Nat /\ lo \in Nat /\ end \in [0..Len(ns) -> Nat]
  BY ScheduleIs DEF Sequential
<1>2. 0 \in S
  BY <1>1
<1>3. ASSUME NEW n \in Nat, n \in S PROVE n + 1 \in S
  <2> SUFFICES ASSUME lo + (n + 1) <= hi PROVE F[lo + (n + 1)][b] = F[lo][b]
    OBVIOUS
  <2>1. PICK m : m = lo + (n + 1)
    OBVIOUS
  <2>2. m \in 1..end[Len(ns)] /\ m - 1 \in 0..end[Len(ns)] /\ m - 1 = lo + n /\ m <= hi /\ lo <= m - 1
    BY <1>1, <2>1
  <2>3. F[m - 1][b] = F[lo][b]
    BY <1>1, <1>3, <2>2
  <2>4. PICK i \in DOMAIN ns : \E k \in 1..Len(ns[i].body) : Step(ns, end, F, m, i, k)
    BY <2>2, StepIs
  <2>5. PICK k \in 1..Len(ns[i].body) : Step(ns, end, F, m, i, k)
    BY <2>4
  <2>6. PICK s : s = ns[i].body[k]
    OBVIOUS
  <2>7. F[m] = Effect(F[m - 1], s) /\ end[i - 1] <= m - 1 /\ m <= end[i]
    BY <2>5, <2>6 DEF Step
  <2>8. s \in Statement /\ s.to \in Buffers(ns) /\ s.to \in Outs(ns[i])
    BY <2>6, StatementIs
  <2>9. i \in 1..Len(ns) /\ Len(ns) \in Nat
    BY ScheduleIs
  <2>10. end[i - 1] \in Nat /\ end[i] \in Nat
    BY <1>1, <2>9
  <2>11. b # s.to
    <3>1. SUFFICES ASSUME i \in Producers(ns, b) PROVE FALSE
      BY <2>8 DEF Producers
    <3>2. end[i] <= lo \/ hi <= end[i - 1]
      BY <3>1
    <3> QED BY <1>1, <2>2, <2>7, <2>10, <3>2
  <2>12. DOMAIN F[m - 1] = Buffers(ns)
    BY <2>2, MemoryIs
  <2>13. F[m][b] = F[m - 1][b]
    BY <2>7, <2>8, <2>11, <2>12, EffectIs
  <2> QED BY <2>1, <2>3, <2>13
<1> HIDE DEF S
<1>4. Nat \subseteq S
  BY <1>2, <1>3, Counting
<1>5. hi - lo \in Nat /\ lo + (hi - lo) = hi
  BY <1>1
<1>6. hi - lo \in S
  BY <1>4, <1>5
<1> QED BY <1>5, <1>6 DEF S

-----------------------------------------------------------------------------
(***************************************************************************)
(* Statements run one after the other, from memory to memory.              *)
(***************************************************************************)

\* Where a node is once n nodes are inserted behind node i.
Behind(i, n, k) == IF k <= i THEN k ELSE k + n

LEMMA BehindIs ==
  ASSUME NEW i \in Nat, NEW n \in Nat, NEW j \in Nat, NEW k \in Nat
  PROVE  /\ Behind(i, n, j) \in Nat
         /\ j < k => Behind(i, n, j) < Behind(i, n, k)
         /\ Behind(i, n, j) < Behind(i, n, k) => j < k
         /\ Behind(i, n, j) = Behind(i, n, k) => j = k
         /\ \A d \in 1..n : /\ Behind(i, n, k) # i + d
                            /\ i < k => i + d < Behind(i, n, k)
BY DEF Behind

\* Some statements lead from memory M to memory N.
Goes(W, M, N) == \E F : Folds(W, M, F) /\ N = F[Len(W)]

\* The statements write buffers of U only.
Stays(W, U) == \A k \in 1..Len(W) : W[k].to \in U

LEMMA FoldsFrame ==
  ASSUME NEW W \in Seq(Statement), NEW U, Stays(W, U), NEW M, DOMAIN M = U, NEW F, Folds(W, M, F)
  PROVE  \A l \in 0..Len(W) : /\ DOMAIN F[l] = U
                              /\ \A x \in U : (\A k \in 1..Len(W) : W[k].to # x) => F[l][x] = M[x]
<1> DEFINE L == Len(W)
           P(l) == /\ DOMAIN F[l] = U
                   /\ \A x \in U : (\A k \in 1..L : W[k].to # x) => F[l][x] = M[x]
           S == {l \in Nat : l <= L => P(l)}
<1>1. L \in Nat /\ \A k \in 1..L : W[k] \in Statement
  BY LenProperties, ElementOfSeq
<1>2. 0 \in S
  BY DEF Folds
<1>3. ASSUME NEW l \in Nat, l \in S PROVE l + 1 \in S
  <2> SUFFICES ASSUME l + 1 <= L PROVE P(l + 1)
    OBVIOUS
  <2>1. PICK m : m = l + 1
    OBVIOUS
  <2>2. m \in 1..L /\ m - 1 = l /\ P(l)
    BY <1>1, <1>3, <2>1
  <2>3. PICK s : s = W[m]
    OBVIOUS
  <2>4. F[m] = Effect(F[l], s) /\ s \in Statement /\ s.to \in U
    BY <1>1, <2>2, <2>3 DEF Folds, Stays
  <2>5. DOMAIN F[m] = U /\ \A x \in U : x # s.to => F[m][x] = F[l][x]
    BY <2>2, <2>4, EffectIs
  <2>6. P(m)
    BY <2>2, <2>3, <2>5
  <2> QED BY <2>1, <2>6
<1> HIDE DEF S, P, L
<1>4. Nat \subseteq S
  BY <1>2, <1>3, Counting
<1>5. \A l \in 0..L : P(l)
  BY <1>1, <1>4 DEF S
<1> QED BY <1>5 DEF P, L

LEMMA GoesIs ==
  ASSUME NEW W \in Seq(Statement), NEW U, Stays(W, U), NEW M, DOMAIN M = U, NEW N, Goes(W, M, N)
  PROVE  DOMAIN N = U /\ \A x \in U : (\A k \in 1..Len(W) : W[k].to # x) => N[x] = M[x]
<1>1. PICK F : Folds(W, M, F) /\ N = F[Len(W)]
  BY DEF Goes
<1>2. Len(W) \in Nat
  BY LenProperties
<1> QED BY <1>1, <1>2, FoldsFrame

\* The memories between the nodes, when they run one after the other.
Stages(ns, S) ==
  /\ S[0] = Start(ns) /\ S[Len(ns)] = InOrder(ns)
  /\ \A i \in DOMAIN ns : Goes(ns[i].body, S[i - 1], S[i])

LEMMA StagesExist ==
  ASSUME NEW ns \in NodeSeq
  PROVE  \E S : Stages(ns, S)
<1>1. PICK end, F : Sequential(ns, end, F)
  BY SequentialIs
<1>2. Len(ns) \in Nat /\ DOMAIN ns = 1..Len(ns)
  BY ScheduleIs
<1>3. PICK S : S = [i \in 0..Len(ns) |-> F[end[i]]]
  OBVIOUS
<1>4. S[0] = Start(ns) /\ S[Len(ns)] = InOrder(ns)
  BY <1>1, <1>2, <1>3 DEF Sequential
<1>5. ASSUME NEW i \in DOMAIN ns PROVE Goes(ns[i].body, S[i - 1], S[i])
  <2>1. PICK lo, W, L : lo = end[i - 1] /\ W = ns[i].body /\ L = Len(W)
    OBVIOUS
  <2>2. i - 1 \in 0..Len(ns) /\ i \in 0..Len(ns)
    BY <1>2
  <2>3. lo \in Nat /\ L \in Nat /\ end[i] = lo + L
    BY <1>1, <2>1, <2>2, ScheduleIs, NodeIs DEF Sequential
  <2>4. PICK f : f = [l \in 0..L |-> F[lo + l]]
    OBVIOUS
  <2>5. f[0] = F[lo] /\ f[L] = F[end[i]]
    BY <2>3, <2>4
  <2>6. ASSUME NEW l \in 1..L PROVE f[l] = Effect(f[l - 1], W[l])
    <3>1. PICK m : m = lo + l
      OBVIOUS
    <3>2. m \in Nat /\ m - 1 = lo + (l - 1) /\ l \in 0..L /\ l - 1 \in 0..L
      BY <2>3, <3>1
    <3>3. F[m] = Effect(F[m - 1], W[l])
      BY <1>1, <2>1, <3>1, <3>2 DEF Sequential
    <3>4. f[l] = F[m] /\ f[l - 1] = F[m - 1]
      BY <2>4, <3>1, <3>2
    <3> QED BY <3>3, <3>4
  <2>7. Folds(W, F[lo], f)
    BY <2>1, <2>5, <2>6 DEF Folds
  <2>8. S[i - 1] = F[lo] /\ S[i] = f[Len(W)]
    BY <1>3, <2>1, <2>2, <2>5
  <2> QED BY <2>1, <2>7, <2>8 DEF Goes
<1>6. Stages(ns, S)
  BY <1>4, <1>5 DEF Stages
<1> QED BY <1>6

\* A node writes buffers of the schedule, and leaves the others as they are.
LEMMA BodyStays ==
  ASSUME NEW ns \in NodeSeq, NEW i \in DOMAIN ns
  PROVE  /\ ns[i].body \in Seq(Statement) /\ Len(ns[i].body) \in Nat /\ DOMAIN ns[i].body = 1..Len(ns[i].body)
         /\ Stays(ns[i].body, Buffers(ns))
         /\ \A k \in 1..Len(ns[i].body) : /\ ns[i].body[k] \in Statement
                                          /\ Used1(ns[i].body[k]) \subseteq Buffers(ns)
                                          /\ Reads(ns[i].body[k]) \subseteq Buffers(ns)
                                          /\ ns[i].body[k].to \in Outs(ns[i])
<1>1. ns[i] \in NodeSet
  BY ScheduleIs
<1>2. ns[i].body \in Seq(Statement) /\ Len(ns[i].body) \in Nat /\ DOMAIN ns[i].body = 1..Len(ns[i].body)
  BY <1>1, NodeIs
<1>3. Outs(ns[i]) \cup Ins(ns[i]) \subseteq Buffers(ns)
  BY DEF Buffers
<1>4. ASSUME NEW k \in 1..Len(ns[i].body)
      PROVE  /\ ns[i].body[k] \in Statement /\ Used1(ns[i].body[k]) \subseteq Buffers(ns)
             /\ Reads(ns[i].body[k]) \subseteq Buffers(ns)
             /\ ns[i].body[k].to \in Outs(ns[i]) /\ ns[i].body[k].to \in Buffers(ns)
  <2>1. PICK s : s = ns[i].body[k]
    OBVIOUS
  <2>2. s \in Statement /\ s.to \in Outs(ns[i]) /\ s.to \in Buffers(ns) /\ Used1(s) \subseteq Outs(ns[i]) \cup Ins(ns[i])
    BY <2>1, StatementIs
  <2>3. Reads(s) \subseteq Used1(s)
    BY DEF Reads, Used1
  <2> QED BY <1>3, <2>1, <2>2, <2>3
<1> QED BY <1>2, <1>4 DEF Stays

LEMMA StagesAre ==
  ASSUME NEW ns \in NodeSeq, NEW S, Stages(ns, S)
  PROVE  /\ \A i \in 0..Len(ns) : DOMAIN S[i] = Buffers(ns)
         /\ \A i \in DOMAIN ns : \A x \in Buffers(ns) \ Outs(ns[i]) : S[i][x] = S[i - 1][x]
<1> DEFINE L == Len(ns)
           T == {i \in Nat : i <= L => DOMAIN S[i] = Buffers(ns)}
<1>1. L \in Nat /\ DOMAIN ns = 1..L
  BY ScheduleIs
<1>2. ASSUME NEW i \in DOMAIN ns, DOMAIN S[i - 1] = Buffers(ns)
      PROVE  DOMAIN S[i] = Buffers(ns) /\ \A x \in Buffers(ns) \ Outs(ns[i]) : S[i][x] = S[i - 1][x]
  <2>1. PICK W, M, N, U : W = ns[i].body /\ M = S[i - 1] /\ N = S[i] /\ U = Buffers(ns)
    OBVIOUS
  <2>2. W \in Seq(Statement) /\ Stays(W, U) /\ DOMAIN M = U /\ Goes(W, M, N)
    BY <1>2, <2>1, BodyStays DEF Stages
  <2>3. DOMAIN N = U /\ \A x \in U : (\A k \in 1..Len(W) : W[k].to # x) => N[x] = M[x]
    BY <2>2, GoesIs
  <2>4. \A k \in 1..Len(W) : W[k].to \in Outs(ns[i])
    BY <2>1, BodyStays
  <2> QED BY <2>1, <2>3, <2>4
<1>3. 0 \in T
  BY DEF Stages, Start
<1>4. ASSUME NEW i \in Nat, i \in T PROVE i + 1 \in T
  <2> SUFFICES ASSUME i + 1 <= L PROVE DOMAIN S[i + 1] = Buffers(ns)
    OBVIOUS
  <2>1. PICK j : j = i + 1
    OBVIOUS
  <2>2. j \in DOMAIN ns /\ j - 1 = i /\ DOMAIN S[i] = Buffers(ns)
    BY <1>1, <1>4, <2>1
  <2> QED BY <1>2, <2>1, <2>2
<1> HIDE DEF T, L
<1>5. Nat \subseteq T
  BY <1>3, <1>4, Counting
<1>6. \A i \in 0..L : DOMAIN S[i] = Buffers(ns)
  BY <1>1, <1>5 DEF T
<1>7. \A i \in DOMAIN ns : DOMAIN S[i - 1] = Buffers(ns)
  BY <1>1, <1>6
<1> QED BY <1>2, <1>6, <1>7 DEF L

\* A statement that uses c in the place of b.
Swap(s, b, c) == [s EXCEPT !.to = Instead(s.to, b, c), !.reads = [r \in DOMAIN s.reads |-> Instead(s.reads[r], b, c)]]

LEMMA SwapIs ==
  ASSUME NEW s \in Statement, NEW b \in Buffer, NEW c \in Buffer
  PROVE  /\ Swap(s, b, c) \in Statement /\ Swap(s, b, c).to = Instead(s.to, b, c)
         /\ Swap(s, b, c).how = s.how /\ Swap(s, b, c).op = s.op
         /\ Swap(s, b, c).reads = [r \in DOMAIN s.reads |-> Instead(s.reads[r], b, c)]
         /\ Reads(Swap(s, b, c)) = {Instead(x, b, c) : x \in Reads(s)}
<1>1. s.to \in Buffer /\ DOMAIN s.reads = 1..Len(s.reads) /\ Len(s.reads) \in Nat
      /\ \A r \in DOMAIN s.reads : s.reads[r] \in Buffer
  BY ReadsIs
<1> DEFINE rs == [r \in DOMAIN s.reads |-> Instead(s.reads[r], b, c)]
           t == Swap(s, b, c)
<1>2. rs \in [1..Len(s.reads) -> Buffer] /\ Instead(s.to, b, c) \in Buffer
  BY <1>1 DEF Instead
<1>3. rs \in Seq(Buffer)
  BY <1>1, <1>2
<1>4. t.to = Instead(s.to, b, c) /\ t.reads = rs /\ t.how = s.how /\ t.op = s.op /\ t \in Statement
  BY <1>2, <1>3 DEF Statement, Buffer, Swap
<1>5. Reads(t) = {Instead(x, b, c) : x \in Reads(s)}
  <2>1. ToSet(rs) = {Instead(x, b, c) : x \in ToSet(s.reads)}
    BY <1>1 DEF ToSet
  <2> HIDE DEF t, rs
  <2> QED BY <2>1, <1>4 DEF Reads
<1> QED BY <1>4, <1>5

\* It does to c what s does to b.
LEMMA SwapEffect ==
  ASSUME NEW s \in Statement, NEW b \in Buffer, NEW c \in Buffer, NEW t, t = Swap(s, b, c),
         NEW f, NEW g, s.to \in DOMAIN f, t.to \in DOMAIN g,
         \A x \in ToSet(s.reads) : g[Instead(x, b, c)] = f[x],
         s.how = "fill" \/ g[t.to] = f[s.to]
  PROVE  Effect(g, t)[t.to] = Effect(f, s)[s.to]
<1>1. t.how = s.how /\ t.op = s.op /\ t.reads = [r \in DOMAIN s.reads |-> Instead(s.reads[r], b, c)]
  BY SwapIs
<1>2. PICK a : a = [k \in DOMAIN s.reads |-> f[s.reads[k]]]
  OBVIOUS
<1>3. a = [k \in DOMAIN t.reads |-> g[t.reads[k]]]
  <2>1. DOMAIN t.reads = DOMAIN s.reads
    BY <1>1
  <2>2. \A k \in DOMAIN s.reads : g[t.reads[k]] = f[s.reads[k]]
    BY <1>1 DEF ToSet
  <2> QED BY <1>2, <2>1, <2>2
<1>4. PICK v : v = IF s.op = "copy" THEN a[1] ELSE [op |-> s.op, of |-> IF s.how = "fill" THEN a ELSE Append(a, f[s.to])]
  OBVIOUS
<1>5. Effect(f, s) = [f EXCEPT ![s.to] = v]
  BY <1>2, <1>4 DEF Effect
<1>6. v = IF t.op = "copy" THEN a[1] ELSE [op |-> t.op, of |-> IF t.how = "fill" THEN a ELSE Append(a, g[t.to])]
  BY <1>1, <1>4
<1>7. Effect(g, t) = [g EXCEPT ![t.to] = v]
  BY <1>3, <1>6 DEF Effect
<1> QED BY <1>5, <1>7

\* The statements D are those of B with c for b.
Swapped(B, D, b, c) == Len(D) = Len(B) /\ \A k \in 1..Len(B) : D[k] = Swap(B[k], b, c)

LEMMA RenameBody ==
  ASSUME NEW n \in NodeSet, NEW b \in Buffer, NEW c \in Buffer
  PROVE  Rename(n, b, c).body \in Seq(Statement) /\ Swapped(n.body, Rename(n, b, c).body, b, c)
<1>1. n.body \in Seq(Statement) /\ Len(n.body) \in Nat /\ DOMAIN n.body = 1..Len(n.body)
      /\ \A k \in DOMAIN n.body : n.body[k] \in Statement
  BY NodeIs
<1>2. Rename(n, b, c) = [n EXCEPT !.body = [k \in DOMAIN n.body |-> Swap(n.body[k], b, c)]]
  BY DEF Rename, Swap, Instead
<1>3. PICK D : D = [k \in 1..Len(n.body) |-> Swap(n.body[k], b, c)]
  OBVIOUS
<1>4. D \in [1..Len(n.body) -> Statement]
  BY <1>1, <1>3, SwapIs
<1>5. D \in Seq(Statement) /\ Len(D) = Len(n.body)
  BY <1>1, <1>4
<1>6. Rename(n, b, c).body = D
  BY <1>1, <1>2, <1>3 DEF NodeSet
<1> QED BY <1>3, <1>5, <1>6 DEF Swapped

\* N holds what M does, but for b.
Alike2(U, b, M, N) == \A x \in U : x # b => N[x] = M[x]

\* Nothing of b is read up to statement w, which fills it; w = 0 is the start and
\* a w behind the end none of them.
Covers(B, b, w) ==
  /\ w \in 0..(Len(B) + 1)
  /\ \A k \in 1..Len(B) : k <= w => b \notin Reads(B[k])
  /\ w \in 1..Len(B) => B[w].to = b /\ B[w].how = "fill"

\* B on M, and D on N, which holds in c what M does in b.
Mimics(B, D, U, V, b, c, M, N) ==
  /\ B \in Seq(Statement) /\ Stays(B, U) /\ \A k \in 1..Len(B) : Reads(B[k]) \subseteq U
  /\ D \in Seq(Statement) /\ Stays(D, V) /\ Swapped(B, D, b, c)
  /\ DOMAIN M = U /\ DOMAIN N = V
  /\ b \in Buffer /\ c \in Buffer /\ b \in U /\ c \in V /\ (c = b \/ c \notin U) /\ U \ {b} \subseteq V
  /\ Alike2(U, b, M, N)

LEMMA BodySim ==
  ASSUME NEW B, NEW D, NEW U, NEW V, NEW b, NEW c, NEW M, NEW N, Mimics(B, D, U, V, b, c, M, N),
         NEW w, Covers(B, b, w), w = 0 => N[c] = M[b],
         NEW M2, NEW N2, Goes(B, M, M2), Goes(D, N, N2)
  PROVE  Alike2(U, b, M2, N2) /\ (w <= Len(B) => N2[c] = M2[b])
<1>1. PICK f : Folds(B, M, f) /\ M2 = f[Len(B)]
  BY DEF Goes
<1>2. PICK g : Folds(D, N, g) /\ N2 = g[Len(D)]
  BY DEF Goes
<1>3. PICK L : L = Len(B)
  OBVIOUS
<1>4. L \in Nat /\ Len(D) = L /\ w \in 0..(L + 1) /\ \A k \in 1..L : B[k] \in Statement
  BY <1>3, LenProperties, ElementOfSeq DEF Mimics, Covers, Swapped
<1>5. B \in Seq(Statement) /\ Stays(B, U) /\ DOMAIN M = U /\ D \in Seq(Statement) /\ Stays(D, V) /\ DOMAIN N = V
      /\ b \in Buffer /\ c \in Buffer /\ b \in U /\ c \in V /\ (c = b \/ c \notin U) /\ U \ {b} \subseteq V /\ Alike2(U, b, M, N)
  BY DEF Mimics
<1>6. \A l \in 0..L : DOMAIN f[l] = U
  BY <1>1, <1>3, <1>5, FoldsFrame
<1>7. \A l \in 0..L : DOMAIN g[l] = V
  BY <1>2, <1>4, <1>5, FoldsFrame
<1> DEFINE P(l) == Alike2(U, b, f[l], g[l]) /\ (w <= l => g[l][c] = f[l][b])
           S == {l \in Nat : l <= L => P(l)}
<1>8. 0 \in S
  <2>1. f[0] = M /\ g[0] = N
    BY <1>1, <1>2 DEF Folds
  <2>2. w <= 0 => w = 0
    BY <1>4
  <2> QED BY <1>5, <2>1, <2>2
<1>9. ASSUME NEW l \in Nat, l \in S PROVE l + 1 \in S
  <2> SUFFICES ASSUME l + 1 <= L PROVE P(l + 1)
    OBVIOUS
  <2>1. PICK k : k = l + 1
    OBVIOUS
  <2>2. k \in 1..L /\ k - 1 = l /\ l \in 0..L /\ P(l)
    BY <1>4, <1>9, <2>1
  <2>3. PICK s, t : s = B[k] /\ t = D[k]
    OBVIOUS
  <2>4. s \in Statement /\ s.to \in U /\ Reads(s) \subseteq U /\ t = Swap(s, b, c) /\ t.to \in V
    BY <1>3, <1>4, <1>5, <2>2, <2>3 DEF Mimics, Stays, Swapped
  <2>5. f[k] = Effect(f[l], s) /\ g[k] = Effect(g[l], t)
    BY <1>1, <1>2, <1>3, <1>4, <2>2, <2>3 DEF Folds
  <2>6. DOMAIN f[l] = U /\ DOMAIN g[l] = V
    BY <1>6, <1>7, <2>2
  <2>7. t \in Statement /\ t.to = Instead(s.to, b, c)
    BY <1>5, <2>4, SwapIs
  <2>8. /\ \A x \in U : x # s.to => f[k][x] = f[l][x]
        /\ \A x \in V : x # t.to => g[k][x] = g[l][x]
    BY <2>4, <2>5, <2>6, <2>7, EffectIs
  <2>9. ToSet(s.reads) \subseteq Reads(s)
    BY DEF Reads
  <2>10. k <= w => b \notin Reads(s)
    BY <1>3, <2>2, <2>3 DEF Covers
  <2>11. k = w => s.to = b /\ s.how = "fill"
    BY <1>3, <2>2, <2>3 DEF Covers
  <2>12. \A x \in ToSet(s.reads) : g[l][Instead(x, b, c)] = f[l][x]
    <3> TAKE x \in ToSet(s.reads)
    <3>1. CASE x = b
      <4>1. w <= l
        BY <1>4, <2>2, <2>9, <2>10, <3>1
      <4> QED BY <2>2, <3>1, <4>1 DEF Instead
    <3>2. CASE x # b
      BY <2>2, <2>4, <2>9, <3>2 DEF Instead, Alike2
    <3> QED BY <3>1, <3>2
  <2>13. s.to # b \/ k = w \/ w <= l => g[k][t.to] = f[k][s.to]
    <3> HAVE s.to # b \/ k = w \/ w <= l
    <3>1. s.how = "fill" \/ g[l][t.to] = f[l][s.to]
      <4>1. CASE s.to # b
        BY <2>2, <2>4, <2>7, <4>1 DEF Instead, Alike2
      <4>2. CASE k = w
        BY <2>11, <4>2
      <4>3. CASE s.to = b /\ w <= l
        BY <2>2, <2>7, <4>3 DEF Instead
      <4> QED BY <4>1, <4>2, <4>3
    <3> QED BY <1>5, <2>4, <2>5, <2>6, <2>12, <3>1, SwapEffect
  <2>14. Alike2(U, b, f[k], g[k])
    <3> SUFFICES ASSUME NEW x \in U, x # b PROVE g[k][x] = f[k][x]
      BY DEF Alike2
    <3>1. x # c
      BY <1>5
    <3>2. CASE x = s.to
      BY <2>7, <2>13, <3>2 DEF Instead
    <3>3. CASE x # s.to
      <4>1. x # t.to
        BY <2>7, <3>1, <3>3 DEF Instead
      <4>2. g[k][x] = g[l][x]
        BY <1>5, <2>8, <4>1
      <4> QED BY <2>2, <2>8, <3>3, <4>2 DEF Alike2
    <3> QED BY <3>2, <3>3
  <2>15. ASSUME w <= k PROVE g[k][c] = f[k][b]
    <3>1. k = w \/ w <= l
      BY <1>4, <2>1, <2>15
    <3>2. CASE s.to = b
      BY <2>7, <2>13, <3>1, <3>2 DEF Instead
    <3>3. CASE s.to # b
      <4>1. w <= l /\ b # s.to
        BY <2>11, <3>1, <3>3
      <4>2. c # t.to
        BY <1>5, <2>4, <2>7, <3>3 DEF Instead
      <4>3. g[k][c] = g[l][c] /\ f[k][b] = f[l][b]
        BY <1>5, <2>8, <4>1, <4>2
      <4> QED BY <2>2, <4>1, <4>3
    <3> QED BY <3>2, <3>3
  <2> QED BY <2>1, <2>14, <2>15
<1> HIDE DEF S, P
<1>10. Nat \subseteq S
  BY <1>8, <1>9, Counting
<1>11. P(L)
  BY <1>4, <1>10 DEF S
<1> QED BY <1>1, <1>2, <1>3, <1>4, <1>11 DEF P

\* The buffers of a schedule are those its statements name.
LEMMA BuffersAre ==
  ASSUME NEW ns \in NodeSeq
  PROVE  \A x : x \in Buffers(ns) <=>
           \E i \in DOMAIN ns : \E k \in 1..Len(ns[i].body) : x = ns[i].body[k].to \/ x \in Reads(ns[i].body[k])
<1>1. ASSUME NEW x \in Buffers(ns)
      PROVE  \E i \in DOMAIN ns : \E k \in 1..Len(ns[i].body) : x = ns[i].body[k].to \/ x \in Reads(ns[i].body[k])
  <2>1. PICK i \in DOMAIN ns : x \in Ins(ns[i]) \/ x \in Outs(ns[i])
    BY DEF Buffers
  <2>2. DOMAIN ns[i].body = 1..Len(ns[i].body)
    BY BodyStays
  <2> QED BY <2>1, <2>2 DEF Ins, Outs
<1>2. ASSUME NEW i \in DOMAIN ns, NEW k \in 1..Len(ns[i].body)
      PROVE  ns[i].body[k].to \in Buffers(ns) /\ Reads(ns[i].body[k]) \subseteq Buffers(ns)
  BY BodyStays DEF Stays
<1> QED BY <1>1, <1>2

\* A buffer keeps its contents through nodes that do not write it.
LEMMA StageFrame ==
  ASSUME NEW ns \in NodeSeq, NEW S, Stages(ns, S), NEW x \in Buffers(ns), NEW i \in 0..Len(ns), NEW j \in i..Len(ns),
         \A p \in Producers(ns, x) : p <= i \/ j < p
  PROVE  S[j][x] = S[i][x]
<1> DEFINE K == {d \in Nat : i + d <= j => S[i + d][x] = S[i][x]}
<1>1. Len(ns) \in Nat /\ DOMAIN ns = 1..Len(ns) /\ i \in Nat /\ j \in Nat /\ i <= j /\ j <= Len(ns)
  BY ScheduleIs
<1>2. 0 \in K
  BY <1>1
<1>3. ASSUME NEW d \in Nat, d \in K PROVE d + 1 \in K
  <2> SUFFICES ASSUME i + (d + 1) <= j PROVE S[i + (d + 1)][x] = S[i][x]
    OBVIOUS
  <2>1. PICK k : k = i + (d + 1)
    OBVIOUS
  <2>2. k \in DOMAIN ns /\ k - 1 = i + d /\ i < k /\ k <= j /\ S[i + d][x] = S[i][x]
    BY <1>1, <1>3, <2>1
  <2>3. k \notin Producers(ns, x)
    BY <1>1, <2>2
  <2>4. S[k][x] = S[k - 1][x]
    BY <2>2, <2>3, StagesAre DEF Producers
  <2> QED BY <2>1, <2>2, <2>4
<1> HIDE DEF K
<1>4. j - i \in K /\ i + (j - i) = j
  BY <1>1, <1>2, <1>3, Counting
<1> QED BY <1>1, <1>4 DEF K

\* Node z of r, from a memory N on, does to c what node i of ns does to b.
Follows(ns, i, S, r, N, b, c, M2, D) ==
  /\ ns \in NodeSeq /\ i \in DOMAIN ns /\ Stages(ns, S) /\ r \in NodeSeq
  /\ D \in Seq(Statement) /\ Stays(D, Buffers(r)) /\ Swapped(ns[i].body, D, b, c) /\ Goes(D, N, M2)
  /\ DOMAIN N = Buffers(r)
  /\ b \in Buffers(ns) /\ c \in Buffers(r) /\ (c = b \/ c \notin Buffers(ns)) /\ Buffers(ns) \ {b} \subseteq Buffers(r)
  /\ Alike2(Buffers(ns), b, S[i - 1], N)

LEMMA StageSim ==
  ASSUME NEW ns, NEW i, NEW S, NEW r, NEW N, NEW b, NEW c, NEW M2, NEW D, Follows(ns, i, S, r, N, b, c, M2, D),
         NEW w, Covers(ns[i].body, b, w), w = 0 => N[c] = S[i - 1][b]
  PROVE  Alike2(Buffers(ns), b, S[i], M2) /\ (w <= Len(ns[i].body) => M2[c] = S[i][b])
<1>1. PICK B, U, V, M, L : B = ns[i].body /\ U = Buffers(ns) /\ V = Buffers(r) /\ M = S[i - 1] /\ L = S[i]
  OBVIOUS
<1>2. ns \in NodeSeq /\ i \in DOMAIN ns /\ Stages(ns, S) /\ r \in NodeSeq
  BY DEF Follows
<1>3. B \in Seq(Statement) /\ Stays(B, U) /\ \A k \in 1..Len(B) : Reads(B[k]) \subseteq U
  BY <1>1, <1>2, BodyStays
<1>4. Goes(B, M, L)
  BY <1>1, <1>2 DEF Stages
<1>5. DOMAIN M = U
  <2>1. i - 1 \in 0..Len(ns)
    BY <1>2, ScheduleIs
  <2> QED BY <1>1, <1>2, <2>1, StagesAre
<1>6. b \in Buffer /\ c \in Buffer
  BY <1>2, ScheduleIs DEF Follows
<1>7. Mimics(B, D, U, V, b, c, M, N)
  BY <1>1, <1>3, <1>5, <1>6 DEF Mimics, Follows
<1>8. Goes(D, N, M2) /\ Covers(B, b, w) /\ (w = 0 => N[c] = M[b])
  BY <1>1 DEF Follows
<1>9. Alike2(U, b, L, M2) /\ (w <= Len(B) => M2[c] = L[b])
  BY <1>4, <1>7, <1>8, BodySim
<1> QED BY <1>1, <1>9

LEMMA CoversAll ==
  ASSUME NEW B \in Seq(Statement), NEW b
  PROVE  Covers(B, b, 0)
BY LenProperties DEF Covers

LEMMA StageSame ==
  ASSUME NEW ns, NEW i, NEW S, NEW r, NEW N, NEW b, NEW c, NEW M2, NEW D, Follows(ns, i, S, r, N, b, c, M2, D),
         N[c] = S[i - 1][b]
  PROVE  Alike2(Buffers(ns), b, S[i], M2) /\ M2[c] = S[i][b]
<1>1. ns[i].body \in Seq(Statement) /\ Len(ns[i].body) \in Nat
  BY BodyStays DEF Follows
<1>2. PICK w : w = 0
  OBVIOUS
<1>3. Covers(ns[i].body, b, w)
  BY <1>1, <1>2, CoversAll
<1>4. w = 0 => N[c] = S[i - 1][b]
  OBVIOUS
<1>5. Alike2(Buffers(ns), b, S[i], M2) /\ (w <= Len(ns[i].body) => M2[c] = S[i][b])
  BY <1>3, <1>4, StageSim
<1> QED BY <1>1, <1>2, <1>5

LEMMA SwapSame ==
  ASSUME NEW s \in Statement, NEW b
  PROVE  Swap(s, b, b) = s
<1>1. PICK rs : rs = [r \in DOMAIN s.reads |-> Instead(s.reads[r], b, b)]
  OBVIOUS
<1>2. rs = s.reads
  <2>1. rs = [r \in DOMAIN s.reads |-> s.reads[r]]
    BY <1>1 DEF Instead
  <2>2. s.reads \in Seq(Buffer)
    BY ReadsIs
  <2> QED BY <2>1, <2>2
<1>3. Swap(s, b, b) = [s EXCEPT !.to = s.to, !.reads = s.reads]
  BY <1>1, <1>2 DEF Swap, Instead
<1> QED BY <1>3 DEF Statement

LEMMA SwappedSame ==
  ASSUME NEW B \in Seq(Statement), NEW b
  PROVE  Swapped(B, B, b, b)
BY SwapSame, ElementOfSeq DEF Swapped

\* Schedules over the same buffers of the program, with the same contents in them.
LEMMA MeansSame ==
  ASSUME NEW ns, NEW r, Buffers(ns) \subseteq Buffers(r), \A x \in Buffers(r) \ Buffers(ns) : x[2] # 0,
         \A x \in Buffers(ns) : x[1] \in Results /\ x[2] = 0 => InOrder(r)[x] = InOrder(ns)[x]
  PROVE  Meaning(r) = Meaning(ns)
<1>1. Meaning(ns) = [x \in {c \in Buffers(ns) : c[1] \in Results /\ c[2] = 0} |-> InOrder(ns)[x]]
  BY DEF Meaning, InOrder, Whole
<1>2. Meaning(r) = [x \in {c \in Buffers(r) : c[1] \in Results /\ c[2] = 0} |-> InOrder(r)[x]]
  BY DEF Meaning, InOrder, Whole
<1>3. {c \in Buffers(r) : c[1] \in Results /\ c[2] = 0} = {c \in Buffers(ns) : c[1] \in Results /\ c[2] = 0}
  OBVIOUS
<1> QED BY <1>1, <1>2, <1>3

\* n nodes are inserted behind node a, after which node k uses c[k] for b; those
\* that use another buffer read b only, and as it is behind node a.
Inserted(ns, b, a, n, c, Y, r) ==
  /\ ns \in NodeSeq /\ r \in NodeSeq /\ n \in Nat /\ a \in 0..Len(ns) /\ b \in Buffers(ns)
  /\ DOMAIN r = 1..(Len(ns) + n)
  /\ Buffers(ns) \subseteq Buffers(r) /\ \A x \in Buffers(r) \ Buffers(ns) : x[2] # 0
  /\ Y \subseteq Buffers(r) \ Buffers(ns)
  /\ \A k \in DOMAIN ns : Swapped(ns[k].body, r[Behind(a, n, k)].body, b, c[k])
  /\ \A k \in DOMAIN ns : c[k] = b \/ /\ c[k] \in Y /\ a < k /\ b \notin Outs(ns[k])
                                      /\ \A p \in Producers(ns, b) : p <= a \/ k < p

\* The nodes that are inserted bring the contents of b into the buffers Y.
Delivers(ns, b, a, n, Y, r) ==
  \A T : Stages(r, T) => /\ \A x \in Buffers(ns) : T[a + n][x] = T[a][x]
                         /\ \A y \in Y : T[a + n][y] = T[a][b]

LEMMA SwapKeepsOuts ==
  ASSUME NEW ns \in NodeSeq, NEW k \in DOMAIN ns, NEW r \in NodeSeq, NEW z \in DOMAIN r, NEW b \in Buffer, NEW c \in Buffer,
         Swapped(ns[k].body, r[z].body, b, c), c = b \/ b \notin Outs(ns[k])
  PROVE  Outs(r[z]) = Outs(ns[k])
<1>1. PICK B, D, L : B = ns[k].body /\ D = r[z].body /\ L = Len(B)
  OBVIOUS
<1>2. DOMAIN B = 1..L /\ DOMAIN D = 1..L /\ \A m \in 1..L : D[m] = Swap(B[m], b, c)
  BY <1>1, BodyStays DEF Swapped
<1>3. \A m \in 1..L : B[m] \in Statement /\ B[m].to \in Outs(ns[k])
  BY <1>1, BodyStays
<1>4. \A m \in 1..L : D[m].to = B[m].to
  <2> TAKE m \in 1..L
  <2>1. PICK s : s = B[m]
    OBVIOUS
  <2>2. s \in Statement /\ s.to \in Outs(ns[k]) /\ D[m] = Swap(s, b, c)
    BY <1>2, <1>3, <2>1
  <2>3. Swap(s, b, c).to = Instead(s.to, b, c)
    BY <2>2, SwapIs
  <2> QED BY <2>1, <2>2, <2>3 DEF Instead
<1> QED BY <1>1, <1>2, <1>4 DEF Outs

LEMMA InsertStep ==
  ASSUME NEW ns, NEW b, NEW a, NEW n, NEW c, NEW Y, NEW r, Inserted(ns, b, a, n, c, Y, r),
         NEW S, Stages(ns, S), NEW T, Stages(r, T),
         NEW k \in DOMAIN ns, NEW z \in DOMAIN r, z = Behind(a, n, k),
         \A x \in Buffers(ns) : T[z - 1][x] = S[k - 1][x],
         c[k] # b => T[z - 1][c[k]] = S[k - 1][b]
  PROVE  (\A x \in Buffers(ns) : T[z][x] = S[k][x]) /\ (\A y \in Y : T[z][y] = T[z - 1][y])
<1>1. ns \in NodeSeq /\ r \in NodeSeq /\ b \in Buffers(ns) /\ Buffers(ns) \subseteq Buffers(r)
      /\ Y \subseteq Buffers(r) \ Buffers(ns)
  BY DEF Inserted
<1>2. PICK D, e : D = r[z].body /\ e = c[k]
  OBVIOUS
<1>3. Swapped(ns[k].body, D, b, e) /\ (e = b \/ (e \in Y /\ b \notin Outs(ns[k])))
  BY <1>2 DEF Inserted
<1>4. D \in Seq(Statement) /\ Stays(D, Buffers(r)) /\ Goes(D, T[z - 1], T[z])
  BY <1>1, <1>2, BodyStays DEF Stages
<1>5. DOMAIN T[z - 1] = Buffers(r)
  <2>1. z - 1 \in 0..Len(r)
    BY <1>1, ScheduleIs
  <2> QED BY <1>1, <2>1, StagesAre
<1>6. Follows(ns, k, S, r, T[z - 1], b, e, T[z], D)
  BY <1>1, <1>3, <1>4, <1>5 DEF Follows, Alike2
<1>7. T[z - 1][e] = S[k - 1][b]
  BY <1>1, <1>2
<1>9. Alike2(Buffers(ns), b, S[k], T[z]) /\ T[z][e] = S[k][b]
  <2>1. PICK N, M2 : N = T[z - 1] /\ M2 = T[z]
    OBVIOUS
  <2>2. Follows(ns, k, S, r, N, b, e, M2, D)
    BY <1>6, <2>1
  <2>3. N[e] = S[k - 1][b]
    BY <1>7, <2>1
  <2>4. Alike2(Buffers(ns), b, S[k], M2) /\ M2[e] = S[k][b]
    BY <2>2, <2>3, StageSame
  <2> QED BY <2>1, <2>4
<1>10. Outs(r[z]) = Outs(ns[k])
  <2>1. b \in Buffer /\ e \in Buffer
    BY <1>1, <1>3, ScheduleIs
  <2> QED BY <1>1, <1>2, <1>3, <2>1, SwapKeepsOuts
<1>11. T[z][b] = S[k][b]
  <2>1. CASE e = b
    BY <1>9, <2>1
  <2>2. CASE e # b
    <3>1. b \notin Outs(ns[k])
      BY <1>3, <2>2
    <3>2. S[k][b] = S[k - 1][b] /\ T[z][b] = T[z - 1][b]
      BY <1>1, <1>10, <3>1, StagesAre
    <3> QED BY <1>1, <3>2
  <2> QED BY <2>1, <2>2
<1>12. \A y \in Y : T[z][y] = T[z - 1][y]
  <2>1. Outs(ns[k]) \subseteq Buffers(ns)
    BY DEF Buffers
  <2> QED BY <1>1, <1>10, <2>1, StagesAre
<1> QED BY <1>9, <1>11, <1>12 DEF Alike2

LEMMA InsertMeans ==
  ASSUME NEW ns, NEW b, NEW a, NEW n, NEW c, NEW Y, NEW r, Inserted(ns, b, a, n, c, Y, r), Delivers(ns, b, a, n, Y, r)
  PROVE  Meaning(r) = Meaning(ns)
<1>1. /\ ns \in NodeSeq /\ r \in NodeSeq /\ n \in Nat /\ a \in 0..Len(ns) /\ b \in Buffers(ns)
      /\ DOMAIN r = 1..(Len(ns) + n) /\ Buffers(ns) \subseteq Buffers(r)
      /\ \A x \in Buffers(r) \ Buffers(ns) : x[2] # 0
  BY DEF Inserted
<1>2. PICK S : Stages(ns, S)
  BY <1>1, StagesExist
<1>3. PICK T : Stages(r, T)
  BY <1>1, StagesExist
<1>4. PICK L : L = Len(ns)
  OBVIOUS
<1>5. L \in Nat /\ DOMAIN ns = 1..L /\ Len(r) = L + n /\ a \in Nat /\ a <= L
  <2>1. L \in Nat /\ DOMAIN ns = 1..L
    BY <1>1, <1>4, ScheduleIs
  <2>2. Len(r) \in Nat /\ 1..Len(r) = 1..(L + n)
    BY <1>1, <1>4, ScheduleIs
  <2> QED BY <1>1, <1>4, <2>1, <2>2
<1>6. \A k \in DOMAIN ns : c[k] = b \/ (c[k] \in Y /\ a < k /\ \A p \in Producers(ns, b) : p <= a \/ k < p)
  BY DEF Inserted
<1> DEFINE P1(k) == \A x \in Buffers(ns) : T[k][x] = S[k][x]
           K1 == {k \in Nat : k <= a => P1(k)}
           P2(k) == (\A x \in Buffers(ns) : T[k + n][x] = S[k][x]) /\ \A y \in Y : T[k + n][y] = S[a][b]
           K2 == {d \in Nat : a + d <= L => P2(a + d)}
<1>7. 0 \in K1
  <2>1. S[0] = Start(ns) /\ T[0] = Start(r)
    BY <1>2, <1>3 DEF Stages
  <2>2. \A x \in Buffers(ns) : T[0][x] = S[0][x]
    BY <1>1, <2>1 DEF Start
  <2> QED BY <2>2
<1>8. ASSUME NEW k \in Nat, k \in K1 PROVE k + 1 \in K1
  <2> SUFFICES ASSUME k + 1 <= a PROVE P1(k + 1)
    OBVIOUS
  <2>1. PICK m : m = k + 1
    OBVIOUS
  <2>2. m \in 1..L /\ m \in DOMAIN r /\ m - 1 = k /\ m <= a /\ Behind(a, n, m) = m
    BY <1>1, <1>4, <1>5, <2>1 DEF Behind
  <2>3. \A x \in Buffers(ns) : T[m - 1][x] = S[m - 1][x]
    BY <1>5, <1>8, <2>1, <2>2
  <2>4. c[m] = b
    BY <1>5, <1>6, <2>2
  <2>5. \A x \in Buffers(ns) : T[m][x] = S[m][x]
    BY <1>2, <1>3, <1>5, <2>2, <2>3, <2>4, InsertStep
  <2> QED BY <2>1, <2>5
<1>9. P1(a)
  <2> HIDE DEF K1, P1
  <2>1. Nat \subseteq K1
    BY <1>7, <1>8, Counting
  <2> QED BY <1>5, <2>1 DEF K1
<1>10. 0 \in K2
  <2>1. a + 0 = a
    BY <1>5
  <2>2. P2(a)
    <3>1. \A x \in Buffers(ns) : T[a + n][x] = T[a][x]
      BY <1>3 DEF Delivers
    <3>2. \A y \in Y : T[a + n][y] = T[a][b]
      BY <1>3 DEF Delivers
    <3> QED BY <1>1, <1>9, <3>1, <3>2
  <2> QED BY <2>1, <2>2
<1>11. ASSUME NEW d \in Nat, d \in K2 PROVE d + 1 \in K2
  <2> SUFFICES ASSUME a + (d + 1) <= L PROVE P2(a + (d + 1))
    OBVIOUS
  <2>1. PICK m, z : m = a + (d + 1) /\ z = m + n
    OBVIOUS
  <2>2. m \in 1..L /\ z \in DOMAIN r /\ m - 1 = a + d /\ a < m /\ z = Behind(a, n, m) /\ z - 1 = (a + d) + n /\ a + d <= L
    BY <1>1, <1>4, <1>5, <2>1 DEF Behind
  <2>3. P2(a + d)
    BY <1>11, <2>2
  <2>4. \A x \in Buffers(ns) : T[z - 1][x] = S[m - 1][x]
    BY <2>2, <2>3
  <2>5. \A y \in Y : T[z - 1][y] = S[a][b]
    BY <2>2, <2>3
  <2>6. c[m] # b => T[z - 1][c[m]] = S[m - 1][b]
    <3> HAVE c[m] # b
    <3>1. c[m] \in Y /\ \A p \in Producers(ns, b) : p <= a \/ m < p
      BY <1>5, <1>6, <2>2
    <3>2. PICK j : j = m - 1
      OBVIOUS
    <3>3. a \in 0..Len(ns) /\ j \in a..Len(ns) /\ \A p \in Producers(ns, b) : p <= a \/ j < p
      <4>1. j \in a..Len(ns) /\ m = j + 1 /\ j \in Nat
        BY <1>1, <1>4, <1>5, <2>2, <3>2
      <4>2. \A p \in Producers(ns, b) : p \in Nat
        BY <1>1, Positions
      <4>3. \A p \in Producers(ns, b) : m < p => j < p
        BY <4>1, <4>2
      <4> QED BY <1>1, <3>1, <4>1, <4>3
    <3>4. S[j][b] = S[a][b]
      BY <1>1, <1>2, <3>3, StageFrame
    <3> QED BY <2>5, <3>1, <3>2, <3>4
  <2>7. (\A x \in Buffers(ns) : T[z][x] = S[m][x]) /\ (\A y \in Y : T[z][y] = T[z - 1][y])
    BY <1>2, <1>3, <1>5, <2>2, <2>4, <2>6, InsertStep
  <2>8. P2(m)
    BY <2>1, <2>5, <2>7
  <2> QED BY <2>1, <2>8
<1>12. P2(L)
  <2>1. PICK d : d = L - a
    OBVIOUS
  <2>2. d \in Nat /\ a + d = L
    BY <1>5, <2>1
  <2> HIDE DEF K2, P2
  <2>3. Nat \subseteq K2
    BY <1>10, <1>11, Counting
  <2>4. d \in K2
    BY <2>2, <2>3
  <2>5. P2(a + d)
    BY <1>5, <2>2, <2>4 DEF K2
  <2> QED BY <2>2, <2>5
<1>13. S[L] = InOrder(ns) /\ T[L + n] = InOrder(r)
  BY <1>2, <1>3, <1>4, <1>5 DEF Stages
<1>14. \A x \in Buffers(ns) : InOrder(r)[x] = InOrder(ns)[x]
  BY <1>12, <1>13
<1> HIDE DEF P1, K1, P2, K2
<1> QED BY <1>1, <1>14, MeansSame

\* Statements that start with one of their own lead through a memory in between.
LEMMA GoesSplit ==
  ASSUME NEW W, NEW s, NEW D, NEW n, NEW l, n \in Nat, l \in Nat, Len(s) = n, Len(D) = l, Len(W) = n + l, Joins(W, s, n, D, l),
         NEW M, NEW N, Goes(W, M, N)
  PROVE  \E K : Goes(s, M, K) /\ Goes(D, K, N)
<1>1. PICK F : Folds(W, M, F) /\ N = F[Len(W)]
  BY DEF Goes
<1>2. PICK f, g : f = [k \in 0..n |-> F[k]] /\ g = [k \in 0..l |-> F[n + k]]
  OBVIOUS
<1>3. f[0] = M /\ f[n] = F[n] /\ g[0] = F[n] /\ g[l] = N
  BY <1>1, <1>2 DEF Folds
<1>4. ASSUME NEW k \in 1..n PROVE f[k] = Effect(f[k - 1], s[k])
  <2>1. k - 1 \in 0..n /\ k \in 0..n /\ k \in 1..(n + l)
    OBVIOUS
  <2>2. F[k] = Effect(F[k - 1], W[k]) /\ W[k] = s[k]
    BY <1>1, <2>1 DEF Folds, Joins
  <2> QED BY <1>2, <2>1, <2>2
<1>5. ASSUME NEW k \in 1..l PROVE g[k] = Effect(g[k - 1], D[k])
  <2>1. PICK m : m = n + k
    OBVIOUS
  <2>2. k - 1 \in 0..l /\ k \in 0..l /\ m \in 1..(n + l) /\ m - 1 = n + (k - 1)
    BY <2>1
  <2>3. F[m] = Effect(F[m - 1], W[m]) /\ W[m] = D[k]
    BY <1>1, <2>1, <2>2 DEF Folds, Joins
  <2>4. g[k] = F[m] /\ g[k - 1] = F[m - 1]
    BY <1>2, <2>1, <2>2
  <2> QED BY <2>3, <2>4
<1>6. Goes(s, M, F[n])
  <2>1. Folds(s, M, f)
    BY <1>3, <1>4 DEF Folds
  <2> QED BY <1>3, <2>1 DEF Goes
<1>7. Goes(D, F[n], N)
  <2>1. Folds(D, F[n], g)
    BY <1>3, <1>5 DEF Folds
  <2> QED BY <1>3, <2>1 DEF Goes
<1> QED BY <1>6, <1>7

LEMMA GoesUnique ==
  ASSUME NEW W \in Seq(Statement), NEW M, NEW N, NEW K, Goes(W, M, N), Goes(W, M, K)
  PROVE  N = K
<1>1. PICK F : Folds(W, M, F) /\ N = F[Len(W)]
  BY DEF Goes
<1>2. PICK G : Folds(W, M, G) /\ K = G[Len(W)]
  BY DEF Goes
<1>3. PICK L : L = Len(W)
  OBVIOUS
<1>4. L \in Nat
  BY <1>3, LenProperties
<1> DEFINE Q == {l \in Nat : l <= L => F[l] = G[l]}
<1>5. 0 \in Q
  BY <1>1, <1>2 DEF Folds
<1>6. ASSUME NEW l \in Nat, l \in Q PROVE l + 1 \in Q
  <2> SUFFICES ASSUME l + 1 <= L PROVE F[l + 1] = G[l + 1]
    OBVIOUS
  <2>1. PICK m : m = l + 1
    OBVIOUS
  <2>2. m \in 1..L /\ m - 1 = l /\ F[l] = G[l]
    BY <1>4, <1>6, <2>1
  <2>3. F[m] = Effect(F[l], W[m]) /\ G[m] = Effect(G[l], W[m])
    BY <1>1, <1>2, <1>3, <2>2 DEF Folds
  <2>4. F[m] = G[m]
    BY <2>2, <2>3
  <2> QED BY <2>1, <2>4
<1> HIDE DEF Q
<1>7. Nat \subseteq Q
  BY <1>5, <1>6, Counting
<1>8. F[L] = G[L]
  BY <1>4, <1>7 DEF Q
<1> QED BY <1>1, <1>2, <1>3, <1>8

\* Bodies one after the other, and all of them as one.
Through(bodies, n, H) == \A i \in 1..n : Goes(bodies[i], H[i - 1], H[i])

LEMMA GoesFlat ==
  ASSUME NEW bodies \in Seq(Seq(Statement)), NEW n \in Nat, Len(bodies) = n, NEW H, Through(bodies, n, H)
  PROVE  Goes(FlattenSeq(bodies), H[0], H[n])
<1>1. PICK W, M : W = FlattenSeq(bodies) /\ M = H[0]
  OBVIOUS
<1>2. W \in Seq(Statement) /\ \E end : Ends(bodies, n, W, end)
  BY <1>1, FlattenIs
<1>3. PICK end : Ends(bodies, n, W, end)
  BY <1>2
<1>4. PICK F : Folds(W, M, F)
  BY <1>2, FoldIs
<1>5. end \in [0..n -> Nat] /\ end[0] = 0 /\ Len(W) = end[n]
  BY <1>3 DEF Ends
<1>6. \A i \in 1..n : bodies[i] \in Seq(Statement) /\ Len(bodies[i]) \in Nat /\ end[i] = end[i - 1] + Len(bodies[i])
  <2>1. \A i \in 1..n : bodies[i] \in Seq(Statement)
    BY ElementOfSeq
  <2>2. \A i \in 1..n : end[i] = end[i - 1] + Len(bodies[i])
    BY <1>3 DEF Ends
  <2> QED BY <2>1, <2>2, LenProperties
<1>7. \A i \in 1..n : \A l \in 1..Len(bodies[i]) : end[i - 1] + l \in 1..end[n] /\ W[end[i - 1] + l] = bodies[i][l]
  BY <1>3 DEF Ends
<1>8. ASSUME NEW i \in 1..n PROVE Goes(bodies[i], F[end[i - 1]], F[end[i]])
  <2>1. PICK B, lo, L : B = bodies[i] /\ lo = end[i - 1] /\ L = Len(B)
    OBVIOUS
  <2>2. i - 1 \in 0..n /\ i \in 0..n
    OBVIOUS
  <2>3. lo \in Nat /\ L \in Nat /\ end[i] = lo + L
    BY <1>5, <1>6, <2>1, <2>2
  <2>4. PICK f : f = [l \in 0..L |-> F[lo + l]]
    OBVIOUS
  <2>5. f[0] = F[lo] /\ f[L] = F[end[i]]
    BY <2>3, <2>4
  <2>6. ASSUME NEW l \in 1..L PROVE f[l] = Effect(f[l - 1], B[l])
    <3>1. PICK m : m = lo + l
      OBVIOUS
    <3>2. m - 1 = lo + (l - 1) /\ l \in 0..L /\ l - 1 \in 0..L
      BY <2>3, <3>1
    <3>3. m \in 1..Len(W) /\ W[m] = B[l]
      BY <1>5, <1>7, <2>1, <3>1
    <3>4. F[m] = Effect(F[m - 1], B[l])
      BY <1>4, <3>3 DEF Folds
    <3>5. f[l] = F[m] /\ f[l - 1] = F[m - 1]
      BY <2>4, <3>1, <3>2
    <3> QED BY <3>4, <3>5
  <2>7. Folds(B, F[lo], f)
    BY <2>1, <2>5, <2>6 DEF Folds
  <2>8. Goes(B, F[lo], F[end[i]])
    BY <2>1, <2>5, <2>7 DEF Goes
  <2> QED BY <2>1, <2>8
<1> DEFINE Q == {i \in Nat : i <= n => F[end[i]] = H[i]}
<1>9. 0 \in Q
  BY <1>1, <1>4, <1>5 DEF Folds
<1>10. ASSUME NEW j \in Nat, j \in Q PROVE j + 1 \in Q
  <2> SUFFICES ASSUME j + 1 <= n PROVE F[end[j + 1]] = H[j + 1]
    OBVIOUS
  <2>1. PICK i : i = j + 1
    OBVIOUS
  <2>2. i \in 1..n /\ i - 1 = j /\ F[end[j]] = H[j]
    BY <1>10, <2>1
  <2>3. PICK B, K, N, N1 : B = bodies[i] /\ K = H[j] /\ N = H[i] /\ N1 = F[end[i]]
    OBVIOUS
  <2>4. Goes(B, K, N)
    BY <2>2, <2>3 DEF Through
  <2>5. Goes(B, K, N1)
    BY <1>8, <2>2, <2>3
  <2>6. B \in Seq(Statement)
    BY <1>6, <2>2, <2>3
  <2>7. N = N1
    BY <2>4, <2>5, <2>6, GoesUnique
  <2> QED BY <2>1, <2>3, <2>7
<1> HIDE DEF Q
<1>11. Nat \subseteq Q
  BY <1>9, <1>10, Counting
<1>12. F[end[n]] = H[n]
  BY <1>11 DEF Q
<1>13. Goes(W, M, H[n])
  BY <1>4, <1>5, <1>12 DEF Goes
<1> QED BY <1>1, <1>13

-----------------------------------------------------------------------------
(***************************************************************************)
(* Nodes that become one.                                                  *)
(***************************************************************************)

\* What the node made of several bodies writes and uses.
Makes(m, N, bodies) ==
  /\ \A b : b \in Outs(m) <=> \E i \in 1..N : \E k \in DOMAIN bodies[i] : b = bodies[i][k].to
  /\ \A b : b \in Used(m) <=> \E i \in 1..N : \E k \in DOMAIN bodies[i] : b \in Reads(bodies[i][k])

LEMMA MadeOf ==
  ASSUME NEW bodies \in Seq(Seq(Statement)), NEW level \in Nat \cup {NoLevel},
         NEW N, N = Len(bodies), NEW m, m = Node(FlattenSeq(bodies), level)
  PROVE  m \in NodeSet /\ m.level = level /\ Makes(m, N, bodies)
<1>1. PICK flat, end : flat = FlattenSeq(bodies) /\ flat \in Seq(Statement) /\ Ends(bodies, N, flat, end)
  BY FlattenIs
<1>2. m = [body |-> flat, level |-> level]
  BY <1>1 DEF Node
<1>3. m \in NodeSet /\ m.level = level /\ m.body = flat
  BY <1>1, <1>2 DEF NodeSet
<1>4. DOMAIN flat = 1..end[N]
  <2>1. DOMAIN flat = 1..Len(flat)
    BY <1>1, LenProperties
  <2> QED BY <2>1, <1>1 DEF Ends
<1>5. \A i \in 1..N : DOMAIN bodies[i] = 1..Len(bodies[i])
  BY ElementOfSeq, LenProperties
<1>6. \A i \in 1..N : \A k \in DOMAIN bodies[i] : \E j \in DOMAIN flat : flat[j] = bodies[i][k]
  <2> TAKE i \in 1..N
  <2> TAKE k \in DOMAIN bodies[i]
  <2>1. PICK j : j = end[i - 1] + k
    OBVIOUS
  <2>2. k \in 1..Len(bodies[i])
    BY <1>5
  <2>3. j \in 1..end[N] /\ flat[j] = bodies[i][k]
    BY <1>1, <2>1, <2>2 DEF Ends
  <2> QED BY <2>3, <1>4
<1>7. \A j \in DOMAIN flat : \E i \in 1..N : \E k \in DOMAIN bodies[i] : flat[j] = bodies[i][k]
  <2> TAKE j \in DOMAIN flat
  <2>1. PICK i \in 1..N : \E k \in 1..Len(bodies[i]) : j = end[i - 1] + k
    BY <1>1, <1>4 DEF Ends
  <2>2. PICK k \in 1..Len(bodies[i]) : j = end[i - 1] + k
    BY <2>1
  <2>3. flat[j] = bodies[i][k] /\ k \in DOMAIN bodies[i]
    BY <1>1, <1>5, <2>2 DEF Ends
  <2> QED BY <2>3
<1>8. Outs(m) = {flat[j].to : j \in DOMAIN flat} /\ Used(m) = UNION {Reads(flat[j]) : j \in DOMAIN flat}
  BY <1>3 DEF Outs, Used
<1>9. ASSUME NEW b PROVE b \in Outs(m) <=> \E i \in 1..N : \E k \in DOMAIN bodies[i] : b = bodies[i][k].to
  <2>1. b \in Outs(m) <=> \E j \in DOMAIN flat : b = flat[j].to
    BY <1>8
  <2> QED BY <1>6, <1>7, <2>1
<1>10. ASSUME NEW b PROVE b \in Used(m) <=> \E i \in 1..N : \E k \in DOMAIN bodies[i] : b \in Reads(bodies[i][k])
  <2>1. b \in Used(m) <=> \E j \in DOMAIN flat : b \in Reads(flat[j])
    BY <1>8
  <2> QED BY <1>6, <1>7, <2>1
<1> QED BY <1>3, <1>9, <1>10 DEF Makes

\* Where Fuse puts node k.
Place(first, last, k) == IF k < first THEN k ELSE IF k <= last THEN first ELSE k - (last - first)

Fused(ns, first, last, level, r) ==
  /\ r \in NodeSeq
  /\ \A k \in DOMAIN ns : Place(first, last, k) \in DOMAIN r
  /\ \A i \in DOMAIN r : \E k \in DOMAIN ns : Place(first, last, k) = i
  /\ \A k \in DOMAIN ns : r[Place(first, last, k)].level = IF k \in first..last THEN level ELSE ns[k].level
  /\ \A i \in DOMAIN r : \A b :
       /\ b \in Outs(r[i]) <=> \E k \in DOMAIN ns : Place(first, last, k) = i /\ b \in Outs(ns[k])
       /\ b \in Ins(r[i]) <=> /\ b \notin Outs(r[i])
                              /\ \E k \in DOMAIN ns : Place(first, last, k) = i /\ b \in Ins(ns[k])
  /\ \A k \in 1..(first - 1) : k \in DOMAIN r /\ r[k] = ns[k]

\* The statements of the node it makes are those of the nodes, and it keeps the others.
FuseBodies(ns, first, last, r) ==
  /\ Len(r) = Len(ns) - (last - first)
  /\ \A k \in 1..(first - 1) : r[k] = ns[k]
  /\ r[first].body = FlattenSeq([k \in 1..(last - first + 1) |-> ns[first + k - 1].body])
  /\ \A k \in 1..(Len(ns) - last) : r[first + k] = ns[last + k]

LEMMA FuseIs ==
  ASSUME NEW ns \in NodeSeq, NEW first \in DOMAIN ns, NEW last \in DOMAIN ns, first <= last,
         NEW level \in Nat \cup {NoLevel}
  PROVE  /\ Fused(ns, first, last, level, Fuse(ns, first, last, level))
         /\ FuseBodies(ns, first, last, Fuse(ns, first, last, level))
<1>1. PICK L : L = Len(ns)
  OBVIOUS
<1>2. L \in Nat /\ DOMAIN ns = 1..L /\ \A k \in 1..L : ns[k] \in NodeSet
  BY <1>1, ScheduleIs
<1>3. first \in Nat /\ last \in Nat /\ 1 <= first /\ first <= last /\ last <= L
  BY <1>2
<1>4. PICK N, bodies : N = last - first + 1 /\ bodies = [k \in 1..N |-> ns[first + k - 1].body]
  OBVIOUS
<1>5. bodies \in Seq(Seq(Statement)) /\ Len(bodies) = N
  <2>1. \A k \in 1..N : first + k - 1 \in 1..L
    BY <1>2, <1>3, <1>4
  <2>2. \A k \in 1..N : ns[first + k - 1].body \in Seq(Statement)
    BY <1>2, <2>1, NodeIs
  <2>3. N \in Nat
    BY <1>3, <1>4
  <2> QED BY <1>4, <2>2, <2>3
<1>6. PICK m : m = Node(FlattenSeq(bodies), level)
  OBVIOUS
<1>7. m \in NodeSet /\ m.level = level /\ Makes(m, N, bodies)
  BY <1>5, <1>6, MadeOf
<1>8. \A b : /\ b \in Outs(m) <=> \E k \in first..last : b \in Outs(ns[k])
             /\ b \in Used(m) <=> \E k \in first..last : b \in Used(ns[k])
  <2>1. \A i \in 1..N : first + i - 1 \in first..last /\ bodies[i] = ns[first + i - 1].body
    BY <1>3, <1>4
  <2>2. \A k \in first..last : \E i \in 1..N : bodies[i] = ns[k].body
    <3> TAKE k \in first..last
    <3>1. k - first + 1 \in 1..N /\ first + (k - first + 1) - 1 = k
      BY <1>3, <1>4
    <3> QED BY <3>1, <2>1
  <2>3. ASSUME NEW b PROVE b \in Outs(m) <=> \E k \in first..last : b \in Outs(ns[k])
    <3>1. b \in Outs(m) <=> \E i \in 1..N : \E k \in DOMAIN bodies[i] : b = bodies[i][k].to
      BY <1>7 DEF Makes
    <3>2. \A k : b \in Outs(ns[k]) <=> \E l \in DOMAIN ns[k].body : b = ns[k].body[l].to
      BY DEF Outs
    <3> QED BY <3>1, <3>2, <2>1, <2>2
  <2>4. ASSUME NEW b PROVE b \in Used(m) <=> \E k \in first..last : b \in Used(ns[k])
    <3>1. b \in Used(m) <=> \E i \in 1..N : \E k \in DOMAIN bodies[i] : b \in Reads(bodies[i][k])
      BY <1>7 DEF Makes
    <3>2. \A k : b \in Used(ns[k]) <=> \E l \in DOMAIN ns[k].body : b \in Reads(ns[k].body[l])
      BY DEF Used
    <3> QED BY <3>1, <3>2, <2>1, <2>2
  <2> QED BY <2>3, <2>4
<1>9. PICK r : r = Fuse(ns, first, last, level)
  OBVIOUS
<1>10. r = Splice(ns, <<m>>, first - 1, last)
  BY <1>4, <1>6, <1>9 DEF Fuse, Splice
<1>11. PICK c : c = first - 1
  OBVIOUS
<1>12. /\ r \in NodeSeq /\ Len(r) = c + 1 + L - last
       /\ \A k \in 1..c : r[k] = ns[k]
       /\ r[first] = m
       /\ \A k \in 1..(L - last) : r[c + 1 + k] = ns[last + k]
  <2>1. PICK t, n : t = <<m>> /\ n = 1
    OBVIOUS
  <2>2. t \in Seq(NodeSet) /\ Len(t) = n /\ t[1] = m
    BY <1>7, <2>1
  <2>3. ns \in Seq(NodeSet) /\ c \in 0..L /\ last \in c..L
    BY <1>2, <1>3, <1>11 DEF NodeSeq
  <2>4. r \in Seq(NodeSet) /\ Len(r) = c + n + L - last /\ Splices(r, ns, L, t, n, c, last)
    <3>1. r = Splice(ns, t, c, last)
      BY <1>10, <1>11, <2>1
    <3>2. /\ Splice(ns, t, c, last) \in Seq(NodeSet) /\ Len(Splice(ns, t, c, last)) = c + n + L - last
          /\ Splices(Splice(ns, t, c, last), ns, L, t, n, c, last)
      BY <1>1, <2>2, <2>3, Spliced
    <3> QED BY <3>1, <3>2
  <2>5. 1 \in 1..n /\ c + 1 = first
    BY <2>1, <1>3, <1>11
  <2> QED BY <2>1, <2>2, <2>4, <2>5 DEF NodeSeq, Splices
<1>13. PICK R : R = c + 1 + L - last
  OBVIOUS
<1>14. R \in Nat /\ DOMAIN r = 1..R
  <2>1. DOMAIN r = 1..Len(r) /\ Len(r) \in Nat
    BY <1>12, ScheduleIs
  <2> QED BY <1>12, <1>13, <2>1
<1>15. ASSUME NEW k \in 1..L
       PROVE  /\ Place(first, last, k) \in 1..R
              /\ k \in first..last => Place(first, last, k) = first
              /\ k \notin first..last => Place(first, last, k) # first /\ r[Place(first, last, k)] = ns[k]
  <2>1. CASE k < first
    <3>1. k \in 1..c /\ Place(first, last, k) = k /\ k \in 1..R /\ k \notin first..last /\ k # first
      BY <1>2, <1>3, <1>11, <1>13, <2>1 DEF Place
    <3> QED BY <3>1, <1>12
  <2>2. CASE k \in first..last
    BY <1>2, <1>3, <1>11, <1>13, <2>2 DEF Place
  <2>3. CASE k > last
    <3>1. PICK j : j = k - last
      OBVIOUS
    <3>2. j \in 1..(L - last) /\ last + j = k /\ Place(first, last, k) = c + 1 + j /\ c + 1 + j \in 1..R
          /\ k \notin first..last /\ c + 1 + j # first
      BY <1>2, <1>3, <1>11, <1>13, <2>3, <3>1 DEF Place
    <3> QED BY <3>2, <1>12
  <2> QED BY <2>1, <2>2, <2>3, <1>2, <1>3
<1>16. ASSUME NEW i \in 1..R PROVE \E k \in 1..L : Place(first, last, k) = i
  <2>1. CASE i <= first
    <3>1. i \in 1..L /\ Place(first, last, i) = i
      BY <1>2, <1>3, <1>11, <1>13, <2>1 DEF Place
    <3> QED BY <3>1
  <2>2. CASE i > first
    <3>1. i + (last - first) \in 1..L /\ Place(first, last, i + (last - first)) = i
      BY <1>2, <1>3, <1>11, <1>13, <2>2 DEF Place
    <3> QED BY <3>1
  <2> QED BY <2>1, <2>2, <1>3
<1>17. \A k \in 1..L : r[Place(first, last, k)].level = IF k \in first..last THEN level ELSE ns[k].level
  BY <1>7, <1>12, <1>15
<1>18. ASSUME NEW i \in 1..R, NEW b
       PROVE  /\ b \in Outs(r[i]) <=> \E k \in 1..L : Place(first, last, k) = i /\ b \in Outs(ns[k])
              /\ b \in Ins(r[i]) <=> /\ b \notin Outs(r[i])
                                     /\ \E k \in 1..L : Place(first, last, k) = i /\ b \in Ins(ns[k])
  <2>1. \A k \in 1..L : Ins(ns[k]) = Used(ns[k]) \ Outs(ns[k])
    BY <1>2, Operands
  <2>2. Ins(r[i]) = Used(r[i]) \ Outs(r[i])
    BY <1>12, <1>14, Operands, ScheduleIs
  <2>3. CASE i = first
    <3>1. \A k \in 1..L : Place(first, last, k) = i <=> k \in first..last
      BY <1>15, <2>3
    <3>2. \A k \in first..last : k \in 1..L
      BY <1>2, <1>3
    <3>3. /\ b \in Outs(r[i]) <=> \E k \in first..last : b \in Outs(ns[k])
          /\ b \in Used(r[i]) <=> \E k \in first..last : b \in Used(ns[k])
      BY <1>8, <1>12, <2>3
    <3> QED BY <3>1, <3>2, <3>3, <2>1, <2>2
  <2>4. CASE i # first
    <3>1. PICK k \in 1..L : Place(first, last, k) = i
      BY <1>16
    <3>2. \A j \in 1..L : Place(first, last, j) = i => r[i] = ns[j]
      BY <1>15, <2>4
    <3>3. r[i] = ns[k]
      BY <3>1, <3>2
    <3>4. b \in Ins(ns[k]) => b \notin Outs(ns[k])
      BY <2>1
    <3> QED BY <3>1, <3>2, <3>3, <3>4
  <2> QED BY <2>3, <2>4
<1>19. \A k \in 1..(first - 1) : k \in 1..R /\ r[k] = ns[k]
  BY <1>2, <1>3, <1>11, <1>12, <1>13
<1>20. Fused(ns, first, last, level, r)
  BY <1>2, <1>12, <1>14, <1>15, <1>16, <1>17, <1>18, <1>19 DEF Fused
<1>21. FuseBodies(ns, first, last, r)
  <2>1. m.body = FlattenSeq(bodies)
    BY <1>6 DEF Node
  <2>2. c + 1 = first /\ Len(r) = L - (last - first)
    BY <1>2, <1>3, <1>11, <1>12
  <2>3. r[first].body = FlattenSeq([k \in 1..(last - first + 1) |-> ns[first + k - 1].body])
    BY <1>4, <1>12, <2>1
  <2>4. \A k \in 1..(L - last) : r[first + k] = ns[last + k]
    BY <1>12, <2>2
  <2>5. \A k \in 1..(first - 1) : r[k] = ns[k]
    BY <1>11, <1>12
  <2> QED BY <1>1, <2>2, <2>3, <2>4, <2>5 DEF FuseBodies
<1> QED BY <1>9, <1>20, <1>21

LEMMA FuseBuffers ==
  ASSUME NEW ns \in NodeSeq, NEW first, NEW last, NEW level, NEW r, Fused(ns, first, last, level, r)
  PROVE  Buffers(r) = Buffers(ns)
<1>1. ASSUME NEW k \in DOMAIN ns, NEW x \in Ins(ns[k]) \cup Outs(ns[k]) PROVE x \in Buffers(r)
  <2>1. PICK i \in DOMAIN r : Place(first, last, k) = i
    BY DEF Fused
  <2>2. x \in Outs(r[i]) \/ x \in Ins(r[i])
    BY <1>1, <2>1 DEF Fused
  <2> QED BY <2>2 DEF Buffers
<1>2. ASSUME NEW i \in DOMAIN r, NEW x \in Ins(r[i]) \cup Outs(r[i]) PROVE x \in Buffers(ns)
  <2>1. \E k \in DOMAIN ns : x \in Outs(ns[k]) \/ x \in Ins(ns[k])
    BY <1>2 DEF Fused
  <2> QED BY <2>1 DEF Buffers
<1>3. Buffers(ns) \subseteq Buffers(r)
  BY <1>1 DEF Buffers
<1>4. Buffers(r) \subseteq Buffers(ns)
  <2>1. \A x \in Buffers(r) : \E i \in DOMAIN r : x \in Ins(r[i]) \cup Outs(r[i])
    BY DEF Buffers
  <2> QED BY <1>2, <2>1
<1> QED BY <1>3, <1>4

LEMMA FuseMeans ==
  ASSUME NEW ns \in NodeSeq, NEW first \in DOMAIN ns, NEW last \in DOMAIN ns, first <= last,
         NEW level, NEW r, Fused(ns, first, last, level, r), FuseBodies(ns, first, last, r)
  PROVE  Meaning(r) = Meaning(ns)
<1>1. PICK L, R, d : L = Len(ns) /\ R = Len(r) /\ d = last - first
  OBVIOUS
<1>2. r \in NodeSeq
  BY DEF Fused
<1>3. /\ L \in Nat /\ DOMAIN ns = 1..L /\ R \in Nat /\ DOMAIN r = 1..R /\ R = L - d /\ d \in Nat
      /\ first \in Nat /\ last \in Nat /\ 1 <= first /\ last <= L /\ last = first + d /\ first <= R
  <2>1. L \in Nat /\ DOMAIN ns = 1..L /\ R \in Nat /\ DOMAIN r = 1..R
    BY <1>1, <1>2, ScheduleIs
  <2>2. R = L - d
    BY <1>1 DEF FuseBodies
  <2> QED BY <1>1, <2>1, <2>2
<1>4. PICK S, T : Stages(ns, S) /\ Stages(r, T)
  <2>1. (\E S : Stages(ns, S)) /\ (\E T : Stages(r, T))
    BY <1>2, StagesExist
  <2> QED BY <2>1
<1>5. PICK Q : Q = [k \in 0..R |-> IF k < first THEN S[k] ELSE S[k + d]]
  OBVIOUS
<1>6. \A k \in 1..L : Goes(ns[k].body, S[k - 1], S[k])
  BY <1>3, <1>4 DEF Stages
<1>7. ASSUME NEW k \in 1..R PROVE Goes(r[k].body, Q[k - 1], Q[k])
  <2>1. CASE k < first
    <3>1. k \in 1..L /\ r[k] = ns[k] /\ Q[k] = S[k] /\ Q[k - 1] = S[k - 1]
      <4>1. k \in 1..(first - 1) /\ k \in 1..L /\ k \in 0..R /\ k - 1 \in 0..R /\ k - 1 < first
        BY <1>3, <2>1
      <4>2. r[k] = ns[k]
        BY <4>1 DEF FuseBodies
      <4> QED BY <1>5, <2>1, <4>1, <4>2
    <3> QED BY <1>6, <3>1
  <2>2. CASE k = first
    <3>0. PICK n : n = d + 1
      OBVIOUS
    <3>1. PICK bodies, H : bodies = [i \in 1..n |-> ns[first + i - 1].body] /\ H = [i \in 0..n |-> S[first - 1 + i]]
      OBVIOUS
    <3>2. n \in Nat /\ n = last - first + 1
      BY <1>3, <3>0
    <3>3. ASSUME NEW i \in 1..n PROVE bodies[i] \in Seq(Statement) /\ Goes(bodies[i], H[i - 1], H[i])
      <4>1. PICK j : j = first + i - 1
        OBVIOUS
      <4>2. j \in 1..L /\ j - 1 = first - 1 + (i - 1) /\ j = first - 1 + i /\ i - 1 \in 0..n /\ i \in 0..n
        BY <1>3, <3>0, <4>1
      <4>3. bodies[i] = ns[j].body /\ H[i] = S[j] /\ H[i - 1] = S[j - 1]
        BY <3>1, <4>1, <4>2
      <4>4. ns[j].body \in Seq(Statement)
        BY <1>3, <4>2, BodyStays
      <4> QED BY <1>6, <4>2, <4>3, <4>4
    <3>a. bodies \in [1..n -> Seq(Statement)]
      BY <3>1, <3>3
    <3>4. bodies \in Seq(Seq(Statement)) /\ Len(bodies) = n
      BY <3>2, <3>a
    <3>5. Through(bodies, n, H)
      BY <3>3 DEF Through
    <3>6. Goes(FlattenSeq(bodies), H[0], H[n])
      BY <3>2, <3>4, <3>5, GoesFlat
    <3>7. H[0] = Q[k - 1] /\ H[n] = Q[k]
      <4>0. 0 \in 0..n /\ n \in 0..n /\ first - 1 + 0 = first - 1
        BY <1>3, <3>2
      <4>1. H[0] = S[first - 1] /\ H[n] = S[first - 1 + n]
        BY <3>1, <4>0
      <4>2. first - 1 + n = k + d /\ k - 1 = first - 1 /\ k \in 0..R /\ k - 1 \in 0..R /\ k - 1 < first /\ ~(k < first)
        BY <1>3, <2>2, <3>0
      <4> QED BY <1>5, <4>1, <4>2
    <3>8. r[k].body = FlattenSeq(bodies)
      BY <2>2, <3>1, <3>2 DEF FuseBodies
    <3> QED BY <3>6, <3>7, <3>8
  <2>3. CASE k > first
    <3>1. PICK m, j : m = k - first /\ j = last + m
      OBVIOUS
    <3>2. m \in 1..(L - last) /\ k = first + m /\ j \in 1..L /\ j = k + d /\ j - 1 = k - 1 + d
      BY <1>3, <2>3, <3>1
    <3>3. r[k] = ns[j]
      BY <1>1, <3>1, <3>2 DEF FuseBodies
    <3>4. Q[k] = S[j] /\ Q[k - 1] = S[j - 1]
      <4>1. k \in 0..R /\ k - 1 \in 0..R /\ ~(k < first) /\ ~(k - 1 < first)
        BY <1>3, <2>3
      <4> QED BY <1>5, <3>2, <4>1
    <3> QED BY <1>6, <3>2, <3>3, <3>4
  <2> QED BY <1>3, <2>1, <2>2, <2>3
<1>8. Buffers(r) = Buffers(ns)
  BY FuseBuffers
<1> DEFINE C == {k \in Nat : k <= R => T[k] = Q[k]}
<1>9. 0 \in C
  <2>1. S[0] = Start(ns) /\ T[0] = Start(r)
    BY <1>4 DEF Stages
  <2>2. Q[0] = S[0]
    BY <1>3, <1>5
  <2> QED BY <1>8, <2>1, <2>2 DEF Start
<1>10. ASSUME NEW j \in Nat, j \in C PROVE j + 1 \in C
  <2> SUFFICES ASSUME j + 1 <= R PROVE T[j + 1] = Q[j + 1]
    OBVIOUS
  <2>1. PICK k : k = j + 1
    OBVIOUS
  <2>2. k \in 1..R /\ k - 1 = j /\ T[j] = Q[j]
    BY <1>3, <1>10, <2>1
  <2>3. PICK B, K, N, N1 : B = r[k].body /\ K = Q[j] /\ N = Q[k] /\ N1 = T[k]
    OBVIOUS
  <2>4. Goes(B, K, N)
    BY <1>7, <2>2, <2>3
  <2>5. Goes(B, K, N1)
    BY <1>3, <1>4, <2>2, <2>3 DEF Stages
  <2>6. B \in Seq(Statement)
    BY <1>2, <1>3, <2>2, <2>3, BodyStays
  <2>7. N = N1
    BY <2>4, <2>5, <2>6, GoesUnique
  <2> QED BY <2>1, <2>3, <2>7
<1> HIDE DEF C
<1>11. Nat \subseteq C
  BY <1>9, <1>10, Counting
<1>12. T[R] = Q[R]
  BY <1>3, <1>11 DEF C
<1>13. Q[R] = S[L]
  <2>1. R \in 0..R /\ ~(R < first) /\ R + d = L
    BY <1>3
  <2> QED BY <1>5, <2>1
<1>14. InOrder(r) = InOrder(ns)
  BY <1>1, <1>4, <1>12, <1>13 DEF Stages
<1> QED BY <1>8, <1>14, MeansSame

-----------------------------------------------------------------------------
(***************************************************************************)
(* What the passes keep true of a schedule.                                *)
(***************************************************************************)

\* The conditions of a legal schedule, for the nodes that have a level.
Channels(ns) ==
  \A i \in DOMAIN ns : ns[i].level # NoLevel => \A b \in Outs(ns[i]) : ~ViolatesChannel(ns, b, i)

Downhill(ns) ==
  \A i \in DOMAIN ns : ns[i].level # NoLevel =>
    \A b \in Outs(ns[i]) : \A j \in DependentConsumers(ns, b, i) :
      ns[j].level # NoLevel /\ ns[i].level > ns[j].level

NextDown(ns) ==
  \A i \in DOMAIN ns : ns[i].level # NoLevel =>
    \A b \in Outs(ns[i]) : \A j \in DependentConsumers(ns, b, i) :
      Carried(b) => ns[i].level = ns[j].level + 1

NoLevels(ns) == \A i \in DOMAIN ns : ns[i].level = NoLevel

\* One producer, and one consumer that depends on it.
Single(ns, b, i) ==
  IsExt(b) \/ /\ \A x, y \in DependentConsumers(ns, b, i) : x = y
              /\ \A x, y \in Producers(ns, b) : x = y

LEMMA SingleIs ==
  ASSUME NEW ns \in NodeSeq, NEW b, NEW i
  PROVE  ~ViolatesChannel(ns, b, i) <=> Single(ns, b, i)
<1>1. IsFiniteSet(Producers(ns, b)) /\ IsFiniteSet(DependentConsumers(ns, b, i))
  <2>1. IsFiniteSet(Consumers(ns, b)) /\ DependentConsumers(ns, b, i) \in SUBSET Consumers(ns, b)
    BY Positions DEF DependentConsumers
  <2> QED BY <2>1, Positions, FS_Subset
<1>2. ~(Cardinality(Producers(ns, b)) > 1) <=> \A x, y \in Producers(ns, b) : x = y
  BY <1>1, AtMostOne
<1>3. ~(Cardinality(DependentConsumers(ns, b, i)) > 1) <=> \A x, y \in DependentConsumers(ns, b, i) : x = y
  BY <1>1, AtMostOne
<1> QED BY <1>2, <1>3 DEF ViolatesChannel, Single

LEMMA PlaceIs ==
  ASSUME NEW first \in Nat, NEW last \in Nat, first <= last, NEW j \in Nat, NEW k \in Nat
  PROVE  /\ j < k => Place(first, last, j) <= Place(first, last, k)
         /\ Place(first, last, j) < Place(first, last, k) => j < k
         /\ Place(first, last, j) = Place(first, last, k) => j = k \/ (j \in first..last /\ k \in first..last)
BY DEF Place

\* One schedule computes what the other does.
Same(ns, v) == Meaning(v) = Meaning(ns)

\* Nodes that become one still read what is defined.
LEMMA FuseDefined ==
  ASSUME NEW ns \in NodeSeq, NEW first \in DOMAIN ns, NEW last \in DOMAIN ns, first <= last,
         NEW level, NEW r, Fused(ns, first, last, level, r), Defined(ns)
  PROVE  Defined(r)
<1>1. DOMAIN ns \in SUBSET Nat
  BY ScheduleIs
<1> SUFFICES ASSUME NEW z \in DOMAIN r, NEW b \in Ins(r[z])
             PROVE  IF IsArg(b) THEN Producers(r, b) = {} ELSE \E i \in Producers(r, b) : i < z
  BY DEF Defined
<1>2. b \notin Outs(r[z])
  BY DEF Fused
<1>3. PICK j \in DOMAIN ns : Place(first, last, j) = z /\ b \in Ins(ns[j])
  BY DEF Fused
<1>4. CASE IsArg(b)
  <2>1. Producers(ns, b) = {}
    BY <1>3, <1>4 DEF Defined
  <2> QED BY <2>1, <1>4 DEF Producers, Fused
<1>5. CASE ~IsArg(b)
  <2>1. PICK i \in DOMAIN ns : b \in Outs(ns[i]) /\ i < j
    BY <1>3, <1>5 DEF Defined, Producers
  <2>2. PICK y : y = Place(first, last, i)
    OBVIOUS
  <2>3. y \in DOMAIN r /\ b \in Outs(r[y])
    BY <2>1, <2>2 DEF Fused
  <2>4. y <= z /\ y # z
    BY <1>1, <1>2, <1>3, <2>1, <2>2, <2>3, PlaceIs
  <2>5. y \in Nat /\ z \in Nat
    BY <2>3, ScheduleIs DEF Fused
  <2> QED BY <1>5, <2>3, <2>4, <2>5 DEF Producers
<1> QED BY <1>4, <1>5

\* A consumer that depends on a fused producer did so before.
LEMMA FuseConsumers ==
  ASSUME NEW ns \in NodeSeq, NEW first \in DOMAIN ns, NEW last \in DOMAIN ns, first <= last,
         NEW level, NEW r, Fused(ns, first, last, level, r),
         NEW z \in DOMAIN r, NEW b, NEW i \in DOMAIN ns, Place(first, last, i) = z
  PROVE  \A y \in DependentConsumers(r, b, z) :
           \E j \in DependentConsumers(ns, b, i) : Place(first, last, j) = y
<1> TAKE y \in DependentConsumers(r, b, z)
<1>1. y \in DOMAIN r /\ b \in Ins(r[y]) /\ y # z /\ (IsArg(b) => z < y)
  BY DEF DependentConsumers, Consumers
<1>2. PICK j \in DOMAIN ns : Place(first, last, j) = y /\ b \in Ins(ns[j])
  BY <1>1 DEF Fused
<1>3. j # i /\ (IsArg(b) => i < j)
  BY <1>1, <1>2, PlaceIs, ScheduleIs
<1> QED BY <1>2, <1>3 DEF DependentConsumers, Consumers

LEMMA FuseLevels ==
  ASSUME NEW ns \in NodeSeq, NEW first \in DOMAIN ns, NEW last \in DOMAIN ns, first <= last,
         NEW level \in Nat, NEW r, Fused(ns, first, last, level, r), AllLevelled(ns)
  PROVE  /\ AllLevelled(r)
         /\ Channels(ns) => Channels(r)
         /\ (\A k \in first..last : ns[k].level = level) =>
              /\ Downhill(ns) => Downhill(r)
              /\ NextDown(ns) => NextDown(r)
<1>1. \A z \in DOMAIN r : \A b \in Outs(r[z]) :
        \E i \in DOMAIN ns : Place(first, last, i) = z /\ b \in Outs(ns[i])
  BY DEF Fused
<1>2. AllLevelled(r)
  <2> SUFFICES ASSUME NEW z \in DOMAIN r PROVE r[z].level # NoLevel
    BY DEF AllLevelled
  <2>1. PICK k \in DOMAIN ns : Place(first, last, k) = z
    BY DEF Fused
  <2> QED BY <2>1 DEF Fused, AllLevelled, NoLevel
<1>3. ASSUME Channels(ns) PROVE Channels(r)
  <2> SUFFICES ASSUME NEW z \in DOMAIN r, NEW b \in Outs(r[z]) PROVE Single(r, b, z)
    BY SingleIs DEF Channels, Fused
  <2>1. PICK i \in DOMAIN ns : Place(first, last, i) = z /\ b \in Outs(ns[i])
    BY <1>1
  <2>2. Single(ns, b, i)
    BY <2>1, <1>3, SingleIs DEF Channels, AllLevelled
  <2>3. \A y \in DependentConsumers(r, b, z) : \E j \in DependentConsumers(ns, b, i) : Place(first, last, j) = y
    BY <2>1, FuseConsumers
  <2>4. \A y \in Producers(r, b) : \E j \in Producers(ns, b) : Place(first, last, j) = y
    BY DEF Producers, Fused
  <2> QED BY <2>2, <2>3, <2>4 DEF Single
<1>4. ASSUME \A k \in first..last : ns[k].level = level
      PROVE  \A k \in DOMAIN ns : r[Place(first, last, k)].level = ns[k].level
  BY <1>4 DEF Fused
<1>5. ASSUME \A k \in first..last : ns[k].level = level, Downhill(ns) PROVE Downhill(r)
  <2> SUFFICES ASSUME NEW z \in DOMAIN r, NEW b \in Outs(r[z]), NEW y \in DependentConsumers(r, b, z)
               PROVE  r[y].level # NoLevel /\ r[z].level > r[y].level
    BY DEF Downhill
  <2>1. PICK i \in DOMAIN ns : Place(first, last, i) = z /\ b \in Outs(ns[i])
    BY <1>1
  <2>2. PICK j \in DependentConsumers(ns, b, i) : Place(first, last, j) = y
    BY <2>1, FuseConsumers
  <2>3. j \in DOMAIN ns
    BY DEF DependentConsumers, Consumers
  <2> QED BY <1>4, <1>5, <2>1, <2>2, <2>3 DEF Downhill, AllLevelled
<1>6. ASSUME \A k \in first..last : ns[k].level = level, NextDown(ns) PROVE NextDown(r)
  <2> SUFFICES ASSUME NEW z \in DOMAIN r, NEW b \in Outs(r[z]), NEW y \in DependentConsumers(r, b, z), Carried(b)
               PROVE  r[z].level = r[y].level + 1
    BY DEF NextDown
  <2>1. PICK i \in DOMAIN ns : Place(first, last, i) = z /\ b \in Outs(ns[i])
    BY <1>1
  <2>2. PICK j \in DependentConsumers(ns, b, i) : Place(first, last, j) = y
    BY <2>1, FuseConsumers
  <2>3. j \in DOMAIN ns
    BY DEF DependentConsumers, Consumers
  <2> QED BY <1>4, <1>6, <2>1, <2>2, <2>3 DEF NextDown, AllLevelled
<1> QED BY <1>2, <1>3, <1>5, <1>6

LEMMA FuseNoLevels ==
  ASSUME NEW ns, NEW first, NEW last, NEW r, Fused(ns, first, last, NoLevel, r), NoLevels(ns)
  PROVE  NoLevels(r)
<1> SUFFICES ASSUME NEW z \in DOMAIN r PROVE r[z].level = NoLevel
  BY DEF NoLevels
<1>1. PICK k \in DOMAIN ns : Place(first, last, k) = z
  BY DEF Fused
<1> QED BY <1>1 DEF Fused, NoLevels

-----------------------------------------------------------------------------
(***************************************************************************)
(* Groups of nodes fused, the last in program order first.                 *)
(***************************************************************************)

Leading(T) == CHOOSE g \in T : \A h \in T : Max(g) <= Max(h)

Groups(ns, groups) ==
  /\ IsFiniteSet(groups)
  /\ \A g \in groups : g \in SUBSET DOMAIN ns /\ g # {} /\ Consecutive(g)
  /\ \A g, h \in groups : g # h => g \cap h = {}

\* A group is the interval from its least to its greatest member, and the leading
\* one is below the others.
LEMMA GroupIs ==
  ASSUME NEW ns \in NodeSeq, NEW groups, Groups(ns, groups), NEW g \in groups
  PROVE  /\ Min(g) \in g /\ Max(g) \in g /\ Min(g) <= Max(g)
         /\ Min(g) \in Nat /\ Max(g) \in Nat /\ g = Min(g)..Max(g)
<1>1. g \in SUBSET DOMAIN ns /\ g # {} /\ Consecutive(g)
  BY DEF Groups
<1>2. g \in SUBSET Nat /\ IsFiniteSet(g)
  BY <1>1, ScheduleIs, FS_Subset
<1>3. Min(g) \in g /\ Max(g) \in g /\ \A x \in g : Min(g) <= x
  BY <1>1, <1>2, MinIs, MaxIs
<1> QED BY <1>1, <1>2, <1>3, ConsecutiveIs

LEMMA LeadingIs ==
  ASSUME NEW ns \in NodeSeq, NEW groups, Groups(ns, groups), NEW T \in SUBSET groups, T # {}
  PROVE  /\ Leading(T) \in T
         /\ \A h \in T \ {Leading(T)} : \A x \in h : \A k \in Leading(T) : k < x
<1>1. \A g \in T : Max(g) \in Nat
  BY GroupIs
<1>2. \E g \in T : \A h \in T : Max(g) <= Max(h)
  <2> DEFINE M == {Max(g) : g \in T}
  <2>1. M \in SUBSET Nat /\ M # {}
    BY <1>1
  <2>2. PICK m \in M : \A n \in M : m <= n
    BY <2>1, LeastElement
  <2> QED BY <2>2
<1>3. PICK g : g = Leading(T)
  OBVIOUS
<1>4. g \in T /\ \A h \in T : Max(g) <= Max(h)
  BY <1>2, <1>3 DEF Leading
<1>5. ASSUME NEW h \in T \ {g}, NEW x \in h, NEW k \in g PROVE k < x
  <2>1. g = Min(g)..Max(g) /\ Max(g) \in g /\ Max(g) \in Nat /\ Min(g) \in Nat
    BY <1>4, GroupIs
  <2>2. h = Min(h)..Max(h) /\ Max(h) \in Nat /\ Min(h) \in Nat
    BY GroupIs
  <2>3. g \cap h = {}
    BY <1>4 DEF Groups
  <2>4. k <= Max(g) /\ Max(g) <= Max(h) /\ Max(g) \notin h /\ k \in Nat /\ x \in Nat /\ Min(h) <= x
    BY <1>4, <2>1, <2>2, <2>3
  <2>5. Max(g) < Min(h)
    BY <2>1, <2>2, <2>4
  <2> QED BY <2>1, <2>2, <2>4, <2>5
<1> QED BY <1>3, <1>4, <1>5

\* What is true of a schedule and of that with groups of its nodes fused.
SameLevel(ns, groups, level) == \A g \in groups : \A k \in g : ns[k].level = level[g]

Kept(ns, groups, level, v) ==
  /\ AllLevelled(v) /\ Channels(v) /\ Defined(v) /\ Same(ns, v)
  /\ SameLevel(ns, groups, level) => (Downhill(ns) => Downhill(v)) /\ (NextDown(ns) => NextDown(v))

\* The nodes below the groups still to be fused are as they were.
Below(ns, T, v) == \A k \in DOMAIN ns : (\A g \in T : \A x \in g : k < x) => k \in DOMAIN v /\ v[k] = ns[k]

LEMMA FuseGroupStep ==
  ASSUME NEW ns \in NodeSeq, NEW groups, Groups(ns, groups), NEW level \in [groups -> Nat],
         NEW T \in SUBSET groups, NEW g, g = Leading(T), T # {},
         NEW v \in NodeSeq, Kept(ns, groups, level, v), Below(ns, T \ {g}, v)
  PROVE  /\ Fuse(v, Min(g), Max(g), level[g]) \in NodeSeq
         /\ Kept(ns, groups, level, Fuse(v, Min(g), Max(g), level[g]))
         /\ Below(ns, T, Fuse(v, Min(g), Max(g), level[g]))
<1>1. g \in T /\ g \in groups /\ \A h \in T \ {g} : \A x \in h : \A k \in g : k < x
  BY LeadingIs
<1>2. PICK lo, hi, l : lo = Min(g) /\ hi = Max(g) /\ l = level[g]
  OBVIOUS
<1>3. lo \in Nat /\ hi \in Nat /\ lo <= hi /\ g = lo..hi /\ lo \in g /\ hi \in g /\ l \in Nat
  BY <1>1, <1>2, GroupIs
<1>4. g \in SUBSET DOMAIN ns
  BY <1>1 DEF Groups
<1>5. \A k \in g : k \in DOMAIN v /\ v[k] = ns[k]
  BY <1>1, <1>4 DEF Below
<1>6. lo \in DOMAIN v /\ hi \in DOMAIN v
  BY <1>3, <1>5
<1>7. PICK r : r = Fuse(v, lo, hi, l)
  OBVIOUS
<1>8. Fused(v, lo, hi, l, r) /\ FuseBodies(v, lo, hi, r)
  BY <1>3, <1>6, <1>7, FuseIs
<1>9. r \in NodeSeq
  BY <1>8 DEF Fused
<1>10. Defined(r)
  BY <1>3, <1>6, <1>8, FuseDefined DEF Kept
<1>11. /\ AllLevelled(r)
       /\ Channels(v) => Channels(r)
       /\ (\A k \in lo..hi : v[k].level = l) => (Downhill(v) => Downhill(r)) /\ (NextDown(v) => NextDown(r))
  BY <1>3, <1>6, <1>8, FuseLevels DEF Kept
<1>12. ASSUME SameLevel(ns, groups, level), NEW k \in lo..hi PROVE v[k].level = l
  <2>1. k \in g
    BY <1>3
  <2>2. ns[k].level = l
    BY <1>1, <1>2, <1>12, <2>1 DEF SameLevel
  <2> QED BY <1>5, <2>1, <2>2
<1>15. Same(ns, r)
  <2>1. Meaning(r) = Meaning(v)
    BY <1>3, <1>6, <1>8, FuseMeans
  <2> QED BY <2>1 DEF Kept, Same
<1>13. Kept(ns, groups, level, r)
  BY <1>10, <1>11, <1>12, <1>15 DEF Kept
<1>14. Below(ns, T, r)
  <2> SUFFICES ASSUME NEW k \in DOMAIN ns, \A h \in T : \A x \in h : k < x PROVE k \in DOMAIN r /\ r[k] = ns[k]
    BY DEF Below
  <2>1. k \in Nat /\ k >= 1
    BY ScheduleIs
  <2>2. k \in 1..(lo - 1)
    BY <1>1, <1>3, <2>1
  <2>3. k \in DOMAIN v /\ v[k] = ns[k]
    BY DEF Below
  <2> QED BY <1>8, <2>2, <2>3 DEF Fused
<1> QED BY <1>2, <1>7, <1>9, <1>13, <1>14

LEMMA FuseGroupsKeep ==
  ASSUME NEW ns \in NodeSeq, AllLevelled(ns), Channels(ns), Defined(ns),
         NEW groups, Groups(ns, groups), NEW level \in [groups -> Nat]
  PROVE  FuseGroups(ns, groups, level) \in NodeSeq /\ Kept(ns, groups, level, FuseGroups(ns, groups, level))
<1> DEFINE Into(iter) == iter = [T \in SUBSET groups |->
               IF T = {} THEN ns
               ELSE Fuse(iter[T \ {Leading(T)}], Min(Leading(T)), Max(Leading(T)), level[Leading(T)])]
<1>1. FuseGroups(ns, groups, level) = (CHOOSE iter : Into(iter))[groups]
  BY DEF FuseGroups, MapThenFoldSet, Leading
<1>2. PICK pick : pick = [T \in SUBSET groups |-> Leading(T)]
  OBVIOUS
<1>3. \A T \in SUBSET groups : T # {} => pick[T] \in T /\ pick[T] = Leading(T)
  BY <1>2, LeadingIs
<1>4. PICK h : h = [T \in SUBSET groups |->
                     [v \in NodeSeq |-> Fuse(v, Min(Leading(T)), Max(Leading(T)), level[Leading(T)])]]
  OBVIOUS
<1>5. PICK I : I = [T \in SUBSET groups |-> {v \in NodeSeq : Kept(ns, groups, level, v) /\ Below(ns, T, v)}]
  OBVIOUS
<1>6. \A T \in SUBSET groups : \A v : v \in I[T] <=> v \in NodeSeq /\ Kept(ns, groups, level, v) /\ Below(ns, T, v)
  BY <1>5
<1>7. IsFiniteSet(groups)
  BY DEF Groups
<1>8. ns \in I[{}]
  BY <1>6 DEF Kept, Below, Same
<1>9. ASSUME NEW T \in SUBSET groups, T # {}, NEW v \in I[T \ {pick[T]}]
      PROVE  /\ v \in NodeSeq
             /\ Fuse(v, Min(Leading(T)), Max(Leading(T)), level[Leading(T)]) \in I[T]
  <2>1. v \in NodeSeq /\ Kept(ns, groups, level, v) /\ Below(ns, T \ {Leading(T)}, v)
    BY <1>3, <1>6, <1>9
  <2> QED BY <1>6, <1>9, <2>1, FuseGroupStep
<1>10. \A T \in SUBSET groups : T # {} => \A v \in I[T \ {pick[T]}] : h[T][v] \in I[T]
  BY <1>4, <1>9
<1>11. PICK it : Recursion(groups, ns, h, pick, it) /\ \A T \in SUBSET groups : it[T] \in I[T]
  BY <1>3, <1>7, <1>8, <1>10, RecursionAllowed
<1>12. Into(it)
  <2>1. it = [T \in SUBSET groups |-> IF T = {} THEN ns ELSE h[T][it[T \ {pick[T]}]]]
    BY <1>11 DEF Recursion
  <2>2. \A T \in SUBSET groups : T # {} =>
           h[T][it[T \ {pick[T]}]] = Fuse(it[T \ {Leading(T)}], Min(Leading(T)), Max(Leading(T)), level[Leading(T)])
    BY <1>3, <1>4, <1>9, <1>11
  <2> QED BY <2>1, <2>2
<1>13. PICK f : f = CHOOSE iter : Into(iter)
  OBVIOUS
<1>14. Into(f)
  BY <1>12, <1>13
<1>15. FuseGroups(ns, groups, level) = f[groups]
  BY <1>1, <1>13
<1>16. f[{}] \in I[{}]
  BY <1>8, <1>14
<1>17. \A T \in SUBSET groups : T # {} /\ f[T \ {pick[T]}] \in I[T \ {pick[T]}] => f[T] \in I[T]
  <2> TAKE T \in SUBSET groups
  <2> HAVE T # {} /\ f[T \ {pick[T]}] \in I[T \ {pick[T]}]
  <2>1. f[T] = Fuse(f[T \ {Leading(T)}], Min(Leading(T)), Max(Leading(T)), level[Leading(T)])
    BY <1>14
  <2>2. pick[T] = Leading(T)
    BY <1>3
  <2> QED BY <1>9, <2>1, <2>2
<1> HIDE DEF Into
<1>18. \A T \in SUBSET groups : f[T] \in I[T]
  BY <1>3, <1>7, <1>16, <1>17, RecursionStays
<1> QED BY <1>6, <1>15, <1>18

-----------------------------------------------------------------------------
(***************************************************************************)
(* The groups of LegalizeDataflow.                                         *)
(***************************************************************************)

LEMMA FusableIs ==
  ASSUME NEW g, IsFiniteSet(g), Fusable(g)
  PROVE  g # {} /\ Consecutive(g)
BY FS_EmptySet DEF Fusable

LEMMA FiniteGroups ==
  ASSUME NEW ns \in NodeSeq, NEW groups \in SUBSET SUBSET DOMAIN ns
  PROVE  IsFiniteSet(groups) /\ \A g \in groups : IsFiniteSet(g)
<1>1. IsFiniteSet(DOMAIN ns)
  BY ScheduleIs
<1>2. IsFiniteSet(SUBSET DOMAIN ns)
  BY <1>1, FS_SUBSET
<1> QED BY <1>1, <1>2, FS_Subset

\* Nodes of a level that share inputs, directly or over others, are in one set.
Closed(ns, level, S) == \A j \in S : \A k \in level : Ins(ns[j]) \cap Ins(ns[k]) # {} => k \in S

LEMMA SharingIs ==
  ASSUME NEW ns, NEW i \in DOMAIN ns, NEW level, level = AtLevel(ns, ns[i].level)
  PROVE  /\ i \in level /\ i \in SharingInputs(ns, i) /\ SharingInputs(ns, i) \subseteq level
         /\ Closed(ns, level, SharingInputs(ns, i))
         /\ \A S \in SUBSET level : i \in S /\ Closed(ns, level, S) => SharingInputs(ns, i) \subseteq S
<1>1. i \in level
  BY DEF AtLevel
<1>2. SharingInputs(ns, i) = {j \in level : \A S \in SUBSET level : i \in S /\ Closed(ns, level, S) => j \in S}
  BY DEF SharingInputs, Closed
<1>3. Closed(ns, level, SharingInputs(ns, i))
  <2> SUFFICES ASSUME NEW j \in SharingInputs(ns, i), NEW k \in level, Ins(ns[j]) \cap Ins(ns[k]) # {},
                      NEW S \in SUBSET level, i \in S, Closed(ns, level, S)
               PROVE  k \in S
    BY <1>2 DEF Closed
  <2>1. j \in S
    BY <1>2
  <2> QED BY <2>1 DEF Closed
<1> QED BY <1>1, <1>2, <1>3

LEMMA SharingSame ==
  ASSUME NEW ns, NEW i \in DOMAIN ns, NEW k \in SharingInputs(ns, i)
  PROVE  k \in DOMAIN ns /\ SharingInputs(ns, k) = SharingInputs(ns, i)
<1>1. PICK level : level = AtLevel(ns, ns[i].level)
  OBVIOUS
<1>2. /\ i \in level /\ i \in SharingInputs(ns, i) /\ SharingInputs(ns, i) \subseteq level
      /\ Closed(ns, level, SharingInputs(ns, i))
      /\ \A S \in SUBSET level : i \in S /\ Closed(ns, level, S) => SharingInputs(ns, i) \subseteq S
  BY <1>1, SharingIs
<1>3. k \in DOMAIN ns /\ level = AtLevel(ns, ns[k].level)
  BY <1>1, <1>2 DEF AtLevel
<1>4. /\ k \in SharingInputs(ns, k) /\ SharingInputs(ns, k) \subseteq level
      /\ Closed(ns, level, SharingInputs(ns, k))
      /\ \A S \in SUBSET level : k \in S /\ Closed(ns, level, S) => SharingInputs(ns, k) \subseteq S
  BY <1>3, SharingIs
<1>5. SharingInputs(ns, k) \subseteq SharingInputs(ns, i)
  BY <1>2, <1>4
<1>6. i \in SharingInputs(ns, k)
  <2> SUFFICES ASSUME i \notin SharingInputs(ns, k) PROVE FALSE
    OBVIOUS
  <2>1. PICK R : R = SharingInputs(ns, i) \ SharingInputs(ns, k)
    OBVIOUS
  <2>2. Closed(ns, level, R)
    <3> SUFFICES ASSUME NEW j \in R, NEW m \in level, Ins(ns[j]) \cap Ins(ns[m]) # {} PROVE m \in R
      BY DEF Closed
    <3>1. m \in SharingInputs(ns, i)
      BY <1>2, <2>1 DEF Closed
    <3>2. ASSUME m \in SharingInputs(ns, k) PROVE FALSE
      <4>1. j \in level /\ Ins(ns[m]) \cap Ins(ns[j]) # {}
        BY <1>2, <2>1
      <4>2. j \in SharingInputs(ns, k)
        BY <1>4, <3>2, <4>1 DEF Closed
      <4> QED BY <2>1, <4>2
    <3> QED BY <2>1, <3>1, <3>2
  <2>3. R \in SUBSET level /\ i \in R
    BY <1>2, <2>1
  <2>4. SharingInputs(ns, i) \subseteq R
    BY <1>2, <2>2, <2>3
  <2> QED BY <1>4, <2>1, <2>4
<1>7. SharingInputs(ns, i) \subseteq SharingInputs(ns, k)
  BY <1>2, <1>4, <1>6
<1> QED BY <1>3, <1>5, <1>7

LEMMA MultiConsumerIs ==
  ASSUME NEW ns \in NodeSeq, AllLevelled(ns), NEW groups, groups = MultiConsumerGroups(ns)
  PROVE  /\ Groups(ns, groups)
         /\ [g \in groups |-> ns[Min(g)].level] \in [groups -> Nat]
         /\ SameLevel(ns, groups, [g \in groups |-> ns[Min(g)].level])
<1>1. \A g \in groups : Fusable(g) /\ \E i \in DOMAIN ns : g = SharingInputs(ns, i)
  BY DEF MultiConsumerGroups
<1>2. \A g \in groups : g \in SUBSET DOMAIN ns
  <2> TAKE g \in groups
  <2>1. PICK i \in DOMAIN ns : g = SharingInputs(ns, i)
    BY <1>1
  <2>2. g \subseteq AtLevel(ns, ns[i].level)
    BY <2>1, SharingIs
  <2> QED BY <2>2 DEF AtLevel
<1>3. IsFiniteSet(groups) /\ \A g \in groups : IsFiniteSet(g)
  BY <1>2, FiniteGroups
<1>4. \A g, h \in groups : g # h => g \cap h = {}
  BY <1>1, SharingSame
<1>5. Groups(ns, groups)
  BY <1>1, <1>2, <1>3, <1>4, FusableIs DEF Groups
<1>6. \A g \in groups : Min(g) \in g
  BY <1>5, GroupIs
<1>7. \A g \in groups : ns[Min(g)].level \in Nat
  <2> TAKE g \in groups
  <2>1. Min(g) \in DOMAIN ns
    BY <1>2, <1>6
  <2> QED BY <2>1, ScheduleIs, NodeIs DEF AllLevelled
<1>8. \A g \in groups : \A k \in g : ns[k].level = ns[Min(g)].level
  <2> TAKE g \in groups
  <2>1. PICK i \in DOMAIN ns : g = SharingInputs(ns, i)
    BY <1>1
  <2>2. g \subseteq AtLevel(ns, ns[i].level)
    BY <2>1, SharingIs
  <2> QED BY <1>6, <2>2 DEF AtLevel
<1> QED BY <1>5, <1>7, <1>8 DEF SameLevel

\* Sets of levels merged for different starts have no level in common.
LEMMA LevelGroupsIs ==
  ASSUME NEW E \in SUBSET (Nat \X Nat)
  PROVE  /\ E = {} => LevelGroups[E] = {}
         /\ \A p, q \in LevelGroups[E] : p # q => p \cap q = {}
<1> DEFINE starts == {e[1] : e \in E}
           Reach(l) == Max({m \in 0..l : \A e \in E : e[1] \in m..l => e[2] >= m})..(l - 1)
           Merged(l) == UNION {Reach(k) : k \in {m \in starts : m > l}}
<1>1. LevelGroups[E] = {Reach(l) \ Merged(l) : l \in {m \in starts : m \notin Merged(m)}}
  BY DEF LevelGroups
<1>2. starts \in SUBSET Nat
  OBVIOUS
<1> HIDE DEF Reach, starts
<1>3. ASSUME NEW l \in starts, NEW k \in starts, l < k PROVE (Reach(l) \ Merged(l)) \cap Reach(k) = {}
  <2>1. Reach(k) \subseteq Merged(l)
    BY <1>3
  <2> QED BY <2>1
<1>4. ASSUME E = {} PROVE LevelGroups[E] = {}
  BY <1>1, <1>4 DEF starts
<1> HIDE DEF Merged
<1>5. ASSUME NEW p \in LevelGroups[E], NEW q \in LevelGroups[E], p # q PROVE p \cap q = {}
  <2>1. PICK l \in starts : p = Reach(l) \ Merged(l)
    BY <1>1
  <2>2. PICK k \in starts : q = Reach(k) \ Merged(k)
    BY <1>1
  <2>3. l \in Nat /\ k \in Nat /\ l # k
    BY <1>2, <1>5, <2>1, <2>2
  <2>4. CASE l < k
    BY <1>3, <2>1, <2>2, <2>4
  <2>5. CASE k < l
    BY <1>3, <2>1, <2>2, <2>5
  <2> QED BY <2>3, <2>4, <2>5
<1> QED BY <1>4, <1>5

LEMMA BypassIs ==
  ASSUME NEW ns \in NodeSeq, NEW groups, groups = BypassGroups(ns)
  PROVE  Groups(ns, groups)
<1>1. CASE ~AllLevelled(ns)
  <2>1. groups = {}
    BY <1>1 DEF BypassGroups
  <2> QED BY <2>1, FS_EmptySet DEF Groups
<1>2. CASE AllLevelled(ns)
  <2>1. PICK E : E = Bypasses(ns)
    OBVIOUS
  <2>2. E \in SUBSET (Nat \X Nat)
    <3>1. \A i \in DOMAIN ns : ns[i].level \in Nat
      BY <1>2, ScheduleIs, NodeIs DEF AllLevelled
    <3>2. \A i \in DOMAIN ns : \A b : Far(ns, b, i) \subseteq DOMAIN ns
      BY DEF Far, DependentConsumers, Consumers
    <3> QED BY <2>1, <3>1, <3>2 DEF Bypasses
  <2>3. \A p, q \in LevelGroups[E] : p # q => p \cap q = {}
    BY <2>2, LevelGroupsIs
  <2>4. \A g \in groups : Fusable(g) /\ \E p \in LevelGroups[E] : g = UNION {AtLevel(ns, l) : l \in p}
    BY <1>2, <2>1 DEF BypassGroups
  <2>5. \A g \in groups : g \in SUBSET DOMAIN ns
    BY <2>4 DEF AtLevel
  <2>6. IsFiniteSet(groups) /\ \A g \in groups : IsFiniteSet(g)
    BY <2>5, FiniteGroups
  <2>7. \A g, h \in groups : g # h => g \cap h = {}
    <3> SUFFICES ASSUME NEW g \in groups, NEW h \in groups, g # h, NEW x \in g, x \in h PROVE FALSE
      OBVIOUS
    <3>1. PICK p \in LevelGroups[E] : g = UNION {AtLevel(ns, l) : l \in p}
      BY <2>4
    <3>2. PICK q \in LevelGroups[E] : h = UNION {AtLevel(ns, l) : l \in q}
      BY <2>4
    <3>3. ns[x].level \in p
      BY <3>1 DEF AtLevel
    <3>4. ns[x].level \in q
      BY <3>2 DEF AtLevel
    <3> QED BY <2>3, <3>1, <3>2, <3>3, <3>4
  <2> QED BY <2>4, <2>5, <2>6, <2>7, FusableIs DEF Groups
<1> QED BY <1>1, <1>2

\* In a balanced schedule no path is bypassed.
LEMMA NoBypass ==
  ASSUME NEW ns \in NodeSeq, NextDown(ns)
  PROVE  BypassGroups(ns) = {}
<1>1. ASSUME NEW i \in DOMAIN ns, NEW b \in Outs(ns[i]), Carried(b) PROVE Far(ns, b, i) = {}
  <2> SUFFICES ASSUME NEW j \in Far(ns, b, i) PROVE FALSE
    OBVIOUS
  <2>1. /\ j \in DependentConsumers(ns, b, i) /\ j \in DOMAIN ns
        /\ ns[i].level # NoLevel /\ ns[j].level # NoLevel /\ ns[i].level - ns[j].level > 1
    BY DEF Far, DependentConsumers, Consumers
  <2>2. ns[i].level = ns[j].level + 1
    BY <1>1, <2>1 DEF NextDown
  <2>3. ns[i].level \in Nat /\ ns[j].level \in Nat
    BY <2>1, ScheduleIs, NodeIs
  <2> QED BY <2>1, <2>2, <2>3
<1>2. Bypasses(ns) = {}
  BY <1>1 DEF Bypasses
<1>3. LevelGroups[Bypasses(ns)] = {}
  BY <1>2, LevelGroupsIs
<1> QED BY <1>3 DEF BypassGroups

-----------------------------------------------------------------------------
(***************************************************************************)
(* Copies.                                                                 *)
(***************************************************************************)

LEMMA OneIs ==
  ASSUME NEW A, NEW x \in A
  PROVE  <<x>> \in Seq(A) /\ Len(<<x>>) = 1 /\ <<x>>[1] = x /\ DOMAIN <<x>> = 1..1
OBVIOUS

LEMMA CopyIs ==
  ASSUME NEW b \in Buffer, NEW c \in Buffer
  PROVE  Copy(b, c) \in Statement /\ Copy(b, c).to = c /\ Reads(Copy(b, c)) = {b}
<1>1. PICK s : s = Copy(b, c)
  OBVIOUS
<1>2. s = [op |-> "copy", reads |-> <<b>>, to |-> c, how |-> "fill"]
  BY <1>1 DEF Copy
<1>3. s \in Statement
  <2>1. PICK rs : rs = <<b>>
    OBVIOUS
  <2>2. rs \in Seq(STRING \X Nat) /\ c \in STRING \X Nat
    BY <2>1, OneIs DEF Buffer
  <2>3. s = [op |-> "copy", reads |-> rs, to |-> c, how |-> "fill"]
    BY <1>2, <2>1
  <2> QED BY <2>2, <2>3 DEF Statement
<1>4. s.to = c /\ s.reads = <<b>> /\ s.how = "fill"
  BY <1>2
<1>5. ToSet(<<b>>) = {b}
  BY DEF ToSet
<1>6. Reads(s) = {b}
  BY <1>4, <1>5 DEF Reads
<1> QED BY <1>1, <1>3, <1>4, <1>6

\* Copies from the x[k] to the y[k], and the node of them.
Copies(n, x, y, body) == body \in [1..n -> Statement] /\ \A k \in 1..n : body[k] = Copy(x[k], y[k])

Moves(n, x, y, m) == \A z : /\ z \in Outs(m) <=> \E k \in 1..n : z = y[k]
                            /\ z \in Used(m) <=> \E k \in 1..n : z = x[k]

LEMMA CopiesIs ==
  ASSUME NEW n \in Nat, NEW x, NEW y, \A k \in 1..n : x[k] \in Buffer /\ y[k] \in Buffer,
         NEW body, Copies(n, x, y, body), NEW level \in Nat \cup {NoLevel}
  PROVE  /\ Node(body, level) \in NodeSet /\ Node(body, level).level = level
         /\ Moves(n, x, y, Node(body, level))
<1>1. PICK m : m = Node(body, level)
  OBVIOUS
<1>2. \A k \in 1..n : body[k].to = y[k] /\ Reads(body[k]) = {x[k]}
  BY CopyIs DEF Copies
<1>3. DOMAIN body = 1..n /\ body \in Seq(Statement)
  BY DEF Copies
<1>4. m = [body |-> body, level |-> level]
  BY <1>1 DEF Node
<1>5. m \in NodeSet /\ m.level = level /\ m.body = body
  BY <1>3, <1>4 DEF NodeSet
<1>6. \A z : z \in Outs(m) <=> \E k \in 1..n : z = y[k]
  BY <1>2, <1>3, <1>5 DEF Outs
<1>7. \A z : z \in Used(m) <=> \E k \in 1..n : z = x[k]
  <2>1. \A z : z \in Used(m) <=> \E k \in 1..n : z \in Reads(body[k])
    BY <1>3, <1>5 DEF Used
  <2> QED BY <1>2, <2>1
<1> QED BY <1>1, <1>5, <1>6, <1>7 DEF Moves

LEMMA OneCopyIs ==
  ASSUME NEW b \in Buffer, NEW c \in Buffer, b # c, NEW level \in Nat \cup {NoLevel}
  PROVE  /\ Node(<<Copy(b, c)>>, level) \in NodeSet /\ Node(<<Copy(b, c)>>, level).level = level
         /\ Outs(Node(<<Copy(b, c)>>, level)) = {c} /\ Ins(Node(<<Copy(b, c)>>, level)) = {b}
<1>1. PICK n, x, y, body : n = 1 /\ x = [k \in 1..n |-> b] /\ y = [k \in 1..n |-> c] /\ body = <<Copy(b, c)>>
  OBVIOUS
<1>2. Copy(b, c) \in Statement
  BY CopyIs
<1>3. n \in Nat /\ \A k \in 1..n : x[k] \in Buffer /\ y[k] \in Buffer
  BY <1>1
<1>4. Copies(n, x, y, body)
  BY <1>1, <1>2 DEF Copies
<1>5. PICK m : m = Node(body, level)
  OBVIOUS
<1>6. m \in NodeSet /\ m.level = level /\ Moves(n, x, y, m)
  BY <1>3, <1>4, <1>5, CopiesIs
<1>7. \A z : /\ z \in Outs(m) <=> z = c
             /\ z \in Used(m) <=> z = b
  BY <1>1, <1>6 DEF Moves
<1>8. Outs(m) = {c} /\ Used(m) = {b}
  BY <1>7
<1>9. Ins(m) = {b}
  BY <1>6, <1>8, Operands
<1> QED BY <1>1, <1>5, <1>6, <1>8, <1>9

LEMMA CopyEffect ==
  ASSUME NEW M, NEW x, NEW y, y \in DOMAIN M
  PROVE  /\ DOMAIN Effect(M, Copy(x, y)) = DOMAIN M /\ Effect(M, Copy(x, y))[y] = M[x]
         /\ \A z \in DOMAIN M : z # y => Effect(M, Copy(x, y))[z] = M[z]
<1>1. PICK s, rs : s = Copy(x, y) /\ rs = <<x>>
  OBVIOUS
<1>2. s.op = "copy" /\ s.to = y /\ s.reads = rs
  BY <1>1 DEF Copy
<1>3. PICK args : args = [k \in DOMAIN s.reads |-> M[s.reads[k]]]
  OBVIOUS
<1>4. args[1] = M[x]
  <2>1. DOMAIN rs = 1..1 /\ rs[1] = x
    BY <1>1
  <2>2. 1 \in DOMAIN s.reads /\ s.reads[1] = x
    BY <1>2, <2>1
  <2> QED BY <1>3, <2>2
<1>5. Effect(M, s) = [M EXCEPT ![y] = args[1]]
  BY <1>2, <1>3 DEF Effect
<1>6. PICK N : N = Effect(M, s)
  OBVIOUS
<1>7. N = [M EXCEPT ![y] = args[1]]
  BY <1>5, <1>6
<1>8. DOMAIN N = DOMAIN M /\ N[y] = M[x] /\ \A z \in DOMAIN M : z # y => N[z] = M[z]
  BY <1>4, <1>7
<1> QED BY <1>1, <1>6, <1>8

LEMMA OneCopyGoes ==
  ASSUME NEW M, NEW N, NEW x, NEW y, y \in DOMAIN M, Goes(<<Copy(x, y)>>, M, N)
  PROVE  /\ DOMAIN N = DOMAIN M /\ N[y] = M[x]
         /\ \A z \in DOMAIN M : z # y => N[z] = M[z]
<1>1. PICK W, n : W = <<Copy(x, y)>> /\ n = 1
  OBVIOUS
<1>2. Len(W) = n /\ W[n] = Copy(x, y) /\ n \in 1..n /\ n - 1 = 0
  BY <1>1
<1>3. PICK F : Folds(W, M, F) /\ N = F[Len(W)]
  BY <1>1 DEF Goes
<1>4. F[n] = Effect(F[n - 1], W[n]) /\ F[0] = M
  BY <1>2, <1>3 DEF Folds
<1>5. N = Effect(M, Copy(x, y))
  BY <1>2, <1>3, <1>4
<1> QED BY <1>5, CopyEffect

\* Copies into buffers none of which is copied.
Apart(n, x, y, V) ==
  /\ \A k \in 1..n : y[k] \in V /\ x[k] \in V
  /\ \A j, k \in 1..n : y[j] # x[k] /\ (y[j] = y[k] => j = k)

LEMMA CopiesGo ==
  ASSUME NEW n \in Nat, NEW x, NEW y, NEW W, Copies(n, x, y, W), NEW M, Apart(n, x, y, DOMAIN M), NEW N, Goes(W, M, N)
  PROVE  /\ \A k \in 1..n : N[y[k]] = M[x[k]]
         /\ \A z \in DOMAIN M : (\A k \in 1..n : z # y[k]) => N[z] = M[z]
<1>1. Len(W) = n /\ \A k \in 1..n : W[k] = Copy(x[k], y[k])
  BY DEF Copies
<1>2. PICK F : Folds(W, M, F) /\ N = F[Len(W)]
  BY DEF Goes
<1>3. PICK V : V = DOMAIN M
  OBVIOUS
<1> DEFINE P(l) == /\ DOMAIN F[l] = V
                   /\ \A k \in 1..n : k <= l => F[l][y[k]] = M[x[k]]
                   /\ \A z \in V : (\A k \in 1..n : z # y[k]) => F[l][z] = M[z]
           K == {l \in Nat : l <= n => P(l)}
<1>4. 0 \in K
  <2>1. F[0] = M
    BY <1>2 DEF Folds
  <2> QED BY <1>3, <2>1
<1>5. ASSUME NEW l \in Nat, l \in K PROVE l + 1 \in K
  <2> SUFFICES ASSUME l + 1 <= n PROVE P(l + 1)
    OBVIOUS
  <2>1. PICK m : m = l + 1
    OBVIOUS
  <2>2. m \in 1..n /\ m - 1 = l /\ P(l)
    BY <1>5, <2>1
  <2>3. F[m] = Effect(F[l], Copy(x[m], y[m]))
    BY <1>1, <1>2, <2>2 DEF Folds
  <2>4. x[m] \in V /\ y[m] \in V /\ y[m] \in DOMAIN F[l]
    BY <1>3, <2>2 DEF Apart
  <2>5. DOMAIN F[m] = V /\ F[m][y[m]] = F[l][x[m]] /\ \A z \in V : z # y[m] => F[m][z] = F[l][z]
    BY <2>2, <2>3, <2>4, CopyEffect
  <2>6. \A z \in V : (\A k \in 1..n : z # y[k]) => F[m][z] = M[z]
    BY <2>2, <2>5
  <2>7. ASSUME NEW k \in 1..n, k <= m PROVE F[m][y[k]] = M[x[k]]
    <3>1. CASE k = m
      <4>1. \A j \in 1..n : x[m] # y[j]
        BY <2>2 DEF Apart
      <4>2. F[l][x[m]] = M[x[m]]
        BY <2>2, <2>4, <4>1
      <4> QED BY <2>5, <3>1, <4>2
    <3>2. CASE k # m
      <4>1. k <= l /\ y[k] # y[m] /\ y[k] \in V
        BY <1>3, <2>1, <2>2, <2>7, <3>2 DEF Apart
      <4> QED BY <2>2, <2>5, <4>1
    <3> QED BY <3>1, <3>2
  <2> QED BY <2>1, <2>5, <2>6, <2>7
<1> HIDE DEF K, P
<1>6. Nat \subseteq K
  BY <1>4, <1>5, Counting
<1>7. P(n)
  BY <1>6 DEF K
<1> QED BY <1>1, <1>2, <1>3, <1>7 DEF P

-----------------------------------------------------------------------------
(***************************************************************************)
(* A chain of copies after node i.                                         *)
(***************************************************************************)

\* A chain of n copies from b to held[n + 1], which node j reads instead.
Chained(ns, b, i, j, n, held, r) ==
  /\ r \in NodeSeq
  /\ \A k \in DOMAIN ns : /\ Behind(i, n, k) \in DOMAIN r
                          /\ r[Behind(i, n, k)].level = ns[k].level
                          /\ Outs(r[Behind(i, n, k)]) = Outs(ns[k])
                          /\ k # j => Ins(r[Behind(i, n, k)]) = Ins(ns[k])
  /\ Ins(r[Behind(i, n, j)]) = (Ins(ns[j]) \ {b}) \cup {held[n + 1]}
  /\ \A d \in 1..n : /\ i + d \in DOMAIN r /\ r[i + d].level = ns[i].level - d
                     /\ Outs(r[i + d]) = {held[d + 1]} /\ Ins(r[i + d]) = {held[d]}
  /\ \A z \in DOMAIN r : (\E k \in DOMAIN ns : z = Behind(i, n, k)) \/ (\E d \in 1..n : z = i + d)

Held(ns, b, n, held) ==
  /\ held[1] = b
  /\ \A d \in 2..(n + 1) : held[d] \in Buffer \ Buffers(ns) /\ ~IsArg(held[d]) /\ held[d][1] = b[1] /\ held[d][2] # 0
  /\ \A c, d \in 1..(n + 1) : held[c] = held[d] => c = d

\* Node j is the one that reads b and is too far below.
FarReader(ns, b, i, j) ==
  /\ i \in DOMAIN ns /\ b \in Outs(ns[i]) /\ ns[i].level \in Nat
  /\ j \in DOMAIN ns /\ b \in Ins(ns[j]) /\ ns[j].level \in Nat
  /\ ns[i].level - ns[j].level > 1 /\ i < j
  /\ Producers(ns, b) = {i} /\ DependentConsumers(ns, b, i) = {j}
  /\ Carried(b) /\ b \in Buffer

LEMMA FarReaderIs ==
  ASSUME NEW ns \in NodeSeq, Channels(ns), Downhill(ns), Defined(ns),
         NEW i \in DOMAIN ns, NEW b \in Outs(ns[i]), Carried(b), Far(ns, b, i) # {}
  PROVE  \E j : FarReader(ns, b, i, j) /\ Far(ns, b, i) = {j}
<1>1. PICK j \in Far(ns, b, i) : TRUE
  OBVIOUS
<1>2. /\ j \in DependentConsumers(ns, b, i) /\ ns[i].level # NoLevel /\ ns[j].level # NoLevel
      /\ ns[i].level - ns[j].level > 1
  BY DEF Far
<1>3. j \in DOMAIN ns /\ b \in Ins(ns[j])
  BY <1>2 DEF DependentConsumers, Consumers
<1>4. Single(ns, b, i)
  BY <1>2, SingleIs DEF Channels
<1>5. DependentConsumers(ns, b, i) = {j}
  BY <1>2, <1>4 DEF Single, Carried
<1>6. Producers(ns, b) = {i}
  <2>1. i \in Producers(ns, b)
    BY DEF Producers
  <2> QED BY <1>4, <2>1 DEF Single, Carried
<1>7. i < j
  BY <1>3, <1>6 DEF Defined, Carried
<1>8. Far(ns, b, i) = {j}
  BY <1>1, <1>5 DEF Far
<1>9. ns[i].level \in Nat /\ ns[j].level \in Nat
  BY <1>2, <1>3, ScheduleIs, NodeIs
<1>10. b \in Buffer
  BY ScheduleIs, Operands
<1> QED BY <1>2, <1>3, <1>5, <1>6, <1>7, <1>8, <1>9, <1>10 DEF FarReader

LEMMA HeldIs ==
  ASSUME NEW ns \in NodeSeq, NEW b \in Buffers(ns), NEW n \in Nat,
         NEW held, held = [d \in 1..(n + 1) |-> IF d = 1 THEN b ELSE New(ns, b, d - 1)]
  PROVE  Held(ns, b, n, held)
<1>1. b \in Buffer
  BY ScheduleIs
<1>2. \A d \in 2..(n + 1) : d - 1 \in Nat /\ d - 1 # 0 /\ held[d] = New(ns, b, d - 1)
  OBVIOUS
<1>3. \A d \in 2..(n + 1) : /\ held[d] \in Buffer \ Buffers(ns) /\ held[d][1] = b[1] /\ held[d][2] # 0
                            /\ \A l \in Nat : held[d] = New(ns, b, l) => d - 1 = l
  BY <1>1, <1>2, Fresh
<1>4. held[1] = b
  OBVIOUS
<1>5. ASSUME NEW c \in 1..(n + 1), NEW d \in 1..(n + 1), held[c] = held[d] PROVE c = d
  <2>1. CASE c = 1 /\ d # 1
    <3>1. d \in 2..(n + 1)
      BY <2>1
    <3> QED BY <1>3, <1>4, <1>5, <2>1, <3>1
  <2>2. CASE d = 1 /\ c # 1
    <3>1. c \in 2..(n + 1)
      BY <2>2
    <3> QED BY <1>3, <1>4, <1>5, <2>2, <3>1
  <2>3. CASE c # 1 /\ d # 1
    <3>1. c \in 2..(n + 1) /\ d \in 2..(n + 1)
      BY <2>3
    <3>2. c - 1 \in Nat /\ d - 1 \in Nat /\ held[d] = New(ns, b, d - 1)
      BY <1>2, <3>1
    <3>3. c - 1 = d - 1
      BY <1>3, <1>5, <3>1, <3>2
    <3> QED BY <3>1, <3>3
  <2> QED BY <2>1, <2>2, <2>3
<1> QED BY <1>3, <1>4, <1>5 DEF Held, IsArg

\* The statements of its nodes.
ChainBodies(ns, b, i, j, n, held, r) ==
  /\ DOMAIN r = 1..(Len(ns) + n)
  /\ \A k \in DOMAIN ns : r[Behind(i, n, k)] = IF k = j THEN Rename(ns[k], b, held[n + 1]) ELSE ns[k]
  /\ \A d \in 1..n : r[i + d].body = <<Copy(held[d], held[d + 1])>>

LEMMA ChainIs ==
  ASSUME NEW ns \in NodeSeq, NEW i, NEW b, NEW j, FarReader(ns, b, i, j), Far(ns, b, i) = {j}
  PROVE  \E n, held :
           /\ n \in Nat /\ n = ns[i].level - ns[j].level - 1 /\ n >= 1
           /\ Held(ns, b, n, held)
           /\ Chained(ns, b, i, j, n, held, CopyChain(ns, b, i))
           /\ ChainBodies(ns, b, i, j, n, held, CopyChain(ns, b, i))
<1> DEFINE Level(k) == ns[k].level
<1>1. PICK L : L = Len(ns)
  OBVIOUS
<1>2. /\ L \in Nat /\ DOMAIN ns = 1..L /\ \A k \in 1..L : ns[k] \in NodeSet
      /\ i \in 1..L /\ j \in 1..L
  BY <1>1, ScheduleIs DEF FarReader
<1>3. PICK D : D = ns[i].level - ns[j].level
  OBVIOUS
<1>4. D \in Nat /\ D > 1 /\ ns[i].level \in Nat /\ ns[j].level \in Nat /\ i < j
  BY <1>3 DEF FarReader
<1>5. PICK n \in Nat : n = D - 1
  BY <1>4
<1>6. n >= 1
  BY <1>4, <1>5
<1>7. PICK held : held = [d \in 1..(n + 1) |-> IF d = 1 THEN b ELSE New(ns, b, d - 1)]
  OBVIOUS
<1>8. b \in Buffers(ns)
  BY DEF FarReader, Buffers
<1>9. Held(ns, b, n, held)
  BY <1>7, <1>8, HeldIs
<1>10. \A d \in 1..(n + 1) : held[d] \in Buffer
  <2> TAKE d \in 1..(n + 1)
  <2>1. d = 1 \/ d \in 2..(n + 1)
    OBVIOUS
  <2> QED BY <1>8, <1>9, <2>1, ScheduleIs DEF Held
<1>11. PICK moved : moved = [k \in DOMAIN ns |-> IF k \in {j} THEN Rename(ns[k], b, IF D = 1 THEN b ELSE New(ns, b, D - 1)) ELSE ns[k]]
  OBVIOUS
<1>12. PICK chain : chain = [d \in 1..n |-> Node(<<Copy(held[d], held[d + 1])>>, ns[i].level - d)]
  OBVIOUS
<1>13. PICK r : r = CopyChain(ns, b, i)
  OBVIOUS
<1>14. r = Splice(moved, chain, i, i)
  <2> DEFINE H(d) == IF d = 1 THEN b ELSE New(ns, b, d - 1)
             F(far) == LET maxDiff == Max({ns[i].level - ns[k].level : k \in far})
                           mv == [k \in DOMAIN ns |-> IF k \in far THEN Rename(ns[k], b, H(ns[i].level - ns[k].level)) ELSE ns[k]]
                           ch == [d \in 1..(maxDiff - 1) |-> Node(<<Copy(H(d), H(d + 1))>>, ns[i].level - d)]
                       IN  SubSeq(mv, 1, i) \o ch \o SubSeq(mv, i + 1, Len(mv))
  <2>1. r = [far \in SUBSET DOMAIN ns |-> F(far)][Far(ns, b, i)]
    BY <1>13 DEF CopyChain
  <2>2. Far(ns, b, i) \in SUBSET DOMAIN ns
    BY <1>2
  <2>3. r = F({j})
    <3> HIDE DEF F
    <3> QED BY <2>1, <2>2
  <2>4. Max({ns[i].level - ns[k].level : k \in {j}}) = D
    <3>1. {ns[i].level - ns[k].level : k \in {j}} = {D}
      BY <1>3
    <3>2. Max({D}) \in {D}
      BY <1>4 DEF Max
    <3> QED BY <3>1, <3>2
  <2>5. [k \in DOMAIN ns |-> IF k \in {j} THEN Rename(ns[k], b, H(ns[i].level - ns[k].level)) ELSE ns[k]] = moved
    BY <1>3, <1>11
  <2>6. [d \in 1..(D - 1) |-> Node(<<Copy(H(d), H(d + 1))>>, ns[i].level - d)] = chain
    <3>1. \A d \in 1..n : held[d] = H(d) /\ held[d + 1] = H(d + 1)
      BY <1>7
    <3> HIDE DEF H
    <3> QED BY <1>5, <1>12, <3>1
  <2> HIDE DEF H
  <2>7. r = SubSeq(moved, 1, i) \o chain \o SubSeq(moved, i + 1, Len(moved))
    BY <2>3, <2>4, <2>5, <2>6
  <2> QED BY <2>7 DEF Splice
<1>15. PICK c, w : c = held[n + 1] /\ w = Rename(ns[j], b, c)
  OBVIOUS
<1>16. n + 1 \in 2..(n + 1) /\ n + 1 # 1 /\ D # 1 /\ D - 1 = n /\ (n + 1) - 1 = n
  BY <1>4, <1>5, <1>6
<1>17. c \in Buffer \ Buffers(ns) /\ c = New(ns, b, D - 1)
  <2>1. c = New(ns, b, n)
    BY <1>7, <1>15, <1>16
  <2> QED BY <1>9, <1>15, <1>16, <2>1 DEF Held
<1>18. /\ w \in NodeSet /\ w.level = ns[j].level
       /\ Outs(w) = Outs(ns[j]) /\ Ins(w) = (Ins(ns[j]) \ {b}) \cup {c}
  <2>1. b \in Buffer /\ b \in Ins(ns[j])
    BY DEF FarReader
  <2>2. b \notin Outs(ns[j]) /\ c \notin Ins(ns[j]) \cup Outs(ns[j])
    BY <1>2, <1>17, <2>1, Operands DEF Buffers
  <2>3. /\ w \in NodeSet /\ w.level = ns[j].level
        /\ Outs(w) = {Instead(x, b, c) : x \in Outs(ns[j])}
        /\ Ins(w) = {Instead(x, b, c) : x \in Ins(ns[j])}
    BY <1>2, <1>15, <1>17, <2>1, <2>2, RenameIs
  <2> QED BY <2>1, <2>2, <2>3 DEF Instead
<1>19. \A k \in 1..L : moved[k] = IF k = j THEN w ELSE ns[k]
  BY <1>2, <1>11, <1>15, <1>16, <1>17
<1>20. moved \in Seq(NodeSet) /\ Len(moved) = L
  <2>1. moved \in [1..L -> NodeSet]
    BY <1>2, <1>11, <1>18, <1>19
  <2> QED BY <1>2, <2>1
<1>21. \A d \in 1..n : /\ chain[d] \in NodeSet /\ chain[d].level = ns[i].level - d
                       /\ Outs(chain[d]) = {held[d + 1]} /\ Ins(chain[d]) = {held[d]}
  <2> TAKE d \in 1..n
  <2>1. PICK x, y, l : x = held[d] /\ y = held[d + 1] /\ l = ns[i].level - d
    OBVIOUS
  <2>2. l \in Nat \cup {NoLevel} /\ d \in 1..(n + 1) /\ d + 1 \in 1..(n + 1) /\ d # d + 1
    BY <1>3, <1>4, <1>5, <2>1
  <2>3. x \in Buffer /\ y \in Buffer /\ x # y
    BY <1>9, <1>10, <2>1, <2>2 DEF Held
  <2>4. chain[d] = Node(<<Copy(x, y)>>, l)
    BY <1>12, <2>1
  <2> QED BY <2>1, <2>2, <2>3, <2>4, OneCopyIs
<1>22. chain \in Seq(NodeSet) /\ Len(chain) = n
  <2>1. chain \in [1..n -> NodeSet]
    BY <1>12, <1>21
  <2> QED BY <2>1
<1>23. r \in NodeSeq /\ Len(r) = i + n + L - i /\ Splices(r, moved, L, chain, n, i, i)
  <2>1. i \in 0..L /\ i \in i..L
    BY <1>2
  <2>2. PICK a, z, e : a = i /\ z = i /\ e = n
    OBVIOUS
  <2>3. moved \in Seq(NodeSet) /\ Len(moved) = L
    BY <1>20
  <2>a. chain \in Seq(NodeSet) /\ Len(chain) = e
    BY <1>22, <2>2
  <2>b. a \in 0..L /\ z \in a..L
    BY <2>1, <2>2
  <2>4. /\ Splice(moved, chain, a, z) \in Seq(NodeSet) /\ Len(Splice(moved, chain, a, z)) = a + e + L - z
        /\ Splices(Splice(moved, chain, a, z), moved, L, chain, e, a, z)
    BY <2>3, <2>a, <2>b, Spliced
  <2> QED BY <1>14, <2>2, <2>4 DEF NodeSeq
<1>24. DOMAIN r = 1..(L + n)
  <2>1. DOMAIN r = 1..Len(r)
    BY <1>23, ScheduleIs
  <2> QED BY <1>2, <1>23, <2>1
<1>25. \A k \in 1..L : Behind(i, n, k) \in 1..(L + n) /\ r[Behind(i, n, k)] = moved[k]
  <2> TAKE k \in 1..L
  <2>1. CASE k <= i
    BY <1>2, <1>23, <2>1 DEF Behind, Splices
  <2>2. CASE k > i
    <3>1. PICK e : e = k - i
      OBVIOUS
    <3>2. e \in 1..(L - i) /\ i + e = k /\ Behind(i, n, k) = i + n + e /\ i + n + e \in 1..(L + n)
      BY <1>2, <2>2, <3>1 DEF Behind
    <3>3. r[i + n + e] = moved[i + e]
      BY <1>23, <3>2 DEF Splices
    <3> QED BY <3>2, <3>3
  <2> QED BY <1>2, <2>1, <2>2
<1>26. \A d \in 1..n : i + d \in 1..(L + n) /\ r[i + d] = chain[d]
  BY <1>2, <1>23 DEF Splices
<1>27. \A z \in 1..(L + n) : (\E k \in 1..L : z = Behind(i, n, k)) \/ (\E d \in 1..n : z = i + d)
  <2> TAKE z \in 1..(L + n)
  <2>1. CASE z <= i
    <3>1. z \in 1..L /\ z = Behind(i, n, z)
      BY <1>2, <2>1 DEF Behind
    <3> QED BY <3>1
  <2>2. CASE z > i /\ z <= i + n
    <3>1. z - i \in 1..n /\ z = i + (z - i)
      BY <1>2, <2>2
    <3> QED BY <3>1
  <2>3. CASE z > i + n
    <3>1. z - n \in 1..L /\ z = Behind(i, n, z - n)
      BY <1>2, <2>3 DEF Behind
    <3> QED BY <3>1
  <2> QED BY <1>2, <2>1, <2>2, <2>3
<1>28. Chained(ns, b, i, j, n, held, r)
  BY <1>2, <1>15, <1>18, <1>19, <1>21, <1>23, <1>24, <1>25, <1>26, <1>27 DEF Chained
<1>29. ChainBodies(ns, b, i, j, n, held, r)
  <2>1. \A k \in 1..L : r[Behind(i, n, k)] = IF k = j THEN Rename(ns[k], b, held[n + 1]) ELSE ns[k]
    BY <1>15, <1>19, <1>25
  <2>2. \A d \in 1..n : r[i + d].body = <<Copy(held[d], held[d + 1])>>
    BY <1>12, <1>26 DEF Node
  <2> QED BY <1>1, <1>2, <1>24, <2>1, <2>2 DEF ChainBodies
<1> QED BY <1>3, <1>5, <1>6, <1>9, <1>13, <1>28, <1>29

\* Who writes and who takes in what, once the chain is there.
ChainUses(ns, b, i, j, n, held, r) ==
  /\ \A z \in DOMAIN r : \A x \in Outs(r[z]) :
       \/ \E k \in DOMAIN ns : z = Behind(i, n, k) /\ x \in Outs(ns[k])
       \/ \E d \in 1..n : z = i + d /\ x = held[d + 1]
  /\ \A z \in DOMAIN r : \A x \in Ins(r[z]) :
       \/ \E k \in DOMAIN ns : z = Behind(i, n, k) /\ x \in Ins(ns[k]) /\ x # b
       \/ z = Behind(i, n, j) /\ x = held[n + 1]
       \/ \E d \in 1..n : z = i + d /\ x = held[d]

LEMMA ChainUsesAre ==
  ASSUME NEW ns \in NodeSeq, NEW b, NEW i, NEW j, NEW n \in Nat, NEW held, NEW r,
         FarReader(ns, b, i, j), Chained(ns, b, i, j, n, held, r)
  PROVE  ChainUses(ns, b, i, j, n, held, r)
<1>1. ASSUME NEW z \in DOMAIN r, NEW x \in Outs(r[z])
      PROVE  \/ \E k \in DOMAIN ns : z = Behind(i, n, k) /\ x \in Outs(ns[k])
             \/ \E d \in 1..n : z = i + d /\ x = held[d + 1]
  <2>1. CASE \E k \in DOMAIN ns : z = Behind(i, n, k)
    BY <1>1, <2>1 DEF Chained
  <2>2. CASE \E d \in 1..n : z = i + d
    <3>1. PICK d \in 1..n : z = i + d
      BY <2>2
    <3>2. Outs(r[i + d]) = {held[d + 1]}
      BY DEF Chained
    <3> QED BY <3>1, <3>2
  <2> QED BY <2>1, <2>2 DEF Chained
<1>2. \A k \in DOMAIN ns : b \in Ins(ns[k]) => k = j
  <2> SUFFICES ASSUME NEW k \in DOMAIN ns, b \in Ins(ns[k]) PROVE k = j
    OBVIOUS
  <2>1. k # i
    BY Operands, ScheduleIs DEF FarReader
  <2>2. k \in DependentConsumers(ns, b, i)
    BY <2>1 DEF DependentConsumers, Consumers, FarReader, Carried
  <2> QED BY <2>2 DEF FarReader
<1>3. ASSUME NEW z \in DOMAIN r, NEW x \in Ins(r[z])
      PROVE  \/ \E k \in DOMAIN ns : z = Behind(i, n, k) /\ x \in Ins(ns[k]) /\ x # b
             \/ z = Behind(i, n, j) /\ x = held[n + 1]
             \/ \E d \in 1..n : z = i + d /\ x = held[d]
  <2>1. CASE \E k \in DOMAIN ns : z = Behind(i, n, k)
    <3>1. PICK k \in DOMAIN ns : z = Behind(i, n, k)
      BY <2>1
    <3>2. CASE k = j
      <4>1. Ins(r[Behind(i, n, j)]) = (Ins(ns[j]) \ {b}) \cup {held[n + 1]}
        BY DEF Chained
      <4>2. x \in (Ins(ns[j]) \ {b}) \cup {held[n + 1]}
        BY <1>3, <3>1, <3>2, <4>1
      <4> QED BY <3>1, <3>2, <4>2
    <3>3. CASE k # j
      <4>1. Ins(r[Behind(i, n, k)]) = Ins(ns[k])
        BY <3>3 DEF Chained
      <4>2. x \in Ins(ns[k])
        BY <1>3, <3>1, <4>1
      <4> QED BY <1>2, <3>1, <3>3, <4>2
    <3> QED BY <3>2, <3>3
  <2>2. CASE \E d \in 1..n : z = i + d
    <3>1. PICK d \in 1..n : z = i + d
      BY <2>2
    <3>2. Ins(r[i + d]) = {held[d]}
      BY DEF Chained
    <3> QED BY <3>1, <3>2
  <2> QED BY <2>1, <2>2 DEF Chained
<1> QED BY <1>1, <1>3 DEF ChainUses

\* The nodes there were stand where they stood, seen from one another.
ChainOrder(ns, i, n) ==
  /\ \A j \in DOMAIN ns : \A k \in DOMAIN ns :
       /\ j < k => Behind(i, n, j) < Behind(i, n, k)
       /\ Behind(i, n, j) < Behind(i, n, k) => j < k
       /\ Behind(i, n, j) = Behind(i, n, k) => j = k
  /\ \A k \in DOMAIN ns : Behind(i, n, k) \in Nat
  /\ \A k \in DOMAIN ns : \A d \in 1..n : /\ Behind(i, n, k) # i + d
                                         /\ i < k => i + d < Behind(i, n, k)
  /\ i \in Nat /\ Behind(i, n, i) = i

LEMMA ChainOrderIs ==
  ASSUME NEW ns \in NodeSeq, NEW i \in DOMAIN ns, NEW n \in Nat
  PROVE  ChainOrder(ns, i, n)
<1>1. DOMAIN ns \in SUBSET Nat
  BY ScheduleIs
<1>2. \A k \in DOMAIN ns : Behind(i, n, k) \in Nat
  BY <1>1, BehindIs
<1>3. Behind(i, n, i) = i
  BY <1>1 DEF Behind
<1>4. \A j \in DOMAIN ns : \A k \in DOMAIN ns :
        /\ j < k => Behind(i, n, j) < Behind(i, n, k)
        /\ Behind(i, n, j) < Behind(i, n, k) => j < k
        /\ Behind(i, n, j) = Behind(i, n, k) => j = k
  BY <1>1, BehindIs
<1>5. \A k \in DOMAIN ns : \A d \in 1..n : /\ Behind(i, n, k) # i + d
                                          /\ i < k => i + d < Behind(i, n, k)
  BY <1>1, BehindIs
<1>6. i \in Nat
  BY <1>1
<1> QED BY <1>2, <1>3, <1>4, <1>5, <1>6 DEF ChainOrder

\* A held buffer but the first is new.
LEMMA HeldFresh ==
  ASSUME NEW ns, NEW b, NEW n \in Nat, NEW held, Held(ns, b, n, held), NEW k \in DOMAIN ns, NEW d \in 2..(n + 1)
  PROVE  held[d] \notin Outs(ns[k]) /\ held[d] \notin Ins(ns[k])
BY DEF Held, Buffers

LEMMA ChainDefined ==
  ASSUME NEW ns \in NodeSeq, NEW b, NEW i, NEW j, NEW n \in Nat, n >= 1, NEW held, NEW r,
         FarReader(ns, b, i, j), Held(ns, b, n, held), Chained(ns, b, i, j, n, held, r), Defined(ns)
  PROVE  Defined(r)
<1>1. ChainUses(ns, b, i, j, n, held, r)
  BY ChainUsesAre
<1>2. i \in DOMAIN ns /\ j \in DOMAIN ns /\ i < j /\ ~IsArg(b) /\ ChainOrder(ns, i, n)
  BY ChainOrderIs DEF FarReader, Carried
<1> SUFFICES ASSUME NEW z \in DOMAIN r, NEW x \in Ins(r[z])
             PROVE  IF IsArg(x) THEN Producers(r, x) = {} ELSE \E y \in Producers(r, x) : y < z
  BY DEF Defined
<1>3. CASE \E k \in DOMAIN ns : z = Behind(i, n, k) /\ x \in Ins(ns[k]) /\ x # b
  <2>1. PICK k \in DOMAIN ns : z = Behind(i, n, k) /\ x \in Ins(ns[k])
    BY <1>3
  <2>2. CASE IsArg(x)
    <3>1. Producers(ns, x) = {}
      BY <2>1, <2>2 DEF Defined
    <3>2. ASSUME NEW y \in DOMAIN r, x \in Outs(r[y]) PROVE FALSE
      <4>1. CASE \E m \in DOMAIN ns : y = Behind(i, n, m) /\ x \in Outs(ns[m])
        BY <3>1, <4>1 DEF Producers
      <4>2. CASE \E d \in 1..n : y = i + d /\ x = held[d + 1]
        <5>1. PICK d \in 1..n : x = held[d + 1]
          BY <4>2
        <5>2. d + 1 \in 2..(n + 1)
          OBVIOUS
        <5> QED BY <2>1, <5>1, <5>2, HeldFresh
      <4> QED BY <1>1, <3>2, <4>1, <4>2 DEF ChainUses
    <3> QED BY <2>2, <3>2 DEF Producers
  <2>3. CASE ~IsArg(x)
    <3>1. PICK m \in DOMAIN ns : x \in Outs(ns[m]) /\ m < k
      BY <2>1, <2>3 DEF Defined, Producers
    <3>2. Behind(i, n, m) \in DOMAIN r /\ x \in Outs(r[Behind(i, n, m)])
      BY <3>1 DEF Chained
    <3>3. Behind(i, n, m) < z
      BY <1>2, <2>1, <3>1 DEF ChainOrder
    <3> QED BY <2>3, <3>2, <3>3 DEF Producers
  <2> QED BY <2>2, <2>3
<1>4. CASE z = Behind(i, n, j) /\ x = held[n + 1]
  <2>1. n \in 1..n /\ n + 1 \in 2..(n + 1)
    OBVIOUS
  <2>2. i + n \in DOMAIN r /\ x \in Outs(r[i + n])
    BY <1>4, <2>1 DEF Chained
  <2>3. ~IsArg(x)
    BY <1>4, <2>1 DEF Held
  <2>4. i + n < z
    <3>1. i \in Nat /\ j \in Nat /\ i < j
      BY <1>2, ScheduleIs
    <3>2. i + n < Behind(i, n, j)
      BY <2>1, <3>1, BehindIs
    <3> QED BY <1>4, <3>2
  <2> QED BY <2>2, <2>3, <2>4 DEF Producers
<1>5. CASE \E d \in 1..n : z = i + d /\ x = held[d]
  <2>1. PICK d \in 1..n : z = i + d /\ x = held[d]
    BY <1>5
  <2>2. CASE d = 1
    <3>1. x = b /\ i \in DOMAIN r /\ b \in Outs(r[i])
      <4>1. Behind(i, n, i) = i /\ b \in Outs(ns[i])
        BY <1>2 DEF ChainOrder, FarReader
      <4> QED BY <1>2, <2>1, <2>2, <4>1 DEF Held, Chained
    <3>2. i < z
      BY <1>2, <2>1, <2>2 DEF ChainOrder
    <3> QED BY <1>2, <3>1, <3>2 DEF Producers
  <2>3. CASE d # 1
    <3>1. PICK e : e = d - 1
      OBVIOUS
    <3>2. e \in 1..n /\ e + 1 = d /\ d \in 2..(n + 1)
      BY <2>3, <3>1
    <3>3. i + e \in DOMAIN r /\ x \in Outs(r[i + e]) /\ ~IsArg(x)
      BY <2>1, <3>2 DEF Chained, Held
    <3>4. i + e < z
      BY <1>2, <2>1, <3>1 DEF ChainOrder
    <3> QED BY <3>3, <3>4 DEF Producers
  <2> QED BY <2>2, <2>3
<1> QED BY <1>1, <1>3, <1>4, <1>5 DEF ChainUses

LEMMA ChainChannels ==
  ASSUME NEW ns \in NodeSeq, NEW b, NEW i, NEW j, NEW n \in Nat, n >= 1, NEW held, NEW r \in NodeSeq,
         FarReader(ns, b, i, j), Held(ns, b, n, held), Chained(ns, b, i, j, n, held, r), Channels(ns)
  PROVE  Channels(r)
<1>1. ChainUses(ns, b, i, j, n, held, r)
  BY ChainUsesAre
<1>2. i \in DOMAIN ns /\ j \in DOMAIN ns /\ ChainOrder(ns, i, n)
  BY ChainOrderIs DEF FarReader
<1>3. \A d \in 1..n : d + 1 \in 2..(n + 1) /\ d + 1 \in 1..(n + 1) /\ d \in 1..(n + 1)
  OBVIOUS
<1> SUFFICES ASSUME NEW z \in DOMAIN r, r[z].level # NoLevel, NEW x \in Outs(r[z]) PROVE Single(r, x, z)
  BY SingleIs DEF Channels
<1>4. CASE \E k \in DOMAIN ns : z = Behind(i, n, k) /\ x \in Outs(ns[k])
  <2>1. PICK k \in DOMAIN ns : z = Behind(i, n, k) /\ x \in Outs(ns[k])
    BY <1>4
  <2>2. ns[k].level # NoLevel
    BY <2>1 DEF Chained
  <2>3. Single(ns, x, k)
    BY <2>1, <2>2, SingleIs DEF Channels
  <2>4. \A d \in 2..(n + 1) : x # held[d]
    <3> TAKE d \in 2..(n + 1)
    <3>1. held[d] \notin Outs(ns[k])
      BY HeldFresh
    <3> QED BY <2>1, <3>1
  <2>5. \A y \in Producers(r, x) : \E m \in Producers(ns, x) : y = Behind(i, n, m)
    <3> TAKE y \in Producers(r, x)
    <3>1. y \in DOMAIN r /\ x \in Outs(r[y])
      BY DEF Producers
    <3>2. \E m \in DOMAIN ns : y = Behind(i, n, m) /\ x \in Outs(ns[m])
      BY <1>1, <1>3, <2>4, <3>1 DEF ChainUses
    <3> QED BY <3>2 DEF Producers
  <2>6. \A y \in DependentConsumers(r, x, z) :
          IF x = b THEN y = i + 1 ELSE \E m \in DependentConsumers(ns, x, k) : y = Behind(i, n, m)
    <3> TAKE y \in DependentConsumers(r, x, z)
    <3>1. y \in DOMAIN r /\ x \in Ins(r[y]) /\ y # z /\ (IsArg(x) => z < y)
      BY DEF DependentConsumers, Consumers
    <3>2. n + 1 \in 2..(n + 1)
      OBVIOUS
    <3>3. CASE \E m \in DOMAIN ns : y = Behind(i, n, m) /\ x \in Ins(ns[m]) /\ x # b
      <4>1. PICK m \in DOMAIN ns : y = Behind(i, n, m) /\ x \in Ins(ns[m]) /\ x # b
        BY <3>3
      <4>2. m # k /\ (IsArg(x) => k < m)
        BY <1>2, <2>1, <3>1, <4>1 DEF ChainOrder
      <4> QED BY <4>1, <4>2 DEF DependentConsumers, Consumers
    <3>4. CASE \E d \in 1..n : y = i + d /\ x = held[d]
      <4>1. PICK d \in 1..n : y = i + d /\ x = held[d]
        BY <3>4
      <4>2. d = 1
        BY <2>4, <4>1
      <4> QED BY <4>1, <4>2 DEF Held
    <3> QED BY <1>1, <2>4, <3>1, <3>2, <3>3, <3>4 DEF ChainUses
  <2> QED BY <2>3, <2>5, <2>6 DEF Single
<1>5. CASE \E d \in 1..n : z = i + d /\ x = held[d + 1]
  <2>1. PICK d \in 1..n : z = i + d /\ x = held[d + 1]
    BY <1>5
  <2>2. \A k \in DOMAIN ns : x \notin Outs(ns[k]) /\ x \notin Ins(ns[k])
    BY <1>3, <2>1, HeldFresh
  <2>3. \A e \in 1..(n + 1) : x = held[e] => e = d + 1
    BY <1>3, <2>1 DEF Held
  <2>4. \A y \in Producers(r, x) : y = i + d
    <3> TAKE y \in Producers(r, x)
    <3>1. y \in DOMAIN r /\ x \in Outs(r[y])
      BY DEF Producers
    <3>2. PICK e \in 1..n : y = i + e /\ x = held[e + 1]
      BY <1>1, <2>2, <3>1 DEF ChainUses
    <3>3. e + 1 = d + 1
      BY <1>3, <2>3, <3>2
    <3> QED BY <3>2, <3>3
  <2>5. \A y \in DependentConsumers(r, x, z) : y = IF d = n THEN Behind(i, n, j) ELSE i + d + 1
    <3> TAKE y \in DependentConsumers(r, x, z)
    <3>1. y \in DOMAIN r /\ x \in Ins(r[y])
      BY DEF DependentConsumers, Consumers
    <3>2. CASE y = Behind(i, n, j) /\ x = held[n + 1]
      <4>1. n + 1 = d + 1
        BY <2>3, <3>2
      <4> QED BY <3>2, <4>1
    <3>3. CASE \E e \in 1..n : y = i + e /\ x = held[e]
      <4>1. PICK e \in 1..n : y = i + e /\ x = held[e]
        BY <3>3
      <4>2. e = d + 1 /\ d # n
        BY <1>3, <2>3, <4>1
      <4> QED BY <1>2, <4>1, <4>2 DEF ChainOrder
    <3> QED BY <1>1, <2>2, <3>1, <3>2, <3>3 DEF ChainUses
  <2> QED BY <2>4, <2>5 DEF Single
<1> QED BY <1>1, <1>4, <1>5 DEF ChainUses

LEMMA ChainDownhill ==
  ASSUME NEW ns \in NodeSeq, NEW b, NEW i, NEW j, NEW n \in Nat, n >= 1, NEW held, NEW r \in NodeSeq,
         FarReader(ns, b, i, j), Held(ns, b, n, held), Chained(ns, b, i, j, n, held, r),
         n = ns[i].level - ns[j].level - 1, Downhill(ns)
  PROVE  Downhill(r)
<1>1. ChainUses(ns, b, i, j, n, held, r)
  BY ChainUsesAre
<1>2. i \in DOMAIN ns /\ j \in DOMAIN ns /\ ChainOrder(ns, i, n) /\ Producers(ns, b) = {i}
  BY ChainOrderIs DEF FarReader
<1>3. \A d \in 1..n : d + 1 \in 2..(n + 1) /\ d + 1 \in 1..(n + 1) /\ d \in 1..(n + 1)
  OBVIOUS
<1>4. ns[i].level \in Nat /\ ns[j].level \in Nat
  BY DEF FarReader
<1>5. \A k \in DOMAIN ns : r[Behind(i, n, k)].level = ns[k].level
  BY DEF Chained
<1>6. \A d \in 1..n : r[i + d].level = ns[i].level - d /\ r[i + d].level \in Nat
  BY <1>4 DEF Chained
<1> SUFFICES ASSUME NEW z \in DOMAIN r, r[z].level # NoLevel, NEW x \in Outs(r[z]),
                    NEW y \in DependentConsumers(r, x, z)
             PROVE  r[y].level # NoLevel /\ r[z].level > r[y].level
  BY DEF Downhill
<1>7. y \in DOMAIN r /\ x \in Ins(r[y]) /\ y # z /\ (IsArg(x) => z < y)
  BY DEF DependentConsumers, Consumers
<1>8. n + 1 \in 2..(n + 1) /\ n + 1 \in 1..(n + 1)
  OBVIOUS
<1>9. CASE \E k \in DOMAIN ns : z = Behind(i, n, k) /\ x \in Outs(ns[k])
  <2>1. PICK k \in DOMAIN ns : z = Behind(i, n, k) /\ x \in Outs(ns[k])
    BY <1>9
  <2>2. \A d \in 2..(n + 1) : x # held[d]
    <3> TAKE d \in 2..(n + 1)
    <3>1. held[d] \notin Outs(ns[k])
      BY HeldFresh
    <3> QED BY <2>1, <3>1
  <2>3. CASE \E m \in DOMAIN ns : y = Behind(i, n, m) /\ x \in Ins(ns[m]) /\ x # b
    <3>1. PICK m \in DOMAIN ns : y = Behind(i, n, m) /\ x \in Ins(ns[m])
      BY <2>3
    <3>2. m # k /\ (IsArg(x) => k < m)
      BY <1>2, <1>7, <2>1, <3>1 DEF ChainOrder
    <3>3. m \in DependentConsumers(ns, x, k)
      BY <3>1, <3>2 DEF DependentConsumers, Consumers
    <3> QED BY <1>5, <2>1, <3>1, <3>3 DEF Downhill
  <2>4. CASE \E d \in 1..n : y = i + d /\ x = held[d]
    <3>1. PICK d \in 1..n : y = i + d /\ x = held[d]
      BY <2>4
    <3>2. d = 1 /\ x = b
      BY <2>2, <3>1 DEF Held
    <3>3. k = i
      BY <1>2, <2>1, <3>2 DEF Producers
    <3>4. r[z].level = ns[i].level /\ r[y].level = ns[i].level - 1 /\ r[y].level \in Nat
      BY <1>5, <1>6, <2>1, <3>1, <3>2, <3>3
    <3> QED BY <1>4, <3>4 DEF NoLevel
  <2> QED BY <1>1, <1>7, <1>8, <2>2, <2>3, <2>4 DEF ChainUses
<1>10. CASE \E d \in 1..n : z = i + d /\ x = held[d + 1]
  <2>1. PICK d \in 1..n : z = i + d /\ x = held[d + 1]
    BY <1>10
  <2>2. \A k \in DOMAIN ns : x \notin Ins(ns[k])
    BY <1>3, <2>1, HeldFresh
  <2>3. \A e \in 1..(n + 1) : x = held[e] => e = d + 1
    BY <1>3, <2>1 DEF Held
  <2>4. r[z].level = ns[i].level - d
    BY <1>6, <2>1
  <2>5. CASE y = Behind(i, n, j) /\ x = held[n + 1]
    <3>1. n = d
      BY <1>8, <2>3, <2>5
    <3>2. r[y].level = ns[j].level
      BY <1>2, <1>5, <2>5
    <3> QED BY <1>4, <2>4, <3>1, <3>2 DEF NoLevel
  <2>6. CASE \E e \in 1..n : y = i + e /\ x = held[e]
    <3>1. PICK e \in 1..n : y = i + e /\ x = held[e]
      BY <2>6
    <3>2. e = d + 1
      BY <1>3, <2>3, <3>1
    <3>3. r[y].level = ns[i].level - e /\ r[y].level \in Nat
      BY <1>6, <3>1
    <3> QED BY <1>4, <2>4, <3>2, <3>3 DEF NoLevel
  <2> QED BY <1>1, <1>7, <2>2, <2>5, <2>6 DEF ChainUses
<1> QED BY <1>1, <1>9, <1>10 DEF ChainUses

\* Another far reader of node i is as far as before.
LEMMA ChainOthers ==
  ASSUME NEW ns \in NodeSeq, NEW b, NEW i, NEW j, NEW n \in Nat, NEW held, NEW r,
         FarReader(ns, b, i, j), Chained(ns, b, i, j, n, held, r)
  PROVE  /\ i \in DOMAIN r /\ Outs(r[i]) = Outs(ns[i])
         /\ \A c : c # b /\ Carried(c) /\ Far(ns, c, i) # {} => Far(r, c, i) # {}
<1>1. i \in DOMAIN ns /\ ChainOrder(ns, i, n)
  BY ChainOrderIs DEF FarReader
<1>2. Behind(i, n, i) = i
  BY <1>1 DEF ChainOrder
<1>3. i \in DOMAIN r /\ Outs(r[i]) = Outs(ns[i]) /\ r[i].level = ns[i].level
  BY <1>1, <1>2 DEF Chained
<1>4. ASSUME NEW c, c # b, Carried(c), NEW m \in Far(ns, c, i) PROVE Behind(i, n, m) \in Far(r, c, i)
  <2>1. /\ m \in DOMAIN ns /\ c \in Ins(ns[m]) /\ m # i
        /\ ns[i].level # NoLevel /\ ns[m].level # NoLevel /\ ns[i].level - ns[m].level > 1
    BY DEF Far, DependentConsumers, Consumers
  <2>2. PICK y : y = Behind(i, n, m)
    OBVIOUS
  <2>3. y \in DOMAIN r /\ r[y].level = ns[m].level
    BY <2>1, <2>2 DEF Chained
  <2>4. c \in Ins(r[y])
    BY <1>4, <2>1, <2>2 DEF Chained
  <2>5. y # i
    BY <1>1, <1>2, <2>1, <2>2 DEF ChainOrder
  <2>6. y \in Far(r, c, i)
    BY <1>3, <1>4, <2>1, <2>3, <2>4, <2>5 DEF Far, DependentConsumers, Consumers, Carried
  <2> QED BY <2>2, <2>6
<1> QED BY <1>3, <1>4

\* So does a chain of nodes.
LEMMA ChainDelivers ==
  ASSUME NEW ns \in NodeSeq, NEW r \in NodeSeq, NEW b, b \in Buffers(ns), Buffers(ns) \subseteq Buffers(r),
         NEW i \in Nat, NEW n \in Nat, n >= 1, NEW held, held[1] = b,
         \A d \in 1..n : i + d \in DOMAIN r /\ r[i + d].body = <<Copy(held[d], held[d + 1])>>,
         \A d \in 2..(n + 1) : held[d] \in Buffers(r) \ Buffers(ns),
         \A c, d \in 1..(n + 1) : held[c] = held[d] => c = d
  PROVE  Delivers(ns, b, i, n, {held[n + 1]}, r)
<1> SUFFICES ASSUME NEW T, Stages(r, T)
             PROVE  /\ \A z \in Buffers(ns) : T[i + n][z] = T[i][z]
                    /\ T[i + n][held[n + 1]] = T[i][b]
  BY DEF Delivers
<1> DEFINE P(d) == /\ \A z \in Buffers(ns) : T[i + d][z] = T[i][z]
                   /\ T[i + d][held[d + 1]] = T[i][b]
           K == {d \in Nat : d <= n => P(d)}
<1>1. 0 \in K
  <2>1. i + 0 = i /\ 0 + 1 = 1
    OBVIOUS
  <2>2. T[i + 0] = T[i] /\ held[0 + 1] = b
    BY <2>1
  <2> QED BY <2>2
<1>2. ASSUME NEW d \in Nat, d \in K PROVE d + 1 \in K
  <2> SUFFICES ASSUME d + 1 <= n PROVE P(d + 1)
    OBVIOUS
  <2>1. PICK m, j, x, y : m = d + 1 /\ j = i + m /\ x = held[m] /\ y = held[m + 1]
    OBVIOUS
  <2>2. m \in 1..n /\ d <= n /\ j - 1 = i + d /\ m + 1 \in 2..(n + 1) /\ m \in 1..(n + 1) /\ m + 1 \in 1..(n + 1)
    BY <2>1
  <2>3. j \in DOMAIN r /\ r[j].body = <<Copy(x, y)>> /\ y \in Buffers(r) \ Buffers(ns)
    BY <2>1, <2>2
  <2>4. Goes(<<Copy(x, y)>>, T[j - 1], T[j])
    BY <2>3 DEF Stages
  <2>5. DOMAIN T[j - 1] = Buffers(r)
    <3>1. j - 1 \in 0..Len(r)
      BY <2>3, ScheduleIs
    <3> QED BY <3>1, StagesAre
  <2>6. T[j][y] = T[j - 1][x] /\ \A z \in Buffers(r) : z # y => T[j][z] = T[j - 1][z]
    BY <2>3, <2>4, <2>5, OneCopyGoes
  <2>7. P(d)
    BY <1>2, <2>2
  <2>8. (\A z \in Buffers(ns) : T[j - 1][z] = T[i][z]) /\ T[j - 1][x] = T[i][b]
    BY <2>1, <2>2, <2>7
  <2>9. (\A z \in Buffers(ns) : T[j][z] = T[i][z]) /\ T[j][y] = T[i][b]
    BY <2>3, <2>6, <2>8
  <2> QED BY <2>1, <2>9
<1> HIDE DEF K, P
<1>3. Nat \subseteq K
  BY <1>1, <1>2, Counting
<1>4. P(n)
  BY <1>3 DEF K
<1> QED BY <1>4 DEF P

\* A node the same as before, or with another buffer for b.
LEMMA MovedBody ==
  ASSUME NEW ns \in NodeSeq, NEW k \in DOMAIN ns, NEW b \in Buffer, NEW c \in Buffer, NEW m,
         m = Rename(ns[k], b, c) \/ (m = ns[k] /\ c = b)
  PROVE  Swapped(ns[k].body, m.body, b, c)
<1>1. ns[k] \in NodeSet /\ ns[k].body \in Seq(Statement)
  BY ScheduleIs, BodyStays
<1>2. CASE m = Rename(ns[k], b, c)
  BY <1>1, <1>2, RenameBody
<1>3. CASE m = ns[k] /\ c = b
  BY <1>1, <1>3, SwappedSame
<1> QED BY <1>2, <1>3

LEMMA ChainMeans ==
  ASSUME NEW ns \in NodeSeq, NEW b, NEW i, NEW j, FarReader(ns, b, i, j),
         NEW n \in Nat, n >= 1, NEW held, Held(ns, b, n, held),
         NEW r, Chained(ns, b, i, j, n, held, r), ChainBodies(ns, b, i, j, n, held, r)
  PROVE  Meaning(r) = Meaning(ns)
<1>1. PICK L, last : L = Len(ns) /\ last = held[n + 1]
  OBVIOUS
<1>2. /\ L \in Nat /\ DOMAIN ns = 1..L /\ i \in DOMAIN ns /\ j \in DOMAIN ns /\ i < j /\ i \in Nat
      /\ b \in Buffer /\ b \in Outs(ns[i]) /\ b \in Buffers(ns) /\ Producers(ns, b) = {i} /\ b \in Ins(ns[j])
  BY <1>1, ScheduleIs DEF FarReader, Buffers
<1>3. b \notin Outs(ns[j])
  BY <1>2, Operands, ScheduleIs
<1>4. ChainUses(ns, b, i, j, n, held, r) /\ r \in NodeSeq
  BY ChainUsesAre DEF Chained
<1>5. /\ held[1] = b
      /\ \A d \in 2..(n + 1) : held[d] \in Buffer \ Buffers(ns) /\ held[d][2] # 0
      /\ \A c, d \in 1..(n + 1) : held[c] = held[d] => c = d
  BY DEF Held
<1>6. n + 1 \in 2..(n + 1) /\ last \in Buffer \ Buffers(ns)
  BY <1>1, <1>5
<1>7. /\ DOMAIN r = 1..(L + n)
      /\ \A k \in DOMAIN ns : r[Behind(i, n, k)] = IF k = j THEN Rename(ns[k], b, last) ELSE ns[k]
      /\ \A d \in 1..n : r[i + d].body = <<Copy(held[d], held[d + 1])>>
  BY <1>1 DEF ChainBodies
<1>8. /\ \A k \in DOMAIN ns : /\ Behind(i, n, k) \in DOMAIN r
                             /\ Outs(r[Behind(i, n, k)]) = Outs(ns[k])
                             /\ k # j => Ins(r[Behind(i, n, k)]) = Ins(ns[k])
      /\ Ins(r[Behind(i, n, j)]) = (Ins(ns[j]) \ {b}) \cup {last}
      /\ \A d \in 1..n : i + d \in DOMAIN r /\ Outs(r[i + d]) = {held[d + 1]}
  BY <1>1 DEF Chained
<1>9. Buffers(ns) \subseteq Buffers(r)
  <2>1. \A k \in DOMAIN ns : Behind(i, n, k) \in DOMAIN r
    BY <1>1 DEF Chained
  <2>2. \A k \in DOMAIN ns : Outs(r[Behind(i, n, k)]) = Outs(ns[k])
    BY <1>1 DEF Chained
  <2>3. \A k \in DOMAIN ns : k # j => Ins(r[Behind(i, n, k)]) = Ins(ns[k])
    BY <1>1 DEF Chained
  <2>4. Ins(r[Behind(i, n, j)]) = (Ins(ns[j]) \ {b}) \cup {last}
    BY <1>1 DEF Chained
  <2>5. \A z \in DOMAIN r : Ins(r[z]) \subseteq Buffers(r) /\ Outs(r[z]) \subseteq Buffers(r)
    BY DEF Buffers
  <2>6. b \in Buffers(r)
    BY <1>2, <2>1, <2>2, <2>5
  <2> SUFFICES ASSUME NEW k \in DOMAIN ns, NEW x \in Ins(ns[k]) \cup Outs(ns[k]) PROVE x \in Buffers(r)
    BY DEF Buffers
  <2>7. PICK z : z = Behind(i, n, k)
    OBVIOUS
  <2>8. z \in DOMAIN r /\ Ins(r[z]) \subseteq Buffers(r) /\ Outs(r[z]) \subseteq Buffers(r) /\ Outs(r[z]) = Outs(ns[k])
    BY <2>1, <2>2, <2>5, <2>7
  <2>9. x \in Ins(ns[k]) /\ x # b => x \in Ins(r[z])
    BY <2>3, <2>4, <2>7
  <2> QED BY <2>6, <2>8, <2>9
<1>10. \A x \in Buffers(r) \ Buffers(ns) : x[2] # 0
  <2> SUFFICES ASSUME NEW z \in DOMAIN r, NEW x \in Ins(r[z]) \cup Outs(r[z])
               PROVE  x \in Buffers(ns) \/ \E d \in 2..(n + 1) : x = held[d]
    BY <1>5 DEF Buffers
  <2>1. (\E k \in DOMAIN ns : x \in Outs(ns[k]) \cup Ins(ns[k])) \/ \E d \in 1..(n + 1) : x = held[d]
    <3>1. \A d \in 1..n : d \in 1..(n + 1) /\ d + 1 \in 1..(n + 1)
      OBVIOUS
    <3>2. CASE x \in Outs(r[z])
      <4>1. (\E k \in DOMAIN ns : z = Behind(i, n, k) /\ x \in Outs(ns[k])) \/ \E d \in 1..n : z = i + d /\ x = held[d + 1]
        BY <1>4, <3>2 DEF ChainUses
      <4> QED BY <3>1, <4>1
    <3>3. CASE x \in Ins(r[z])
      <4>1. \/ \E k \in DOMAIN ns : z = Behind(i, n, k) /\ x \in Ins(ns[k]) /\ x # b
            \/ z = Behind(i, n, j) /\ x = held[n + 1]
            \/ \E d \in 1..n : z = i + d /\ x = held[d]
        BY <1>4, <3>3 DEF ChainUses
      <4>2. n + 1 \in 1..(n + 1)
        OBVIOUS
      <4> QED BY <3>1, <4>1, <4>2
    <3> QED BY <3>2, <3>3
  <2>2. \A d \in 1..(n + 1) : d = 1 \/ d \in 2..(n + 1)
    OBVIOUS
  <2> QED BY <1>2, <1>5, <2>1, <2>2 DEF Buffers
<1>11. \A d \in 2..(n + 1) : held[d] \in Buffers(r) \ Buffers(ns)
  <2> TAKE d \in 2..(n + 1)
  <2>1. PICK e : e = d - 1
    OBVIOUS
  <2>2. e \in 1..n /\ e + 1 = d
    BY <2>1
  <2>3. i + e \in DOMAIN r /\ Outs(r[i + e]) = {held[d]}
    BY <1>8, <2>2
  <2> QED BY <1>5, <2>3 DEF Buffers
<1>12. PICK c, Y : c = [k \in DOMAIN ns |-> IF k = j THEN last ELSE b] /\ Y = {last}
  OBVIOUS
<1>13. \A k \in DOMAIN ns : Swapped(ns[k].body, r[Behind(i, n, k)].body, b, c[k])
  <2> TAKE k \in DOMAIN ns
  <2>1. PICK m, e : m = r[Behind(i, n, k)] /\ e = c[k]
    OBVIOUS
  <2>2. e \in Buffer
    BY <1>2, <1>6, <1>12, <2>1
  <2>3. m = Rename(ns[k], b, e) \/ (m = ns[k] /\ e = b)
    BY <1>7, <1>12, <2>1
  <2>4. Swapped(ns[k].body, m.body, b, e)
    BY <1>2, <2>2, <2>3, MovedBody
  <2> QED BY <2>1, <2>4
<1>14. Inserted(ns, b, i, n, c, Y, r)
  <2>1. DOMAIN r = 1..(Len(ns) + n) /\ i \in 0..Len(ns)
    BY <1>1, <1>2, <1>7
  <2>2. Y \subseteq Buffers(r) \ Buffers(ns)
    BY <1>1, <1>6, <1>11, <1>12
  <2>3. \A k \in DOMAIN ns : c[k] = b \/ (c[k] \in Y /\ i < k /\ b \notin Outs(ns[k]) /\ \A p \in Producers(ns, b) : p <= i \/ k < p)
    BY <1>2, <1>3, <1>12
  <2> QED BY <1>2, <1>4, <1>9, <1>10, <1>13, <2>1, <2>2, <2>3 DEF Inserted
<1>15. Delivers(ns, b, i, n, Y, r)
  <2>1. \A d \in 1..n : i + d \in DOMAIN r /\ r[i + d].body = <<Copy(held[d], held[d + 1])>>
    BY <1>7, <1>8
  <2>2. Delivers(ns, b, i, n, {held[n + 1]}, r)
    BY <1>2, <1>4, <1>5, <1>9, <1>11, <2>1, ChainDelivers
  <2> QED BY <1>1, <1>12, <2>2
<1> QED BY <1>14, <1>15, InsertMeans

-----------------------------------------------------------------------------
(***************************************************************************)
(* What a pass does for one buffer after the other.                        *)
(***************************************************************************)

Some(T) == CHOOSE x \in T : TRUE

LEMMA SomeIs ==
  ASSUME NEW A
  PROVE  \E pick : \A T \in SUBSET A : T # {} => pick[T] \in T /\ pick[T] = Some(T)
<1>1. PICK pick : pick = [T \in SUBSET A |-> Some(T)]
  OBVIOUS
<1>2. \A T \in SUBSET A : T # {} => Some(T) \in T
  BY DEF Some
<1> QED BY <1>1, <1>2

\* There is a fold over A, and its values are allowed, when each step h[T] leads
\* from a value allowed at the rest of T to one allowed at T.
Visits(A, base, h, it) == it = [T \in SUBSET A |-> IF T = {} THEN base ELSE h[T][it[T \ {Some(T)}]]]

LEMMA VisitsExist ==
  ASSUME NEW A, IsFiniteSet(A), NEW base, NEW h, NEW I, base \in I[{}],
         \A T \in SUBSET A : T # {} => \A v \in I[T \ {Some(T)}] : h[T][v] \in I[T]
  PROVE  \E it : Visits(A, base, h, it) /\ \A T \in SUBSET A : it[T] \in I[T]
<1>1. PICK pick : \A T \in SUBSET A : T # {} => pick[T] \in T /\ pick[T] = Some(T)
  BY SomeIs
<1>2. \A T \in SUBSET A : T # {} => \A v \in I[T \ {pick[T]}] : h[T][v] \in I[T]
  BY <1>1
<1>3. PICK it : Recursion(A, base, h, pick, it) /\ \A T \in SUBSET A : it[T] \in I[T]
  BY <1>1, <1>2, RecursionAllowed
<1>4. it = [T \in SUBSET A |-> IF T = {} THEN base ELSE h[T][it[T \ {pick[T]}]]]
  BY <1>3 DEF Recursion
<1>5. Visits(A, base, h, it)
  BY <1>1, <1>4 DEF Visits
<1> QED BY <1>3, <1>5

LEMMA VisitsStay ==
  ASSUME NEW A, IsFiniteSet(A), NEW f, NEW I, f[{}] \in I[{}],
         \A T \in SUBSET A : T # {} /\ f[T \ {Some(T)}] \in I[T \ {Some(T)}] => f[T] \in I[T]
  PROVE  f[A] \in I[A]
<1>1. PICK pick : \A T \in SUBSET A : T # {} => pick[T] \in T /\ pick[T] = Some(T)
  BY SomeIs
<1>2. \A T \in SUBSET A : T # {} /\ f[T \ {pick[T]}] \in I[T \ {pick[T]}] => f[T] \in I[T]
  BY <1>1
<1>3. \A T \in SUBSET A : f[T] \in I[T]
  BY <1>1, <1>2, RecursionStays
<1> QED BY <1>3

LEMMA SomeMember ==
  ASSUME NEW T, T # {}
  PROVE  Some(T) \in T
BY DEF Some

\* The copies of InsertCopyNode. T holds the buffers whose turn has been.
Copied(ns, i, bs, T, v) ==
  /\ v \in NodeSeq /\ Defined(v) /\ Channels(v) /\ Downhill(v) /\ Same(ns, v)
  /\ i \in DOMAIN v /\ \A b \in bs \ T : b \in Outs(v[i]) /\ Far(v, b, i) # {}

LEMMA CopyStep ==
  ASSUME NEW ns, NEW i, NEW bs, \A b \in bs : Carried(b), NEW T \in SUBSET bs, NEW b \in T,
         NEW v, Copied(ns, i, bs, T \ {b}, v)
  PROVE  Copied(ns, i, bs, T, CopyChain(v, b, i))
<1>1. v \in NodeSeq /\ Defined(v) /\ Channels(v) /\ Downhill(v) /\ i \in DOMAIN v
  BY DEF Copied
<1>2. b \in Outs(v[i]) /\ Far(v, b, i) # {} /\ Carried(b)
  BY DEF Copied
<1>3. PICK j : FarReader(v, b, i, j) /\ Far(v, b, i) = {j}
  BY <1>1, <1>2, FarReaderIs
<1>4. PICK n, held :
        /\ n \in Nat
        /\ n = v[i].level - v[j].level - 1 /\ n >= 1
        /\ Held(v, b, n, held)
        /\ Chained(v, b, i, j, n, held, CopyChain(v, b, i))
        /\ ChainBodies(v, b, i, j, n, held, CopyChain(v, b, i))
  BY <1>1, <1>3, ChainIs
<1>5. PICK r : r = CopyChain(v, b, i)
  OBVIOUS
<1>6. Chained(v, b, i, j, n, held, r) /\ r \in NodeSeq
  BY <1>4, <1>5 DEF Chained
<1>7. Defined(r)
  BY <1>1, <1>3, <1>4, <1>6, ChainDefined
<1>8. Channels(r)
  BY <1>1, <1>3, <1>4, <1>6, ChainChannels
<1>9. Downhill(r)
  BY <1>1, <1>3, <1>4, <1>6, ChainDownhill
<1>10. /\ i \in DOMAIN r /\ Outs(r[i]) = Outs(v[i])
       /\ \A c : c # b /\ Carried(c) /\ Far(v, c, i) # {} => Far(r, c, i) # {}
  BY <1>1, <1>3, <1>4, <1>6, ChainOthers
<1>11. \A c \in bs \ T : c \in Outs(r[i]) /\ Far(r, c, i) # {}
  <2> TAKE c \in bs \ T
  <2>1. c # b /\ Carried(c) /\ c \in Outs(v[i]) /\ Far(v, c, i) # {}
    BY DEF Copied
  <2> QED BY <1>10, <2>1
<1>12. Same(ns, r)
  <2>1. Meaning(r) = Meaning(v)
    BY <1>1, <1>3, <1>4, <1>5, <1>6, ChainMeans
  <2> QED BY <2>1 DEF Copied, Same
<1> QED BY <1>5, <1>6, <1>7, <1>8, <1>9, <1>10, <1>11, <1>12 DEF Copied

CopyNodes(ns, i) == FoldSet(LAMBDA b, acc : CopyChain(acc, b, i), ns, Bypassed(ns, i))

LEMMA CopyNodeKeeps ==
  ASSUME NEW ns \in NodeSeq, Defined(ns), Channels(ns), Downhill(ns), NEW i \in DOMAIN ns,
         NEW r, r = CopyNodes(ns, i)
  PROVE  r \in NodeSeq /\ Defined(r) /\ Channels(r) /\ Downhill(r) /\ Same(ns, r)
<1>1. PICK bs : bs = Bypassed(ns, i)
  OBVIOUS
<1>2. IsFiniteSet(bs) /\ \A b \in bs : Carried(b) /\ b \in Outs(ns[i]) /\ Far(ns, b, i) # {}
  <2>1. IsFiniteSet(Outs(ns[i])) /\ bs \subseteq Outs(ns[i])
    BY <1>1, ScheduleIs, Operands DEF Bypassed
  <2> QED BY <1>1, <2>1, FS_Subset DEF Bypassed
<1> DEFINE Into(iter) == iter = [T \in SUBSET bs |->
               IF T = {} THEN ns ELSE CopyChain(iter[T \ {Some(T)}], Some(T), i)]
<1>3. r = (CHOOSE iter : Into(iter))[bs]
  BY <1>1 DEF CopyNodes, FoldSet, MapThenFoldSet, Some
<1>4. PICK I, h : /\ I = [T \in SUBSET bs |-> {v \in NodeSeq : Copied(ns, i, bs, T, v)}]
                  /\ h = [T \in SUBSET bs |-> [v \in NodeSeq |-> CopyChain(v, Some(T), i)]]
  OBVIOUS
<1>5. \A T \in SUBSET bs : \A v : v \in I[T] <=> Copied(ns, i, bs, T, v)
  BY <1>4 DEF Copied
<1>6. ns \in I[{}]
  BY <1>2, <1>5 DEF Copied, Same
<1>7. ASSUME NEW T \in SUBSET bs, T # {}, NEW v \in I[T \ {Some(T)}]
      PROVE  v \in NodeSeq /\ CopyChain(v, Some(T), i) \in I[T]
  <2>1. PICK b : b = Some(T)
    OBVIOUS
  <2>2. b \in T /\ Copied(ns, i, bs, T \ {b}, v)
    BY <1>5, <1>7, <2>1, SomeMember
  <2>3. Copied(ns, i, bs, T, CopyChain(v, b, i))
    BY <1>2, <2>2, CopyStep
  <2> QED BY <1>5, <2>1, <2>2, <2>3 DEF Copied
<1>8. PICK it : Visits(bs, ns, h, it) /\ \A T \in SUBSET bs : it[T] \in I[T]
  <2>1. \A T \in SUBSET bs : T # {} => \A v \in I[T \ {Some(T)}] : h[T][v] \in I[T]
    BY <1>4, <1>7
  <2> QED BY <1>2, <1>6, <2>1, VisitsExist
<1>9. Into(it)
  <2>1. \A T \in SUBSET bs : T # {} => h[T][it[T \ {Some(T)}]] = CopyChain(it[T \ {Some(T)}], Some(T), i)
    BY <1>4, <1>7, <1>8
  <2> QED BY <1>8, <2>1 DEF Visits
<1>10. PICK f : f = CHOOSE iter : Into(iter)
  OBVIOUS
<1>11. Into(f) /\ r = f[bs]
  BY <1>3, <1>9, <1>10
<1>12. f[{}] \in I[{}]
  BY <1>6, <1>11
<1>13. \A T \in SUBSET bs : T # {} /\ f[T \ {Some(T)}] \in I[T \ {Some(T)}] => f[T] \in I[T]
  BY <1>7, <1>11
<1> HIDE DEF Into
<1>14. f[bs] \in I[bs]
  BY <1>2, <1>12, <1>13, VisitsStay
<1>15. Copied(ns, i, bs, bs, r)
  BY <1>5, <1>11, <1>14
<1> QED BY <1>15 DEF Copied

-----------------------------------------------------------------------------
(***************************************************************************)
(* EliminateMultiProducer.                                                 *)
(***************************************************************************)

\* The last of some numbers up to j: as many are up to it as up to j.
LEMMA UpToIs ==
  ASSUME NEW P \in SUBSET Nat, IsFiniteSet(P), NEW j \in Nat
  PROVE  /\ UpTo(P, j) \in Nat
         /\ \A i \in P : i <= j => UpTo(P, j) >= 1 /\ \E p \in P : p <= j /\ UpTo(P, p) = UpTo(P, j)
<1>1. PICK S : S = {i \in P : i <= j}
  OBVIOUS
<1>2. IsFiniteSet(S) /\ S \in SUBSET Nat
  BY <1>1, FS_Subset
<1>3. UpTo(P, j) = Cardinality(S)
  BY <1>1 DEF UpTo
<1>4. ASSUME NEW i \in P, i <= j PROVE UpTo(P, j) >= 1 /\ \E p \in P : p <= j /\ UpTo(P, p) = UpTo(P, j)
  <2>1. S # {}
    BY <1>1, <1>4
  <2>2. Cardinality(S) \in Nat /\ Cardinality(S) # 0
    BY <1>2, <2>1, FS_CardinalityType, FS_EmptySet
  <2>3. PICK p : p \in S /\ \A x \in S : x <= p
    BY <1>2, <2>1, MaxIs
  <2>4. {x \in P : x <= p} = S
    <3>1. p \in P /\ p \in Nat /\ p <= j
      BY <1>1, <2>3
    <3>2. \A x \in P : x \in S <=> x <= p
      BY <1>1, <2>3, <3>1
    <3> QED BY <1>1, <3>2
  <2>5. UpTo(P, p) = Cardinality(S)
    BY <2>4 DEF UpTo
  <2> QED BY <1>1, <1>3, <2>2, <2>3, <2>5
<1>5. UpTo(P, j) \in Nat
  BY <1>2, <1>3, FS_CardinalityType
<1> QED BY <1>4, <1>5

\* The one before j, when j is not the first.
LEMMA UpToBefore ==
  ASSUME NEW P \in SUBSET Nat, IsFiniteSet(P), NEW j \in P, UpTo(P, j) > 1
  PROVE  \E p \in P : p < j /\ UpTo(P, p) = UpTo(P, j) - 1
<1>1. PICK S : S = {i \in P : i <= j}
  OBVIOUS
<1>a. S \in SUBSET P /\ j \in Nat /\ j \in S
  BY <1>1
<1>2. IsFiniteSet(S) /\ S \in SUBSET Nat /\ j \in S
  BY <1>a, FS_Subset
<1>3. UpTo(P, j) = Cardinality(S) /\ Cardinality(S) \in Nat
  BY <1>1, <1>2, FS_CardinalityType DEF UpTo
<1>4. PICK R : R = S \ {j}
  OBVIOUS
<1>5. IsFiniteSet(R) /\ Cardinality(R) = Cardinality(S) - 1 /\ R \in SUBSET Nat
  BY <1>2, <1>4, FS_RemoveElement
<1>6. R # {}
  BY <1>3, <1>5, FS_EmptySet
<1>7. PICK p : p \in R /\ \A x \in R : x <= p
  BY <1>5, <1>6, MaxIs
<1>8. p \in P /\ p < j
  BY <1>1, <1>2, <1>4, <1>7
<1>9. {x \in P : x <= p} = R
  <2>1. p \in Nat /\ j \in Nat
    BY <1>8
  <2>2. \A x \in P : x \in R <=> x <= p
    BY <1>1, <1>4, <1>7, <1>8, <2>1
  <2> QED BY <1>1, <1>4, <2>2
<1>10. UpTo(P, p) = Cardinality(R)
  BY <1>9 DEF UpTo
<1> QED BY <1>3, <1>5, <1>8, <1>10

\* A node that a copy of x into y, which the node writes, has been put before.
LEMMA HeadIs ==
  ASSUME NEW n \in NodeSet, NEW x \in Buffer, NEW y \in Outs(n), NEW r,
         r = [n EXCEPT !.body = <<Copy(x, y)>> \o n.body]
  PROVE  /\ r \in NodeSet /\ r.level = n.level
         /\ Outs(r) = Outs(n) /\ Ins(r) \subseteq Ins(n) \cup {x}
<1>1. n.body \in Seq(Statement) /\ Len(n.body) \in Nat /\ DOMAIN n.body = 1..Len(n.body) /\ n.level \in Nat \cup {NoLevel}
  BY NodeIs
<1>2. y \in Buffer
  BY Operands
<1>3. PICK c, s : c = Copy(x, y) /\ s = <<c>>
  OBVIOUS
<1>4. c \in Statement /\ c.to = y /\ Reads(c) = {x}
  BY <1>2, <1>3, CopyIs
<1>5. PICK l, o : l = Len(n.body) /\ o = 1
  OBVIOUS
<1>6. s \in Seq(Statement) /\ Len(s) = o
  BY <1>3, <1>4, <1>5, OneIs
<1>7. PICK body : body = s \o n.body
  OBVIOUS
<1>8. body \in Seq(Statement) /\ Len(body) = o + l /\ Joins(body, s, o, n.body, l)
  <2>1. PICK t : t = n.body
    OBVIOUS
  <2>2. t \in Seq(Statement)
    BY <1>1, <2>1
  <2>3. Len(t) = l
    BY <1>5, <2>1
  <2>4. s \o t \in Seq(Statement) /\ Len(s \o t) = o + l /\ Joins(s \o t, s, o, t, l)
    BY <1>6, <2>2, <2>3, Joined
  <2> QED BY <1>7, <2>1, <2>4
<1>9. r = [n EXCEPT !.body = body]
  BY <1>3, <1>7
<1>10. r \in NodeSet /\ r.level = n.level /\ r.body = body
  BY <1>8, <1>9 DEF NodeSet
<1>11. DOMAIN body = 1..(1 + l)
  BY <1>5, <1>8, LenProperties
<1>12. body[1] = c
  BY <1>3, <1>5, <1>8 DEF Joins
<1>13. \A k \in 1..l : 1 + k \in 1..(1 + l) /\ body[1 + k] = n.body[k]
  BY <1>1, <1>5, <1>8 DEF Joins
<1>14. \A k \in 1..(1 + l) : k = 1 \/ (k - 1 \in 1..l /\ body[k] = n.body[k - 1])
  <2> TAKE k \in 1..(1 + l)
  <2>1. CASE k # 1
    <3>1. PICK e : e = k - 1
      OBVIOUS
    <3>2. e \in 1..l /\ 1 + e = k
      BY <1>1, <1>5, <2>1, <3>1
    <3> QED BY <1>13, <3>1, <3>2
  <2> QED BY <2>1
<1>15. \A z : z \in Outs(r) <=> \E k \in 1..(1 + l) : z = body[k].to
  BY <1>10, <1>11 DEF Outs
<1>16. \A z : z \in Used(r) <=> \E k \in 1..(1 + l) : z \in Reads(body[k])
  BY <1>10, <1>11 DEF Used
<1>17. \A z : z \in Outs(n) <=> \E k \in 1..l : z = n.body[k].to
  BY <1>1, <1>5 DEF Outs
<1>18. \A z : z \in Used(n) <=> \E k \in 1..l : z \in Reads(n.body[k])
  BY <1>1, <1>5 DEF Used
<1>19. Outs(r) = Outs(n)
  <2>1. ASSUME NEW z \in Outs(r) PROVE z \in Outs(n)
    BY <1>4, <1>12, <1>14, <1>15, <1>17
  <2>2. ASSUME NEW z \in Outs(n) PROVE z \in Outs(r)
    BY <1>13, <1>15, <1>17
  <2> QED BY <2>1, <2>2
<1>20. Used(r) \subseteq Used(n) \cup {x}
  BY <1>4, <1>12, <1>14, <1>16, <1>18
<1>21. Ins(r) \subseteq Ins(n) \cup {x}
  BY <1>10, <1>19, <1>20, Operands
<1> QED BY <1>10, <1>19, <1>21

\* The buffer that the m-th producer of b and the nodes after it use.
Private(ns, b, m) == IF m < 2 THEN b ELSE New(ns, b, m - 1)

LEMMA PrivateIs ==
  ASSUME NEW ns \in NodeSeq, NEW b \in Buffer, NEW m \in Nat
  PROVE  /\ Private(ns, b, m) \in Buffer
         /\ Private(ns, b, m) = b \/ Private(ns, b, m) \notin Buffers(ns)
         /\ ~IsArg(b) => ~IsArg(Private(ns, b, m))
<1>1. CASE m < 2
  BY <1>1 DEF Private
<1>2. CASE ~(m < 2)
  <2>1. PICK k : k = m - 1
    OBVIOUS
  <2>2. k \in Nat /\ k # 0 /\ Private(ns, b, m) = New(ns, b, k)
    BY <1>2, <2>1 DEF Private
  <2>3. New(ns, b, k) \in Buffer \ Buffers(ns) /\ New(ns, b, k)[2] # 0
    BY <2>2, Fresh
  <2> QED BY <2>2, <2>3 DEF IsArg
<1> QED BY <1>1, <1>2

Privatized(ns, b, r) ==
  /\ r \in NodeSeq /\ DOMAIN r = DOMAIN ns
  /\ \A j \in DOMAIN ns :
       /\ r[j].level = ns[j].level
       /\ \A x : x \in Outs(r[j]) <=> \/ x \in Outs(ns[j]) /\ x # b
                                      \/ b \in Outs(ns[j]) /\ x = Private(ns, b, UpTo(Producers(ns, b), j))
       /\ \A x \in Ins(r[j]) : \/ x \in Ins(ns[j]) /\ x # b
                               \/ b \in Ins(ns[j]) /\ x = Private(ns, b, UpTo(Producers(ns, b), j))
                               \/ /\ j \in Producers(ns, b) /\ UpTo(Producers(ns, b), j) > 1
                                  /\ x = Private(ns, b, UpTo(Producers(ns, b), j) - 1)

\* The statements of its nodes: j has the copy ahead of them or not.
Heads(ns, b, j) == UpTo(Producers(ns, b), j) > 1 /\ j \in Producers(ns, b) /\ ReadsBeforeWriting(ns[j], b)
Own(ns, b, j) == Rename(ns[j], b, Private(ns, b, UpTo(Producers(ns, b), j)))
Ahead(ns, b, j) == <<Copy(Private(ns, b, UpTo(Producers(ns, b), j) - 1), Private(ns, b, UpTo(Producers(ns, b), j)))>>

PrivateBodies(ns, b, r) ==
  \A j \in DOMAIN ns : /\ Heads(ns, b, j) => r[j].body = Ahead(ns, b, j) \o Own(ns, b, j).body
                       /\ ~Heads(ns, b, j) => r[j].body = Own(ns, b, j).body

LEMMA PrivatizeIs ==
  ASSUME NEW ns \in NodeSeq, NEW b \in Buffer
  PROVE  Privatized(ns, b, Privatize(ns, b)) /\ PrivateBodies(ns, b, Privatize(ns, b))
<1>1. PICK r, P, L : r = Privatize(ns, b) /\ P = Producers(ns, b) /\ L = Len(ns)
  OBVIOUS
<1>2. P \in SUBSET Nat /\ IsFiniteSet(P) /\ P \subseteq DOMAIN ns
  BY <1>1, Positions
<1>3. L \in Nat /\ DOMAIN ns = 1..L /\ \A j \in 1..L : ns[j] \in NodeSet
  BY <1>1, ScheduleIs
<1> DEFINE own(j) == Rename(ns[j], b, Private(ns, b, UpTo(P, j)))
           Moved(j) == IF UpTo(P, j) > 1 /\ j \in P /\ ReadsBeforeWriting(ns[j], b)
                       THEN [own(j) EXCEPT !.body = <<Copy(Private(ns, b, UpTo(P, j) - 1), Private(ns, b, UpTo(P, j)))>> \o own(j).body]
                       ELSE own(j)
<1>4. r = [j \in DOMAIN ns |-> Moved(j)]
  BY <1>1 DEF Privatize, Private
<1>5. ASSUME NEW j \in 1..L
      PROVE  /\ Moved(j) \in NodeSet /\ Moved(j).level = ns[j].level
             /\ \A x : x \in Outs(Moved(j)) <=> \/ x \in Outs(ns[j]) /\ x # b
                                                \/ b \in Outs(ns[j]) /\ x = Private(ns, b, UpTo(P, j))
             /\ \A x \in Ins(Moved(j)) : \/ x \in Ins(ns[j]) /\ x # b
                                         \/ b \in Ins(ns[j]) /\ x = Private(ns, b, UpTo(P, j))
                                         \/ /\ j \in P /\ UpTo(P, j) > 1
                                            /\ x = Private(ns, b, UpTo(P, j) - 1)
  <2>1. PICK m, c, w : m = UpTo(P, j) /\ c = Private(ns, b, m) /\ w = Rename(ns[j], b, c)
    OBVIOUS
  <2>2. m \in Nat
    BY <1>2, <1>3, <2>1, UpToIs
  <2>3. c \in Buffer /\ (c = b \/ c \notin Buffers(ns))
    BY <2>1, <2>2, PrivateIs
  <2>4. c = b \/ c \notin Ins(ns[j]) \cup Outs(ns[j])
    BY <1>3, <2>3 DEF Buffers
  <2>5. /\ w \in NodeSet /\ w.level = ns[j].level
        /\ Outs(w) = {Instead(x, b, c) : x \in Outs(ns[j])}
        /\ Ins(w) = {Instead(x, b, c) : x \in Ins(ns[j])}
    BY <1>3, <2>1, <2>3, <2>4, RenameIs
  <2>6. /\ \A x : x \in Outs(w) <=> \/ x \in Outs(ns[j]) /\ x # b
                                    \/ b \in Outs(ns[j]) /\ x = c
        /\ \A x \in Ins(w) : \/ x \in Ins(ns[j]) /\ x # b
                             \/ b \in Ins(ns[j]) /\ x = c
    BY <2>5 DEF Instead
  <2>7. CASE m > 1 /\ j \in P /\ ReadsBeforeWriting(ns[j], b)
    <3>1. PICK d, v : d = Private(ns, b, m - 1) /\ v = Moved(j)
      OBVIOUS
    <3>2. v = [w EXCEPT !.body = <<Copy(d, c)>> \o w.body]
      BY <2>1, <2>7, <3>1
    <3>3. m - 1 \in Nat
      BY <2>2, <2>7
    <3>4. d \in Buffer
      BY <3>1, <3>3, PrivateIs
    <3>5. c \in Outs(w)
      BY <1>1, <2>6, <2>7 DEF Producers
    <3>6. v \in NodeSet /\ v.level = w.level /\ Outs(v) = Outs(w) /\ Ins(v) \subseteq Ins(w) \cup {d}
      BY <2>5, <3>2, <3>4, <3>5, HeadIs
    <3> HIDE DEF Moved
    <3> QED BY <2>1, <2>5, <2>6, <2>7, <3>1, <3>6
  <2>8. CASE ~(m > 1 /\ j \in P /\ ReadsBeforeWriting(ns[j], b))
    <3>1. Moved(j) = w
      BY <2>1, <2>8
    <3> HIDE DEF Moved
    <3> QED BY <2>1, <2>5, <2>6, <3>1
  <2> QED BY <2>7, <2>8
<1>8. PrivateBodies(ns, b, r)
  <2> SUFFICES ASSUME NEW j \in DOMAIN ns
               PROVE  /\ Heads(ns, b, j) => r[j].body = Ahead(ns, b, j) \o Own(ns, b, j).body
                      /\ ~Heads(ns, b, j) => r[j].body = Own(ns, b, j).body
    BY DEF PrivateBodies
  <2>1. r[j] = Moved(j)
    BY <1>4
  <2>2. PICK w : w = own(j)
    OBVIOUS
  <2>3. w \in NodeSet
    <3>1. UpTo(P, j) \in Nat
      BY <1>2, <1>3, UpToIs
    <3>2. Private(ns, b, UpTo(P, j)) \in Buffer
      BY <3>1, PrivateIs
    <3> QED BY <1>3, <2>2, <3>2, RenameIs
  <2>4. w = Own(ns, b, j)
    BY <1>1, <2>2 DEF Own
  <2>5. CASE Heads(ns, b, j)
    <3>1. PICK body : body = Ahead(ns, b, j) \o w.body
      OBVIOUS
    <3>2. r[j] = [w EXCEPT !.body = body]
      BY <1>1, <2>1, <2>2, <2>5, <3>1 DEF Heads, Ahead
    <3>3. r[j].body = body
      BY <2>3, <3>2 DEF NodeSet
    <3> QED BY <2>4, <2>5, <3>1, <3>3
  <2>6. CASE ~Heads(ns, b, j)
    <3>1. r[j] = w
      BY <1>1, <2>1, <2>2, <2>6 DEF Heads
    <3> QED BY <2>4, <2>6, <3>1
  <2> QED BY <2>5, <2>6
<1> HIDE DEF Moved
<1>6. r \in NodeSeq /\ DOMAIN r = DOMAIN ns
  <2>1. r \in [1..L -> NodeSet]
    BY <1>3, <1>4, <1>5
  <2> QED BY <1>3, <2>1 DEF NodeSeq
<1>7. Privatized(ns, b, r)
  BY <1>1, <1>3, <1>4, <1>5, <1>6 DEF Privatized
<1> QED BY <1>1, <1>7, <1>8

\* What holds before the nodes are given levels.
Early(ns) == ns \in NodeSeq /\ NoLevels(ns) /\ Defined(ns)

LEMMA PrivatizeKeeps ==
  ASSUME NEW ns, Early(ns), NEW b \in Buffer, ~IsArg(b)
  PROVE  Early(Privatize(ns, b))
<1>1. PICK r, P : r = Privatize(ns, b) /\ P = Producers(ns, b)
  OBVIOUS
<1>2. ns \in NodeSeq /\ NoLevels(ns) /\ Defined(ns)
  BY DEF Early
<1>3. Privatized(ns, b, r)
  BY <1>1, <1>2, PrivatizeIs
<1>4. P \in SUBSET Nat /\ IsFiniteSet(P) /\ P \subseteq DOMAIN ns /\ DOMAIN ns \in SUBSET Nat
  BY <1>1, <1>2, Positions, ScheduleIs
<1>5. r \in NodeSeq /\ NoLevels(r) /\ DOMAIN r = DOMAIN ns
  BY <1>2, <1>3 DEF Privatized, NoLevels
<1>6. \A j \in DOMAIN ns : UpTo(P, j) \in Nat
  BY <1>4, UpToIs
<1>7. \A j \in DOMAIN ns : b \in Outs(ns[j]) <=> j \in P
  BY <1>1 DEF Producers
<1>8. \A p \in P : p \in DOMAIN r /\ Private(ns, b, UpTo(P, p)) \in Outs(r[p])
  BY <1>1, <1>3, <1>4, <1>5, <1>7 DEF Privatized
<1>9. \A m \in Nat : ~IsArg(Private(ns, b, m)) /\ (Private(ns, b, m) = b \/ Private(ns, b, m) \notin Buffers(ns))
  BY <1>2, PrivateIs
<1>10. ASSUME NEW j \in DOMAIN r, NEW x \in Ins(r[j])
       PROVE  IF IsArg(x) THEN Producers(r, x) = {} ELSE \E i \in Producers(r, x) : i < j
  <2>1. CASE x \in Ins(ns[j]) /\ x # b
    <3>1. CASE IsArg(x)
      <4>1. Producers(ns, x) = {}
        BY <1>2, <1>5, <2>1, <3>1 DEF Defined
      <4>2. ASSUME NEW i \in DOMAIN r, x \in Outs(r[i]) PROVE FALSE
        <5>1. x \in Outs(ns[i]) \/ x = Private(ns, b, UpTo(P, i))
          BY <1>1, <1>3, <1>5, <4>2 DEF Privatized
        <5> QED BY <1>5, <1>6, <1>9, <3>1, <4>1, <5>1 DEF Producers
      <4> QED BY <3>1, <4>2 DEF Producers
    <3>2. CASE ~IsArg(x)
      <4>1. PICK i \in DOMAIN ns : x \in Outs(ns[i]) /\ i < j
        BY <1>2, <1>5, <2>1, <3>2 DEF Defined, Producers
      <4>2. i \in DOMAIN r /\ x \in Outs(r[i])
        BY <1>3, <1>5, <2>1, <4>1 DEF Privatized
      <4> QED BY <3>2, <4>1, <4>2 DEF Producers
    <3> QED BY <3>1, <3>2
  <2>2. CASE b \in Ins(ns[j]) /\ x = Private(ns, b, UpTo(P, j))
    <3>1. PICK i \in P : i < j
      BY <1>1, <1>2, <1>5, <2>2 DEF Defined
    <3>2. i <= j /\ j \in Nat
      BY <1>4, <1>5, <3>1
    <3>3. PICK p \in P : p <= j /\ UpTo(P, p) = UpTo(P, j)
      BY <1>4, <3>2, UpToIs
    <3>4. p # j
      BY <1>2, <1>5, <1>7, <2>2, <3>3, Operands, ScheduleIs
    <3>5. p \in DOMAIN r /\ x \in Outs(r[p]) /\ p < j
      BY <1>4, <1>8, <2>2, <3>2, <3>3, <3>4
    <3> QED BY <1>5, <1>6, <1>9, <2>2, <3>5 DEF Producers
  <2>3. CASE j \in P /\ UpTo(P, j) > 1 /\ x = Private(ns, b, UpTo(P, j) - 1)
    <3>1. PICK p \in P : p < j /\ UpTo(P, p) = UpTo(P, j) - 1
      BY <1>4, <2>3, UpToBefore
    <3>2. p \in DOMAIN r /\ x \in Outs(r[p])
      BY <1>8, <2>3, <3>1
    <3>3. ~IsArg(x)
      BY <1>4, <1>6, <1>9, <2>3, <3>1
    <3> QED BY <3>1, <3>2, <3>3 DEF Producers
  <2> QED BY <1>1, <1>3, <1>5, <2>1, <2>2, <2>3 DEF Privatized
<1>11. Early(r)
  BY <1>5, <1>10 DEF Early, Defined
<1> QED BY <1>1, <1>11

\* One number more.
LEMMA UpToNext ==
  ASSUME NEW P \in SUBSET Nat, IsFiniteSet(P), NEW j \in Nat, NEW i, i = j - 1
  PROVE  /\ j \notin P => UpTo(P, j) = UpTo(P, i)
         /\ j \in P => UpTo(P, j) = UpTo(P, i) + 1
<1>1. PICK S, R : S = {x \in P : x <= j} /\ R = {x \in P : x <= i}
  OBVIOUS
<1>2. UpTo(P, j) = Cardinality(S) /\ UpTo(P, i) = Cardinality(R)
  BY <1>1 DEF UpTo
<1>3. IsFiniteSet(R)
  BY <1>1, FS_Subset
<1>4. CASE j \notin P
  <2>1. \A x \in P : x <= j <=> x <= i
    BY <1>4
  <2>2. S = R
    BY <1>1, <2>1
  <2> QED BY <1>2, <1>4, <2>2
<1>5. CASE j \in P
  <2>1. \A x \in P : x \in S <=> x \in R \/ x = j
    BY <1>1, <1>5
  <2>2. S \subseteq P /\ R \subseteq P /\ j \notin R
    BY <1>1
  <2>4. S = R \cup {j}
    BY <1>5, <2>1, <2>2
  <2>3. Cardinality(S) = Cardinality(R) + 1
    BY <1>3, <2>2, <2>4, FS_AddElement
  <2> QED BY <1>2, <1>5, <2>3
<1> QED BY <1>4, <1>5

LEMMA UpToNone ==
  ASSUME NEW P \in SUBSET Nat, NEW j \in Nat, \A x \in P : ~(x <= j)
  PROVE  UpTo(P, j) = 0
<1>1. {x \in P : x <= j} = {}
  OBVIOUS
<1> QED BY <1>1, FS_EmptySet DEF UpTo

LEMMA UpToFirst ==
  ASSUME NEW P \in SUBSET Nat, IsFiniteSet(P), P # {}
  PROVE  \E p \in P : UpTo(P, p) = 1
<1>1. PICK p : p = Min(P)
  OBVIOUS
<1>2. p \in P /\ \A x \in P : p <= x
  BY <1>1, MinIs
<1>3. p \in Nat
  BY <1>2
<1>4. \A x \in P : x <= p <=> x = p
  BY <1>2, <1>3
<1>5. {x \in P : x <= p} = {p}
  BY <1>2, <1>4
<1>6. UpTo(P, p) = 1
  BY <1>5, FS_Singleton DEF UpTo
<1> QED BY <1>2, <1>6

\* Where the statements of node j are in the new node.
Sits(ns, b, r, j, D, o) ==
  /\ D \in Seq(Statement) /\ Len(D) \in Nat /\ o \in Nat /\ Swapped(ns[j].body, D, b, Private(ns, b, UpTo(Producers(ns, b), j)))
  /\ \A k \in 1..Len(D) : o + k \in 1..Len(r[j].body) /\ r[j].body[o + k] = D[k]

LEMMA PrivateSits ==
  ASSUME NEW ns \in NodeSeq, NEW b \in Buffer, NEW r, PrivateBodies(ns, b, r), NEW j \in DOMAIN ns
  PROVE  /\ Heads(ns, b, j) => /\ Sits(ns, b, r, j, Own(ns, b, j).body, 1)
                               /\ Len(r[j].body) = 1 + Len(Own(ns, b, j).body) /\ Len(Ahead(ns, b, j)) = 1
                               /\ Joins(r[j].body, Ahead(ns, b, j), 1, Own(ns, b, j).body, Len(Own(ns, b, j).body))
         /\ ~Heads(ns, b, j) => Sits(ns, b, r, j, Own(ns, b, j).body, 0)
<1>1. PICK P, m, c, w : P = Producers(ns, b) /\ m = UpTo(P, j) /\ c = Private(ns, b, m) /\ w = Own(ns, b, j)
  OBVIOUS
<1>2. P \in SUBSET Nat /\ IsFiniteSet(P) /\ j \in Nat
  BY <1>1, Positions, ScheduleIs
<1>3. m \in Nat
  BY <1>1, <1>2, UpToIs
<1>4. c \in Buffer
  BY <1>1, <1>3, PrivateIs
<1>5. w = Rename(ns[j], b, c) /\ ns[j] \in NodeSet
  BY <1>1, ScheduleIs DEF Own
<1>6. PICK D : D = w.body
  OBVIOUS
<1>7. D \in Seq(Statement) /\ Swapped(ns[j].body, D, b, c) /\ Len(D) \in Nat
  BY <1>4, <1>5, <1>6, RenameBody, LenProperties
<1>8. CASE ~Heads(ns, b, j)
  <2>1. r[j].body = D
    BY <1>1, <1>6, <1>8 DEF PrivateBodies
  <2>2. \A k \in 1..Len(D) : 0 + k = k
    BY <1>7
  <2>3. Sits(ns, b, r, j, D, 0)
    BY <1>1, <1>7, <2>1, <2>2 DEF Sits
  <2> QED BY <1>1, <1>6, <1>8, <2>3
<1>9. CASE Heads(ns, b, j)
  <2>1. PICK d, e : d = Private(ns, b, m - 1) /\ e = Copy(d, c)
    OBVIOUS
  <2>2. m - 1 \in Nat
    BY <1>1, <1>3, <1>9 DEF Heads
  <2>3. d \in Buffer
    BY <2>1, <2>2, PrivateIs
  <2>4. e \in Statement
    BY <1>4, <2>1, <2>3, CopyIs
  <2>5. PICK s, l, n : s = <<e>> /\ l = Len(D) /\ n = 1
    OBVIOUS
  <2>6. s \in Seq(Statement) /\ n = Len(s) /\ s = Ahead(ns, b, j)
    BY <1>1, <2>1, <2>4, <2>5, OneIs DEF Ahead
  <2>7. r[j].body = s \o D
    BY <1>1, <1>6, <1>9, <2>6 DEF PrivateBodies
  <2>8. s \o D \in Seq(Statement) /\ Len(s \o D) = n + l /\ Joins(s \o D, s, n, D, l)
    <3>1. n = Len(s)
      BY <2>6
    <3>2. l = Len(D)
      BY <2>5
    <3>3. s \in Seq(Statement)
      BY <2>6
    <3>4. D \in Seq(Statement)
      BY <1>7
    <3> QED BY <3>1, <3>2, <3>3, <3>4, Joined
  <2>9. \A k \in 1..Len(D) : 1 + k \in 1..Len(r[j].body) /\ r[j].body[1 + k] = D[k]
    <3>1. l \in Nat /\ l = Len(D) /\ n = 1
      BY <1>7, <2>5
    <3>2. \A k \in 1..l : (s \o D)[1 + k] = D[k]
      BY <2>8, <3>1 DEF Joins
    <3> QED BY <2>7, <2>8, <3>1, <3>2
  <2>10. Sits(ns, b, r, j, D, 1)
    BY <1>1, <1>7, <2>9 DEF Sits
  <2>11. Len(r[j].body) = 1 + Len(D) /\ Len(Ahead(ns, b, j)) = 1 /\ Joins(r[j].body, Ahead(ns, b, j), 1, D, Len(D))
    BY <2>5, <2>6, <2>7, <2>8
  <2> QED BY <1>1, <1>6, <1>9, <2>10, <2>11
<1> QED BY <1>8, <1>9

LEMMA SomeSit ==
  ASSUME NEW ns \in NodeSeq, NEW b \in Buffer, NEW r \in NodeSeq, PrivateBodies(ns, b, r), DOMAIN r = DOMAIN ns, NEW j \in DOMAIN ns
  PROVE  \E o : Sits(ns, b, r, j, Own(ns, b, j).body, o)
BY PrivateSits

\* It writes buffers of the new schedule only.
LEMMA SitsStay ==
  ASSUME NEW ns, NEW b, NEW r \in NodeSeq, NEW j \in DOMAIN r, NEW D, NEW o, Sits(ns, b, r, j, D, o)
  PROVE  Stays(D, Buffers(r)) /\ \A k \in 1..Len(D) : Reads(D[k]) \subseteq Buffers(r)
<1> SUFFICES ASSUME NEW k \in 1..Len(D) PROVE D[k].to \in Buffers(r) /\ Reads(D[k]) \subseteq Buffers(r)
  BY DEF Stays
<1>1. PICK l : l = o + k
  OBVIOUS
<1>2. l \in 1..Len(r[j].body) /\ r[j].body[l] = D[k]
  BY <1>1 DEF Sits
<1> QED BY <1>2, BodyStays DEF Stays

\* The buffer in the place of b behind node j.
Now(ns, b, j) == Private(ns, b, UpTo(Producers(ns, b), j))

LEMMA NowIs ==
  ASSUME NEW ns \in NodeSeq, NEW b \in Buffer, NEW j \in Nat
  PROVE  /\ UpTo(Producers(ns, b), j) \in Nat /\ Now(ns, b, j) \in Buffer
         /\ Now(ns, b, j) = b \/ Now(ns, b, j) \notin Buffers(ns)
         /\ Now(ns, b, j) = b \/ Now(ns, b, j)[2] # 0
<1>1. PICK m : m = UpTo(Producers(ns, b), j)
  OBVIOUS
<1>2. m \in Nat
  BY <1>1, Positions, UpToIs
<1>3. Private(ns, b, m) \in Buffer /\ (Private(ns, b, m) = b \/ Private(ns, b, m) \notin Buffers(ns))
  BY <1>2, PrivateIs
<1>4. Private(ns, b, m) = b \/ Private(ns, b, m)[2] # 0
  <2>1. CASE m < 2
    BY <2>1 DEF Private
  <2>2. CASE ~(m < 2)
    <3>1. PICK k : k = m - 1
      OBVIOUS
    <3>2. k \in Nat /\ k # 0 /\ Private(ns, b, m) = New(ns, b, k)
      BY <1>2, <2>2, <3>1 DEF Private
    <3> QED BY <3>2, Fresh
  <2> QED BY <2>1, <2>2
<1> QED BY <1>1, <1>2, <1>3, <1>4 DEF Now

LEMMA PrivateBuffers ==
  ASSUME NEW ns, Early(ns), NEW b \in Buffers(ns), ~IsArg(b), NEW r, Privatized(ns, b, r), PrivateBodies(ns, b, r)
  PROVE  /\ Buffers(ns) \subseteq Buffers(r)
         /\ \A j \in 0..Len(ns) : Now(ns, b, j) \in Buffers(r)
         /\ \A x \in Buffers(r) \ Buffers(ns) : x[2] # 0
<1>1. PICK P, L : P = Producers(ns, b) /\ L = Len(ns)
  OBVIOUS
<1>2. ns \in NodeSeq /\ Defined(ns) /\ r \in NodeSeq /\ DOMAIN r = DOMAIN ns
  BY DEF Early, Privatized
<1>3. P \in SUBSET Nat /\ IsFiniteSet(P) /\ P \subseteq DOMAIN ns /\ DOMAIN ns = 1..L /\ L \in Nat /\ b \in Buffer
  BY <1>1, <1>2, Positions, ScheduleIs
<1>4. \A p \in P : p \in DOMAIN r /\ Now(ns, b, p) \in Outs(r[p])
  BY <1>1, <1>2, <1>3 DEF Privatized, Now, Producers
<1>5. \A p \in P : Now(ns, b, p) \in Buffers(r)
  BY <1>4 DEF Buffers
<1>6. P # {}
  <2>1. PICK i \in DOMAIN ns : b \in Ins(ns[i]) \/ b \in Outs(ns[i])
    BY DEF Buffers
  <2> QED BY <1>1, <1>2, <2>1 DEF Defined, Producers
<1>7. b \in Buffers(r)
  <2>1. PICK p \in P : UpTo(P, p) = 1
    BY <1>3, <1>6, UpToFirst
  <2>2. Now(ns, b, p) = b
    BY <1>1, <2>1 DEF Now, Private
  <2> QED BY <1>5, <2>2
<1>8. ASSUME NEW j \in 0..L PROVE Now(ns, b, j) \in Buffers(r)
  <2>1. j \in Nat
    BY <1>3
  <2>2. CASE \E i \in P : i <= j
    <3>1. PICK p \in P : UpTo(P, p) = UpTo(P, j)
      BY <1>3, <2>1, <2>2, UpToIs
    <3>2. Now(ns, b, p) = Now(ns, b, j)
      BY <1>1, <3>1 DEF Now
    <3> QED BY <1>5, <3>2
  <2>3. CASE ~ \E i \in P : i <= j
    <3>1. UpTo(P, j) = 0
      BY <1>3, <2>1, <2>3, UpToNone
    <3>2. Now(ns, b, j) = b
      BY <1>1, <3>1 DEF Now, Private
    <3> QED BY <1>7, <3>2
  <2> QED BY <2>2, <2>3
<1>9. ASSUME NEW x \in Buffers(ns), x # b PROVE x \in Buffers(r)
  <2>a. PICK j \in DOMAIN ns : \E k \in 1..Len(ns[j].body) : x = ns[j].body[k].to \/ x \in Reads(ns[j].body[k])
    BY <1>2, BuffersAre
  <2>1. PICK k \in 1..Len(ns[j].body) : x = ns[j].body[k].to \/ x \in Reads(ns[j].body[k])
    BY <2>a
  <2>2. PICK B, D, c : B = ns[j].body /\ D = Own(ns, b, j).body /\ c = Now(ns, b, j)
    OBVIOUS
  <2>3. PICK o : Sits(ns, b, r, j, D, o)
    BY <1>2, <1>3, <2>2, SomeSit
  <2>4. Stays(D, Buffers(r)) /\ \A l \in 1..Len(D) : Reads(D[l]) \subseteq Buffers(r)
    BY <1>2, <2>3, SitsStay
  <2>5. Swapped(B, D, b, c)
    BY <2>2, <2>3 DEF Sits, Now
  <2>6. PICK s : s = B[k]
    OBVIOUS
  <2>7. s \in Statement /\ k \in 1..Len(D) /\ D[k] = Swap(s, b, c)
    BY <1>2, <2>2, <2>5, <2>6, BodyStays DEF Swapped
  <2>8. c \in Buffer
    <3>1. j \in Nat
      BY <1>3
    <3> QED BY <1>2, <1>3, <2>2, <3>1, NowIs
  <2>9. Swap(s, b, c).to = Instead(s.to, b, c) /\ Reads(Swap(s, b, c)) = {Instead(y, b, c) : y \in Reads(s)}
    BY <1>3, <2>7, <2>8, SwapIs
  <2>10. Instead(x, b, c) = x
    BY <1>9 DEF Instead
  <2>11. CASE x = s.to
    BY <2>4, <2>7, <2>9, <2>10, <2>11 DEF Stays
  <2>12. CASE x \in Reads(s)
    <3>1. x \in Reads(D[k])
      BY <2>7, <2>9, <2>10, <2>12
    <3> QED BY <2>4, <2>7, <3>1
  <2> QED BY <2>1, <2>2, <2>6, <2>11, <2>12
<1>10. ASSUME NEW x \in Buffers(r), x \notin Buffers(ns) PROVE x[2] # 0
  <2>1. PICK j \in DOMAIN r : x \in Ins(r[j]) \/ x \in Outs(r[j])
    BY DEF Buffers
  <2>2. UpTo(P, j) \in Nat /\ j \in Nat
    BY <1>2, <1>3, UpToIs
  <2>3. \/ x \in Ins(ns[j]) \/ x \in Outs(ns[j]) \/ x = Private(ns, b, UpTo(P, j))
        \/ UpTo(P, j) > 1 /\ x = Private(ns, b, UpTo(P, j) - 1)
    BY <1>1, <1>2, <2>1 DEF Privatized
  <2>4. PICK m : m \in Nat /\ x = Private(ns, b, m)
    <3>1. UpTo(P, j) > 1 => UpTo(P, j) - 1 \in Nat
      BY <2>2
    <3> QED BY <1>2, <1>10, <2>1, <2>2, <2>3, <3>1 DEF Buffers
  <2>5. CASE m < 2
    BY <1>10, <2>4, <2>5 DEF Private
  <2>6. CASE ~(m < 2)
    <3>1. PICK k : k = m - 1
      OBVIOUS
    <3>2. k \in Nat /\ k # 0 /\ x = New(ns, b, k)
      BY <2>4, <2>6, <3>1 DEF Private
    <3> QED BY <1>2, <1>3, <3>2, Fresh
  <2> QED BY <2>5, <2>6
<1> QED BY <1>1, <1>7, <1>8, <1>9, <1>10

\* A node that touches b defines all of it first, unless it may read what it did not.
LEMMA FillsFirst ==
  ASSUME NEW n \in NodeSet, NEW b, Touches(n, b), ~ReadsBeforeWriting(n, b)
  PROVE  \E w \in 1..Len(n.body) : Covers(n.body, b, w)
<1>1. PICK L : L = Len(n.body)
  OBVIOUS
<1>2. L \in Nat /\ DOMAIN n.body = 1..L
  BY <1>1, NodeIs
<1>3. PICK reads, sweeps : /\ reads = {k \in DOMAIN n.body : b \in Reads(n.body[k])}
                           /\ sweeps = {k \in DOMAIN n.body : n.body[k].to = b /\ n.body[k].how = "fill"}
  OBVIOUS
<1>4. ~(reads # {} /\ \A w \in sweeps : \E r \in reads : r <= w)
  BY <1>3 DEF ReadsBeforeWriting
<1>5. PICK w : w \in sweeps /\ \A r \in reads : ~(r <= w)
  <2>1. CASE reads = {}
    BY <1>3, <2>1 DEF Touches
  <2>2. CASE reads # {}
    BY <1>4, <2>2
  <2> QED BY <2>1, <2>2
<1>6. w \in 1..L /\ n.body[w].to = b /\ n.body[w].how = "fill"
  BY <1>2, <1>3, <1>5
<1>7. \A k \in 1..L : k <= w => b \notin Reads(n.body[k])
  BY <1>2, <1>3, <1>5
<1>8. w \in 0..(L + 1)
  BY <1>2, <1>6
<1>9. Covers(n.body, b, w)
  BY <1>1, <1>6, <1>7, <1>8 DEF Covers
<1> QED BY <1>1, <1>6, <1>9

\* Of the nodes that write b, only the first may leave some of it as it was.
OthersTouch(ns, b) == \A i, j \in Producers(ns, b) : i < j => Touches(ns[j], b)

Along(ns, b, S, T, j) == Alike2(Buffers(ns), b, S[j], T[j]) /\ T[j][Now(ns, b, j)] = S[j][b]

LEMMA PrivateStep ==
  ASSUME NEW ns, Early(ns), NEW b \in Buffers(ns), ~IsArg(b), NEW r, Privatized(ns, b, r), PrivateBodies(ns, b, r),
         OthersTouch(ns, b), NEW S, Stages(ns, S), NEW T, Stages(r, T), NEW j \in DOMAIN ns, NEW i, i = j - 1, Along(ns, b, S, T, i)
  PROVE  Along(ns, b, S, T, j)
<1>1. PICK U, V, P, L : U = Buffers(ns) /\ V = Buffers(r) /\ P = Producers(ns, b) /\ L = Len(ns)
  OBVIOUS
<1>2. /\ ns \in NodeSeq /\ r \in NodeSeq /\ DOMAIN r = DOMAIN ns /\ DOMAIN ns = 1..L /\ L \in Nat /\ Len(r) = L /\ b \in Buffer
      /\ P \in SUBSET Nat /\ IsFiniteSet(P)
  <2>1. ns \in NodeSeq /\ r \in NodeSeq /\ DOMAIN r = DOMAIN ns
    BY DEF Early, Privatized
  <2>2. DOMAIN ns = 1..L /\ L \in Nat /\ b \in Buffer /\ DOMAIN r = 1..Len(r) /\ Len(r) \in Nat
    BY <1>1, <2>1, ScheduleIs
  <2>3. Len(r) = L
    BY <2>1, <2>2
  <2> QED BY <1>1, <2>1, <2>2, <2>3, Positions
<1>3. j \in Nat /\ i \in Nat /\ i \in 0..L /\ j \in 0..L /\ i \in 0..Len(r) /\ j \in 1..L
  BY <1>2
<1>4. U \subseteq V /\ Now(ns, b, i) \in V /\ Now(ns, b, j) \in V
  BY <1>1, <1>3, PrivateBuffers
<1>5. PICK c, d, m : c = Now(ns, b, j) /\ d = Now(ns, b, i) /\ m = UpTo(P, j)
  OBVIOUS
<1>6. m \in Nat /\ c \in Buffer /\ (c = b \/ c \notin U) /\ c = Private(ns, b, m)
  <2>1. m \in Nat /\ c \in Buffer /\ (c = b \/ c \notin U)
    BY <1>1, <1>2, <1>3, <1>5, NowIs
  <2> QED BY <1>1, <1>5, <2>1 DEF Now
<1>7. PICK B, D, A : B = ns[j].body /\ D = Own(ns, b, j).body /\ A = r[j].body
  OBVIOUS
<1>8. PICK M, N, M1, N1 : M = S[i] /\ N = T[i] /\ M1 = S[j] /\ N1 = T[j]
  OBVIOUS
<1>9. Goes(A, N, N1) /\ DOMAIN N = V /\ Alike2(U, b, M, N) /\ N[d] = M[b]
  <2>1. Goes(A, N, N1)
    BY <1>2, <1>7, <1>8 DEF Stages
  <2>2. DOMAIN N = V
    BY <1>1, <1>2, <1>3, <1>8, StagesAre
  <2> QED BY <1>1, <1>5, <1>8, <2>1, <2>2 DEF Along
<1>10. PICK o : Sits(ns, b, r, j, D, o)
  BY <1>2, <1>7, SomeSit
<1>11. D \in Seq(Statement) /\ Swapped(B, D, b, c) /\ Stays(D, V)
  <2>1. Stays(D, V)
    BY <1>1, <1>2, <1>10, SitsStay
  <2> QED BY <1>1, <1>5, <1>6, <1>7, <1>10, <2>1 DEF Sits
<1>12. ASSUME NEW K, DOMAIN K = V, Alike2(U, b, M, K), Goes(D, K, N1) PROVE Follows(ns, j, S, r, K, b, c, N1, D)
  <2>1. U \ {b} \subseteq V
    BY <1>4
  <2> QED BY <1>1, <1>2, <1>4, <1>5, <1>6, <1>7, <1>8, <1>11, <1>12, <2>1 DEF Follows
<1>13. SUFFICES Alike2(U, b, M1, N1) /\ N1[c] = M1[b]
  BY <1>1, <1>5, <1>8 DEF Along
<1>14. CASE Heads(ns, b, j)
  <2>1. PICK s, n, l : s = Ahead(ns, b, j) /\ n = 1 /\ l = Len(D)
    OBVIOUS
  <2>2. Len(A) = n + l /\ Len(s) = n /\ Joins(A, s, n, D, l)
    BY <1>2, <1>7, <1>14, <2>1, PrivateSits
  <2>3. l \in Nat /\ n \in Nat
    BY <1>10, <2>1 DEF Sits
  <2>4. PICK K : Goes(s, N, K) /\ Goes(D, K, N1)
    BY <1>9, <2>1, <2>2, <2>3, GoesSplit
  <2>5. j \in P /\ m > 1
    BY <1>1, <1>5, <1>14 DEF Heads
  <2>6. UpTo(P, i) = m - 1
    <3>1. m = UpTo(P, i) + 1
      BY <1>2, <1>3, <1>5, <2>5, UpToNext
    <3>2. UpTo(P, i) \in Nat
      BY <1>2, <1>3, UpToIs
    <3> QED BY <3>1, <3>2
  <2>7. s = <<Copy(d, c)>>
    BY <1>1, <1>5, <1>6, <2>1, <2>6 DEF Ahead, Now
  <2>8. c # b /\ c \in V
    <3>1. c = New(ns, b, m - 1)
      BY <1>6, <2>5 DEF Private
    <3>2. m - 1 \in Nat /\ m - 1 # 0
      BY <1>6, <2>5
    <3>3. c \notin U
      BY <1>1, <1>2, <3>1, <3>2, Fresh
    <3> QED BY <1>1, <1>4, <1>5, <3>3
  <2>9. Goes(<<Copy(d, c)>>, N, K) /\ c \in DOMAIN N
    BY <1>9, <2>4, <2>7, <2>8
  <2>10. DOMAIN K = DOMAIN N /\ K[c] = N[d] /\ \A z \in DOMAIN N : z # c => K[z] = N[z]
    BY <2>9, OneCopyGoes
  <2>11. Alike2(U, b, M, K)
    BY <1>4, <1>6, <1>9, <2>8, <2>10 DEF Alike2
  <2>12. Follows(ns, j, S, r, K, b, c, N1, D)
    BY <1>9, <1>12, <2>4, <2>10, <2>11
  <2>13. K[c] = S[j - 1][b]
    BY <1>8, <1>9, <2>10
  <2>14. Alike2(Buffers(ns), b, S[j], N1) /\ N1[c] = S[j][b]
    BY <2>12, <2>13, StageSame
  <2> QED BY <1>1, <1>8, <2>14
<1>15. CASE ~Heads(ns, b, j)
  <2>1. A = D
    BY <1>2, <1>7, <1>15 DEF PrivateBodies
  <2>2. Follows(ns, j, S, r, N, b, c, N1, D)
    BY <1>9, <1>12, <2>1
  <2>3. CASE c = d
    <3>1. N[c] = S[j - 1][b]
      BY <1>8, <1>9, <2>3
    <3>2. Alike2(Buffers(ns), b, S[j], N1) /\ N1[c] = S[j][b]
      BY <2>2, <3>1, StageSame
    <3> QED BY <1>1, <1>8, <3>2
  <2>4. CASE c # d
    <3>1. j \in P /\ m = UpTo(P, i) + 1
      <4>1. UpTo(P, j) # UpTo(P, i)
        BY <1>1, <1>5, <2>4 DEF Now
      <4> QED BY <1>2, <1>3, <1>5, <4>1, UpToNext
    <3>2. m > 1
      <4>1. m < 2 => c = d
        <5>1. UpTo(P, i) \in Nat
          BY <1>2, <1>3, UpToIs
        <5> QED BY <1>1, <1>5, <1>6, <3>1, <5>1 DEF Now, Private
      <4> QED BY <1>6, <2>4, <4>1
    <3>3. \E h \in P : h < j
      <4>1. PICK h \in P : h < j /\ UpTo(P, h) = UpTo(P, j) - 1
        BY <1>2, <1>5, <3>1, <3>2, UpToBefore
      <4> QED BY <4>1
    <3>4. Touches(ns[j], b)
      BY <1>1, <3>1, <3>3 DEF OthersTouch
    <3>5. ~ReadsBeforeWriting(ns[j], b)
      BY <1>1, <1>5, <1>15, <3>1, <3>2 DEF Heads
    <3>6. PICK w \in 1..Len(B) : Covers(B, b, w)
      BY <1>2, <1>7, <3>4, <3>5, FillsFirst, ScheduleIs
    <3>7. w <= Len(B) /\ w # 0
      BY <1>2, <1>7, <3>6, BodyStays
    <3>8. w = 0 => N[c] = S[j - 1][b]
      BY <3>7
    <3>9. Covers(ns[j].body, b, w)
      BY <1>7, <3>6
    <3>10. Alike2(Buffers(ns), b, S[j], N1) /\ (w <= Len(ns[j].body) => N1[c] = S[j][b])
      BY <2>2, <3>8, <3>9, StageSim
    <3> QED BY <1>1, <1>7, <1>8, <3>7, <3>10
  <2> QED BY <2>3, <2>4
<1> QED BY <1>14, <1>15

LEMMA PrivatizeMeans ==
  ASSUME NEW ns, Early(ns), NEW b \in Buffers(ns), ~IsArg(b), OthersTouch(ns, b)
  PROVE  Meaning(Privatize(ns, b)) = Meaning(ns)
<1>1. PICK r, L : r = Privatize(ns, b) /\ L = Len(ns)
  OBVIOUS
<1>2. ns \in NodeSeq /\ b \in Buffer /\ DOMAIN ns = 1..L /\ L \in Nat
  BY <1>1, ScheduleIs DEF Early
<1>3. Privatized(ns, b, r) /\ PrivateBodies(ns, b, r)
  BY <1>1, <1>2, PrivatizeIs
<1>4. r \in NodeSeq /\ Len(r) = L
  <2>1. r \in NodeSeq /\ DOMAIN r = DOMAIN ns
    BY <1>3 DEF Privatized
  <2>2. DOMAIN r = 1..Len(r) /\ Len(r) \in Nat
    BY <2>1, ScheduleIs
  <2> QED BY <1>2, <2>1, <2>2
<1>5. PICK S, T : Stages(ns, S) /\ Stages(r, T)
  <2>1. (\E S : Stages(ns, S)) /\ (\E T : Stages(r, T))
    BY <1>2, <1>4, StagesExist
  <2> QED BY <2>1
<1>6. /\ Buffers(ns) \subseteq Buffers(r)
      /\ \A x \in Buffers(r) \ Buffers(ns) : x[2] # 0
  BY <1>3, PrivateBuffers
<1> DEFINE K == {j \in Nat : j <= L => Along(ns, b, S, T, j)}
<1>7. 0 \in K
  <2>1. UpTo(Producers(ns, b), 0) = 0
    <3>1. \A x \in Producers(ns, b) : ~(x <= 0)
      BY <1>2, Positions
    <3> QED BY <1>2, <3>1, Positions, UpToNone
  <2>2. Now(ns, b, 0) = b
    BY <2>1 DEF Now, Private
  <2>3. S[0] = Start(ns) /\ T[0] = Start(r)
    BY <1>5 DEF Stages
  <2>4. \A x \in Buffers(ns) : T[0][x] = S[0][x]
    BY <1>6, <2>3 DEF Start
  <2>5. Along(ns, b, S, T, 0)
    BY <2>2, <2>4 DEF Along, Alike2
  <2> QED BY <2>5
<1>8. ASSUME NEW i \in Nat, i \in K PROVE i + 1 \in K
  <2> SUFFICES ASSUME i + 1 <= L PROVE Along(ns, b, S, T, i + 1)
    OBVIOUS
  <2>1. PICK j : j = i + 1
    OBVIOUS
  <2>2. j \in DOMAIN ns /\ i = j - 1 /\ Along(ns, b, S, T, i)
    BY <1>2, <1>8, <2>1
  <2>3. Along(ns, b, S, T, j)
    BY <1>3, <1>5, <2>2, PrivateStep
  <2> QED BY <2>1, <2>3
<1> HIDE DEF K
<1>9. Nat \subseteq K
  BY <1>7, <1>8, Counting
<1>10. Along(ns, b, S, T, L)
  BY <1>2, <1>9 DEF K
<1>11. S[L] = InOrder(ns) /\ T[L] = InOrder(r)
  BY <1>1, <1>4, <1>5 DEF Stages
<1>12. \A x \in Buffers(ns) : x[1] \in Results /\ x[2] = 0 => InOrder(r)[x] = InOrder(ns)[x]
  BY <1>10, <1>11, ResultsAssumption DEF Along, Alike2, IsArg
<1>13. Meaning(r) = Meaning(ns)
  BY <1>6, <1>12, MeansSame
<1> QED BY <1>1, <1>13

\* As many numbers are up to none of them as up to another one.
LEMMA UpToLess ==
  ASSUME NEW P \in SUBSET Nat, IsFiniteSet(P), NEW i \in Nat, NEW j \in P, i < j
  PROVE  UpTo(P, i) < UpTo(P, j)
<1>1. PICK S, R, Q : S = {x \in P : x <= j} /\ R = {x \in P : x <= i} /\ Q = S \ {j}
  OBVIOUS
<1>2. UpTo(P, j) = Cardinality(S) /\ UpTo(P, i) = Cardinality(R)
  BY <1>1 DEF UpTo
<1>3. S \in SUBSET P /\ j \in Nat
  BY <1>1
<1>4. j \in S
  BY <1>1, <1>3
<1>5. IsFiniteSet(S)
  BY <1>3, FS_Subset
<1>6. IsFiniteSet(Q) /\ Cardinality(Q) = Cardinality(S) - 1
  BY <1>1, <1>4, <1>5, FS_RemoveElement
<1>7. R \in SUBSET Q
  <2>1. \A x \in P : x <= i => x <= j /\ x # j
    BY <1>3
  <2> QED BY <1>1, <2>1
<1>8. IsFiniteSet(R) /\ Cardinality(R) <= Cardinality(Q)
  BY <1>6, <1>7, FS_Subset
<1>9. Cardinality(S) \in Nat /\ Cardinality(R) \in Nat /\ Cardinality(Q) \in Nat
  BY <1>5, <1>6, <1>8, FS_CardinalityType
<1> QED BY <1>2, <1>6, <1>8, <1>9

\* The private buffers are pairwise different.
LEMMA PrivateDiffer ==
  ASSUME NEW ns \in NodeSeq, NEW b \in Buffer, b \in Buffers(ns), NEW m \in Nat, NEW n \in Nat, m >= 1, m < n
  PROVE  Private(ns, b, m) # Private(ns, b, n)
<1>1. PICK e : e = n - 1
  OBVIOUS
<1>2. e \in Nat /\ e # 0 /\ Private(ns, b, n) = New(ns, b, e)
  BY <1>1 DEF Private
<1>3. CASE m < 2
  <2>1. Private(ns, b, m) = b /\ New(ns, b, e) \notin Buffers(ns)
    BY <1>2, <1>3, Fresh DEF Private
  <2> QED BY <1>2, <2>1
<1>4. CASE ~(m < 2)
  <2>1. PICK d : d = m - 1
    OBVIOUS
  <2>2. d \in Nat /\ d # 0 /\ d # e /\ Private(ns, b, m) = New(ns, b, d)
    BY <1>1, <1>4, <2>1 DEF Private
  <2> QED BY <1>2, <2>2, Fresh
<1> QED BY <1>3, <1>4

\* What a node reads or sweeps of another buffer it does as before.
LEMMA PrivateTouches ==
  ASSUME NEW ns \in NodeSeq, NEW b \in Buffer, NEW r \in NodeSeq, PrivateBodies(ns, b, r), DOMAIN r = DOMAIN ns,
         NEW j \in DOMAIN ns, NEW x, x # b, Touches(ns[j], x)
  PROVE  Touches(r[j], x)
<1>1. PICK B, D, c : B = ns[j].body /\ D = Own(ns, b, j).body /\ c = Now(ns, b, j)
  OBVIOUS
<1>2. PICK k \in DOMAIN B : x \in Reads(B[k]) \/ (B[k].to = x /\ B[k].how = "fill")
  BY <1>1 DEF Touches
<1>3. PICK o : Sits(ns, b, r, j, D, o)
  BY <1>1, SomeSit
<1>4. Swapped(B, D, b, c) /\ o \in Nat /\ \A l \in 1..Len(D) : o + l \in 1..Len(r[j].body) /\ r[j].body[o + l] = D[l]
  BY <1>1, <1>3 DEF Sits, Now
<1>5. ns[j] \in NodeSet /\ r[j] \in NodeSet /\ j \in Nat
  BY ScheduleIs
<1>6. PICK s, l : s = B[k] /\ l = o + k
  OBVIOUS
<1>7. s \in Statement /\ k \in 1..Len(B)
  BY <1>1, <1>5, <1>6, NodeIs
<1>8. k \in 1..Len(D) /\ D[k] = Swap(s, b, c)
  BY <1>4, <1>6, <1>7 DEF Swapped
<1>9. l \in DOMAIN r[j].body /\ r[j].body[l] = Swap(s, b, c)
  <2>1. l \in 1..Len(r[j].body) /\ r[j].body[l] = D[k]
    BY <1>4, <1>6, <1>8
  <2> QED BY <1>5, <1>8, <2>1, NodeIs
<1>10. c \in Buffer
  BY <1>1, <1>5, NowIs
<1>11. /\ Swap(s, b, c).to = Instead(s.to, b, c) /\ Swap(s, b, c).how = s.how
       /\ Reads(Swap(s, b, c)) = {Instead(y, b, c) : y \in Reads(s)}
  BY <1>7, <1>10, SwapIs
<1>12. Instead(x, b, c) = x
  BY DEF Instead
<1>13. x \in Reads(Swap(s, b, c)) \/ (Swap(s, b, c).to = x /\ Swap(s, b, c).how = "fill")
  <2>1. CASE x \in Reads(s)
    BY <1>11, <1>12, <2>1
  <2>2. CASE s.to = x /\ s.how = "fill"
    BY <1>11, <1>12, <2>2
  <2> QED BY <1>2, <1>6, <2>1, <2>2
<1> QED BY <1>9, <1>13 DEF Touches

LEMMA PrivateLosesNothing ==
  ASSUME NEW ns \in NodeSeq, NEW b \in Buffers(ns), NEW r, Privatized(ns, b, r), PrivateBodies(ns, b, r),
         NEW dram, NothingLost(ns, dram)
  PROVE  NothingLost(r, dram)
<1>1. r \in NodeSeq /\ DOMAIN r = DOMAIN ns /\ b \in Buffer
  BY ScheduleIs DEF Privatized
<1> SUFFICES ASSUME NEW x \in Buffers(r), ~IsArg(x), x[1] \notin dram,
                    NEW i \in Producers(r, x), NEW j \in Producers(r, x), i < j
             PROVE  Touches(r[j], x)
  BY DEF NothingLost
<1>2. PICK P : P = Producers(ns, b)
  OBVIOUS
<1>3. P \in SUBSET Nat /\ IsFiniteSet(P)
  BY <1>2, Positions
<1>4. i \in DOMAIN ns /\ j \in DOMAIN ns /\ x \in Outs(r[i]) /\ x \in Outs(r[j]) /\ i \in Nat /\ j \in Nat
  BY <1>1, ScheduleIs DEF Producers
<1>5. ASSUME NEW k \in DOMAIN ns, x \in Outs(r[k])
      PROVE  (x \in Outs(ns[k]) /\ x # b) \/ (k \in P /\ x = Private(ns, b, UpTo(P, k)))
  <2>1. x \in Outs(r[k]) <=> \/ x \in Outs(ns[k]) /\ x # b
                             \/ b \in Outs(ns[k]) /\ x = Private(ns, b, UpTo(Producers(ns, b), k))
    BY Zenon DEF Privatized
  <2> QED BY <1>2, <1>5, <2>1 DEF Producers
<1>6. \A k \in Nat : UpTo(P, k) \in Nat
  BY <1>3, UpToIs
<1>7. \A k \in DOMAIN ns : x \in Outs(ns[k]) /\ x # b => \A m \in Nat : x # Private(ns, b, m)
  <2> SUFFICES ASSUME NEW k \in DOMAIN ns, x \in Outs(ns[k]), x # b, NEW m \in Nat PROVE x # Private(ns, b, m)
    OBVIOUS
  <2>1. x \in Buffers(ns)
    BY DEF Buffers
  <2> QED BY <1>1, <2>1, PrivateIs
<1>8. CASE x \in Outs(ns[i]) /\ x # b
  <2>1. x \in Outs(ns[j])
    BY <1>4, <1>5, <1>6, <1>7, <1>8
  <2>2. x \in Buffers(ns) /\ i \in Producers(ns, x) /\ j \in Producers(ns, x)
    BY <1>4, <1>8, <2>1 DEF Buffers, Producers
  <2>3. Touches(ns[j], x)
    BY <2>2 DEF NothingLost
  <2> QED BY <1>1, <1>4, <1>8, <2>3, PrivateTouches
<1>9. CASE ~(x \in Outs(ns[i]) /\ x # b)
  <2>1. i \in P /\ x = Private(ns, b, UpTo(P, i))
    BY <1>4, <1>5, <1>9
  <2>2. j \in P /\ x = Private(ns, b, UpTo(P, j))
    BY <1>4, <1>5, <1>6, <1>7, <2>1
  <2>3. UpTo(P, i) < UpTo(P, j)
    BY <1>3, <1>4, <2>2, UpToLess
  <2>4. UpTo(P, i) >= 1
    <3>1. i <= i
      BY <1>4
    <3> QED BY <1>3, <1>4, <2>1, <3>1, UpToIs
  <2> QED BY <1>1, <1>4, <1>6, <2>1, <2>2, <2>3, <2>4, PrivateDiffer
<1> QED BY <1>8, <1>9

\* A private buffer for each producer changes nothing that the schedule computes.
LEMMA PrivatizeSame ==
  ASSUME NEW ns, Early(ns), NEW b \in Buffers(ns), ~IsArg(b), NEW dram, b[1] \notin dram, NothingLost(ns, dram),
         NEW r, r = Privatize(ns, b)
  PROVE  Same(ns, r) /\ NothingLost(r, dram) /\ Buffers(ns) \subseteq Buffers(r)
<1>1. ns \in NodeSeq /\ b \in Buffer
  BY ScheduleIs DEF Early
<1>2. Privatized(ns, b, r) /\ PrivateBodies(ns, b, r)
  BY <1>1, PrivatizeIs
<1>3. OthersTouch(ns, b)
  BY DEF NothingLost, OthersTouch
<1>4. Same(ns, r)
  BY <1>3, PrivatizeMeans DEF Same
<1>5. NothingLost(r, dram)
  BY <1>1, <1>2, PrivateLosesNothing
<1>6. Buffers(ns) \subseteq Buffers(r)
  BY <1>2, PrivateBuffers
<1> QED BY <1>4, <1>5, <1>6

\* Nor does a node of several.
LEMMA FuseTouches ==
  ASSUME NEW ns \in NodeSeq, NEW first \in DOMAIN ns, NEW last \in DOMAIN ns, first <= last,
         NEW r \in NodeSeq, FuseBodies(ns, first, last, r), NEW k \in DOMAIN ns, NEW x, Touches(ns[k], x),
         NEW z \in DOMAIN r, z = Place(first, last, k)
  PROVE  Touches(r[z], x)
<1>1. PICK L, N : L = Len(ns) /\ N = last - first + 1
  OBVIOUS
<1>2. L \in Nat /\ DOMAIN ns = 1..L /\ first \in Nat /\ last \in Nat /\ k \in Nat /\ N \in Nat /\ 1 <= first /\ last <= L
  BY <1>1, ScheduleIs
<1>3. CASE k < first
  <2>1. k \in 1..(first - 1) /\ z = k
    BY <1>2, <1>3 DEF Place
  <2>2. r[z] = ns[k]
    BY <2>1 DEF FuseBodies
  <2> QED BY <2>2
<1>4. CASE k > last
  <2>1. PICK m : m = k - last
    OBVIOUS
  <2>2. m \in 1..(L - last) /\ last + m = k /\ z = first + m
    BY <1>2, <1>4, <2>1 DEF Place
  <2>3. r[first + m] = ns[last + m]
    BY <1>1, <2>2 DEF FuseBodies
  <2> QED BY <2>2, <2>3
<1>5. CASE k \in first..last
  <2>1. PICK bodies, i : bodies = [m \in 1..N |-> ns[first + m - 1].body] /\ i = k - first + 1
    OBVIOUS
  <2>2. i \in 1..N /\ first + i - 1 = k
    BY <1>1, <1>2, <1>5, <2>1
  <2>3. bodies[i] = ns[k].body
    BY <2>1, <2>2
  <2>4. \A m \in 1..N : ns[first + m - 1].body \in Seq(Statement)
    <3> TAKE m \in 1..N
    <3>1. first + m - 1 \in 1..L
      BY <1>1, <1>2
    <3> QED BY <1>2, <3>1, ScheduleIs, NodeIs
  <2>5. bodies \in [1..N -> Seq(Statement)]
    BY <2>1, <2>4
  <2>6. bodies \in Seq(Seq(Statement)) /\ Len(bodies) = N
    BY <1>2, <2>5
  <2>7. PICK flat : flat = FlattenSeq(bodies)
    OBVIOUS
  <2>8. flat \in Seq(Statement) /\ \E end : Ends(bodies, N, flat, end)
    BY <2>6, <2>7, FlattenIs
  <2>9. PICK end : Ends(bodies, N, flat, end)
    BY <2>8
  <2>10. z = first /\ r[z].body = flat
    <3>1. z = first
      BY <1>2, <1>5 DEF Place
    <3> QED BY <1>1, <2>1, <2>7, <3>1 DEF FuseBodies
  <2>11. PICK l \in DOMAIN ns[k].body : x \in Reads(ns[k].body[l]) \/ (ns[k].body[l].to = x /\ ns[k].body[l].how = "fill")
    BY DEF Touches
  <2>12. l \in 1..Len(bodies[i])
    BY <2>3, <2>11, NodeIs, ScheduleIs
  <2>13. PICK m : m = end[i - 1] + l
    OBVIOUS
  <2>14. m \in 1..end[N] /\ flat[m] = ns[k].body[l] /\ Len(flat) = end[N]
    BY <2>2, <2>3, <2>9, <2>12, <2>13 DEF Ends
  <2>15. m \in DOMAIN r[z].body /\ r[z].body[m] = ns[k].body[l]
    BY <2>8, <2>10, <2>14, LenProperties
  <2> QED BY <2>11, <2>15 DEF Touches
<1> QED BY <1>2, <1>3, <1>4, <1>5

LEMMA FuseLosesNothing ==
  ASSUME NEW ns \in NodeSeq, NEW first \in DOMAIN ns, NEW last \in DOMAIN ns, first <= last,
         NEW level, NEW r, Fused(ns, first, last, level, r), FuseBodies(ns, first, last, r),
         NEW dram, NothingLost(ns, dram)
  PROVE  NothingLost(r, dram)
<1>1. r \in NodeSeq /\ Buffers(r) = Buffers(ns)
  <2>1. Buffers(r) = Buffers(ns)
    BY FuseBuffers
  <2> QED BY <2>1 DEF Fused
<1>2. DOMAIN ns \in SUBSET Nat
  BY ScheduleIs
<1> SUFFICES ASSUME NEW x \in Buffers(r), ~IsArg(x), x[1] \notin dram,
                    NEW i \in Producers(r, x), NEW j \in Producers(r, x), i < j
             PROVE  Touches(r[j], x)
  BY DEF NothingLost
<1>3. i \in DOMAIN r /\ j \in DOMAIN r /\ x \in Outs(r[i]) /\ x \in Outs(r[j])
  BY DEF Producers
<1>4. PICK h \in DOMAIN ns : Place(first, last, h) = i /\ x \in Outs(ns[h])
  BY <1>3 DEF Fused
<1>5. PICK k \in DOMAIN ns : Place(first, last, k) = j /\ x \in Outs(ns[k])
  BY <1>3 DEF Fused
<1>6. h < k
  BY <1>2, <1>4, <1>5, PlaceIs
<1>7. Touches(ns[k], x)
  BY <1>1, <1>4, <1>5, <1>6 DEF NothingLost, Producers
<1> QED BY <1>1, <1>3, <1>5, <1>7, FuseTouches

\* One buffer after the other: a pass over some buffers that keeps Early for each.
PrivateAll(ns) == FoldSet(LAMBDA b, acc : Privatize(acc, b), ns, SharedChannels(ns))

\* What the schedule computes stays the same when none of it is lost.
Still(ns, v) ==
  NothingLost(ns, program.dram) => Same(ns, v) /\ NothingLost(v, program.dram) /\ Buffers(ns) \subseteq Buffers(v)

LEMMA PrivateStill ==
  ASSUME NEW ns, NEW v, Early(v), Still(ns, v), NEW b \in Buffers(ns), ~IsArg(b), ~IsExt(b)
  PROVE  Still(ns, Privatize(v, b))
<1>1. PICK r, dram : r = Privatize(v, b) /\ dram = program.dram
  OBVIOUS
<1> SUFFICES ASSUME NothingLost(ns, dram)
             PROVE  Same(ns, r) /\ NothingLost(r, dram) /\ Buffers(ns) \subseteq Buffers(r)
  BY <1>1 DEF Still
<1>2. Same(ns, v) /\ NothingLost(v, dram) /\ Buffers(ns) \subseteq Buffers(v)
  BY <1>1 DEF Still
<1>3. b \in Buffers(v) /\ b[1] \notin dram
  BY <1>1, <1>2 DEF IsExt
<1>4. Same(v, r) /\ NothingLost(r, dram) /\ Buffers(v) \subseteq Buffers(r)
  BY <1>1, <1>2, <1>3, PrivatizeSame
<1> QED BY <1>2, <1>4 DEF Same

LEMMA PrivateAllKeeps ==
  ASSUME NEW ns, Early(ns)
  PROVE  Early(PrivateAll(ns)) /\ Still(ns, PrivateAll(ns))
<1>1. PICK bs, r : bs = SharedChannels(ns) /\ r = PrivateAll(ns)
  OBVIOUS
<1>2. IsFiniteSet(bs) /\ \A b \in bs : b \in Buffer /\ b \in Buffers(ns) /\ ~IsArg(b) /\ ~IsExt(b)
  <2>1. Buffers(ns) \in SUBSET Buffer /\ IsFiniteSet(Buffers(ns)) /\ bs \subseteq Buffers(ns)
    BY <1>1, ScheduleIs DEF Early, SharedChannels
  <2> QED BY <1>1, <2>1, FS_Subset DEF SharedChannels
<1> DEFINE Into(iter) == iter = [T \in SUBSET bs |-> IF T = {} THEN ns ELSE Privatize(iter[T \ {Some(T)}], Some(T))]
<1>3. r = (CHOOSE iter : Into(iter))[bs]
  BY <1>1 DEF PrivateAll, FoldSet, MapThenFoldSet, Some
<1>4. PICK I, h : /\ I = [T \in SUBSET bs |-> {v \in NodeSeq : Early(v) /\ Still(ns, v)}]
                  /\ h = [T \in SUBSET bs |-> [v \in NodeSeq |-> Privatize(v, Some(T))]]
  OBVIOUS
<1>5. \A T \in SUBSET bs : \A v : v \in I[T] <=> Early(v) /\ Still(ns, v)
  BY <1>4 DEF Early
<1>6. ns \in I[{}]
  BY <1>5 DEF Still, Same
<1>7. ASSUME NEW T \in SUBSET bs, T # {}, NEW v \in I[T \ {Some(T)}]
      PROVE  v \in NodeSeq /\ Privatize(v, Some(T)) \in I[T]
  <2>1. PICK b : b = Some(T)
    OBVIOUS
  <2>2. b \in bs /\ Early(v) /\ Still(ns, v)
    BY <1>5, <1>7, <2>1, SomeMember
  <2>3. b \in Buffer /\ b \in Buffers(ns) /\ ~IsArg(b) /\ ~IsExt(b)
    BY <1>2, <2>2
  <2>4. Early(Privatize(v, b))
    BY <2>2, <2>3, PrivatizeKeeps
  <2>5. Still(ns, Privatize(v, b))
    BY <2>2, <2>3, PrivateStill
  <2> QED BY <1>5, <2>1, <2>2, <2>4, <2>5 DEF Early
<1>8. PICK it : Visits(bs, ns, h, it) /\ \A T \in SUBSET bs : it[T] \in I[T]
  <2>1. \A T \in SUBSET bs : T # {} => \A v \in I[T \ {Some(T)}] : h[T][v] \in I[T]
    BY <1>4, <1>7
  <2> QED BY <1>2, <1>6, <2>1, VisitsExist
<1>9. Into(it)
  <2>1. \A T \in SUBSET bs : T # {} => h[T][it[T \ {Some(T)}]] = Privatize(it[T \ {Some(T)}], Some(T))
    BY <1>4, <1>7, <1>8
  <2> QED BY <1>8, <2>1 DEF Visits
<1>10. PICK f : f = CHOOSE iter : Into(iter)
  OBVIOUS
<1>11. Into(f) /\ r = f[bs]
  BY <1>3, <1>9, <1>10
<1>12. f[{}] \in I[{}]
  BY <1>6, <1>11
<1>13. \A T \in SUBSET bs : T # {} /\ f[T \ {Some(T)}] \in I[T \ {Some(T)}] => f[T] \in I[T]
  BY <1>7, <1>11
<1> HIDE DEF Into
<1>14. f[bs] \in I[bs]
  BY <1>2, <1>12, <1>13, VisitsStay
<1> QED BY <1>1, <1>5, <1>11, <1>14

LEMMA MergeKeeps ==
  ASSUME NEW ns, Early(ns), NEW b
  PROVE  Early(MergeProducers(ns, b)) /\ Still(ns, MergeProducers(ns, b))
<1>1. CASE ~Mergeable(ns, b)
  BY <1>1 DEF MergeProducers, Still, Same
<1>2. CASE Mergeable(ns, b)
  <2>1. PICK P, lo, hi, r : P = Producers(ns, b) /\ lo = Min(P) /\ hi = Max(P) /\ r = MergeProducers(ns, b)
    OBVIOUS
  <2>2. ns \in NodeSeq /\ Defined(ns) /\ NoLevels(ns)
    BY DEF Early
  <2>3. P \in SUBSET Nat /\ IsFiniteSet(P) /\ P \subseteq DOMAIN ns
    BY <2>1, <2>2, Positions
  <2>4. P # {}
    BY <1>2, <2>1, FS_EmptySet DEF Mergeable
  <2>5. lo \in DOMAIN ns /\ hi \in DOMAIN ns /\ lo <= hi
    BY <2>1, <2>3, <2>4, MinIs, MaxIs
  <2>6. r = Fuse(ns, lo, hi, NoLevel)
    BY <1>2, <2>1 DEF MergeProducers
  <2>7. Fused(ns, lo, hi, NoLevel, r) /\ FuseBodies(ns, lo, hi, r)
    BY <2>2, <2>5, <2>6, FuseIs
  <2>8. Defined(r)
    BY <2>2, <2>5, <2>7, FuseDefined
  <2>9. NoLevels(r)
    BY <2>2, <2>7, FuseNoLevels
  <2>10. Early(r)
    BY <2>7, <2>8, <2>9 DEF Early, Fused
  <2>11. Same(ns, r)
    BY <2>2, <2>5, <2>7, FuseMeans DEF Same
  <2>12. \A dram : NothingLost(ns, dram) => NothingLost(r, dram)
    BY <2>2, <2>5, <2>7, FuseLosesNothing
  <2>13. Buffers(r) = Buffers(ns)
    BY <2>2, <2>7, FuseBuffers
  <2>14. Still(ns, r)
    BY <2>11, <2>12, <2>13 DEF Still
  <2> QED BY <2>1, <2>10, <2>14
<1> QED BY <1>1, <1>2

MergeAll(ns) == FoldSet(LAMBDA b, acc : MergeProducers(acc, b), ns, Buffers(ns))

LEMMA MergeAllKeeps ==
  ASSUME NEW ns, Early(ns)
  PROVE  Early(MergeAll(ns)) /\ Still(ns, MergeAll(ns))
<1>1. PICK bs, r : bs = Buffers(ns) /\ r = MergeAll(ns)
  OBVIOUS
<1>2. IsFiniteSet(bs)
  BY <1>1, ScheduleIs DEF Early
<1> DEFINE Into(iter) == iter = [T \in SUBSET bs |-> IF T = {} THEN ns ELSE MergeProducers(iter[T \ {Some(T)}], Some(T))]
<1>3. r = (CHOOSE iter : Into(iter))[bs]
  BY <1>1 DEF MergeAll, FoldSet, MapThenFoldSet, Some
<1>4. PICK I, h : /\ I = [T \in SUBSET bs |-> {v \in NodeSeq : Early(v) /\ Still(ns, v)}]
                  /\ h = [T \in SUBSET bs |-> [v \in NodeSeq |-> MergeProducers(v, Some(T))]]
  OBVIOUS
<1>5. \A T \in SUBSET bs : \A v : v \in I[T] <=> Early(v) /\ Still(ns, v)
  BY <1>4 DEF Early
<1>6. ns \in I[{}]
  BY <1>5 DEF Still, Same
<1>7. ASSUME NEW T \in SUBSET bs, T # {}, NEW v \in I[T \ {Some(T)}]
      PROVE  v \in NodeSeq /\ MergeProducers(v, Some(T)) \in I[T]
  <2>1. Early(v) /\ Still(ns, v)
    BY <1>5, <1>7, SomeMember
  <2>2. PICK w : w = MergeProducers(v, Some(T))
    OBVIOUS
  <2>3. Early(w) /\ Still(v, w)
    BY <2>1, <2>2, MergeKeeps
  <2>4. Still(ns, w)
    BY <2>1, <2>3 DEF Still, Same
  <2> QED BY <1>5, <2>1, <2>2, <2>3, <2>4 DEF Early
<1>8. PICK it : Visits(bs, ns, h, it) /\ \A T \in SUBSET bs : it[T] \in I[T]
  <2>1. \A T \in SUBSET bs : T # {} => \A v \in I[T \ {Some(T)}] : h[T][v] \in I[T]
    BY <1>4, <1>7
  <2> QED BY <1>2, <1>6, <2>1, VisitsExist
<1>9. Into(it)
  <2>1. \A T \in SUBSET bs : T # {} => h[T][it[T \ {Some(T)}]] = MergeProducers(it[T \ {Some(T)}], Some(T))
    BY <1>4, <1>7, <1>8
  <2> QED BY <1>8, <2>1 DEF Visits
<1>10. PICK f : f = CHOOSE iter : Into(iter)
  OBVIOUS
<1>11. Into(f) /\ r = f[bs]
  BY <1>3, <1>9, <1>10
<1>12. f[{}] \in I[{}]
  BY <1>6, <1>11
<1>13. \A T \in SUBSET bs : T # {} /\ f[T \ {Some(T)}] \in I[T \ {Some(T)}] => f[T] \in I[T]
  BY <1>7, <1>11
<1> HIDE DEF Into
<1>14. f[bs] \in I[bs]
  BY <1>2, <1>12, <1>13, VisitsStay
<1> QED BY <1>1, <1>5, <1>11, <1>14

-----------------------------------------------------------------------------
(***************************************************************************)
(* EliminateMultiConsumer.                                                 *)
(***************************************************************************)

\* A node at position at copies b into a buffer of each reader; k is the number of
\* a reader, held[k] its buffer.
Forks(ns, b, readers, at, n, held, r) ==
  /\ r \in NodeSeq
  /\ \A k \in DOMAIN ns :
       /\ Behind(at - 1, 1, k) \in DOMAIN r
       /\ r[Behind(at - 1, 1, k)].level = ns[k].level
       /\ Outs(r[Behind(at - 1, 1, k)]) = Outs(ns[k])
       /\ k \notin readers => Ins(r[Behind(at - 1, 1, k)]) = Ins(ns[k])
       /\ k \in readers => /\ UpTo(readers, k) \in 1..n
                           /\ Ins(r[Behind(at - 1, 1, k)]) = (Ins(ns[k]) \ {b}) \cup {held[UpTo(readers, k)]}
  /\ at \in DOMAIN r /\ r[at].level = NoLevel
  /\ \A x : x \in Outs(r[at]) <=> \E k \in 1..n : x = held[k]
  /\ Ins(r[at]) \subseteq {b}
  /\ \A z \in DOMAIN r : z = at \/ \E k \in DOMAIN ns : z = Behind(at - 1, 1, k)
  /\ \A k \in 1..n : held[k] \in Buffer \ Buffers(ns) /\ ~IsArg(held[k])

\* The statements of its nodes.
ForkBodies(ns, b, readers, at, n, held, r) ==
  /\ DOMAIN r = 1..(Len(ns) + 1)
  /\ \A k \in DOMAIN ns : r[Behind(at - 1, 1, k)] = IF k \in readers THEN Rename(ns[k], b, held[UpTo(readers, k)]) ELSE ns[k]
  /\ r[at].body = [k \in 1..n |-> Copy(b, held[k])]
  /\ \A k \in 1..n : held[k][2] # 0
  /\ \A j, k \in 1..n : held[j] = held[k] => j = k

LEMMA ForkIs ==
  ASSUME NEW ns \in NodeSeq, NEW b \in Buffer, NEW readers, readers \subseteq Consumers(ns, b),
         NEW at \in 1..(Len(ns) + 1)
  PROVE  \E n, held : /\ n \in Nat /\ Forks(ns, b, readers, at, n, held, InsertFork(ns, b, readers, at))
                      /\ ForkBodies(ns, b, readers, at, n, held, InsertFork(ns, b, readers, at))
<1>1. PICK L, n, r : L = Len(ns) /\ n = Cardinality(readers) /\ r = InsertFork(ns, b, readers, at)
  OBVIOUS
<1>2. L \in Nat /\ DOMAIN ns = 1..L /\ \A k \in 1..L : ns[k] \in NodeSet
  BY <1>1, ScheduleIs
<1>3. readers \in SUBSET Nat /\ IsFiniteSet(readers) /\ readers \subseteq 1..L
  BY <1>2, Positions, FS_Subset
<1>4. n \in Nat
  BY <1>1, <1>3, FS_CardinalityType
<1>5. \A k \in readers : UpTo(readers, k) \in 1..n
  <2> TAKE k \in readers
  <2>1. UpTo(readers, k) \in Nat /\ UpTo(readers, k) >= 1
    BY <1>3, UpToIs
  <2>2. PICK S : S = {i \in readers : i <= k}
    OBVIOUS
  <2>3. Cardinality(S) <= Cardinality(readers)
    BY <1>3, <2>2, FS_Subset
  <2> QED BY <1>1, <1>4, <2>1, <2>2, <2>3 DEF UpTo
<1>6. PICK held, from : held = [k \in 1..n |-> New(ns, b, k)] /\ from = [k \in 1..n |-> b]
  OBVIOUS
<1>7. \A k \in 1..n : held[k] \in Buffer \ Buffers(ns) /\ ~IsArg(held[k]) /\ held[k] \in Buffer /\ from[k] \in Buffer
  <2> TAKE k \in 1..n
  <2>1. k \in Nat /\ k # 0 /\ held[k] = New(ns, b, k)
    BY <1>4, <1>6
  <2> QED BY <1>6, <2>1, Fresh DEF IsArg
<1>8. PICK body, fork : body = [k \in 1..n |-> Copy(b, held[k])] /\ fork = Node(body, NoLevel)
  OBVIOUS
<1>9. Copies(n, from, held, body)
  <2>1. \A k \in 1..n : Copy(b, held[k]) \in Statement
    BY <1>7, CopyIs
  <2> QED BY <1>6, <1>8, <2>1 DEF Copies
<1>10. fork \in NodeSet /\ fork.level = NoLevel /\ Moves(n, from, held, fork)
  <2>1. \A k \in 1..n : from[k] \in Buffer /\ held[k] \in Buffer
    BY <1>7
  <2>2. PICK level : level = NoLevel
    OBVIOUS
  <2>3. level \in Nat \cup {NoLevel}
    BY <2>2
  <2>4. /\ Node(body, level) \in NodeSet /\ Node(body, level).level = level
        /\ Moves(n, from, held, Node(body, level))
    BY <1>4, <1>9, <2>1, <2>3, CopiesIs
  <2> QED BY <1>8, <2>2, <2>4
<1>11. (\A x : x \in Outs(fork) <=> \E k \in 1..n : x = held[k]) /\ Ins(fork) \subseteq {b}
  <2>1. Ins(fork) \subseteq Used(fork)
    BY <1>10, Operands
  <2> QED BY <1>6, <1>10, <2>1 DEF Moves
<1>12. PICK moved : moved = [k \in DOMAIN ns |-> IF k \in readers THEN Rename(ns[k], b, New(ns, b, UpTo(readers, k))) ELSE ns[k]]
  OBVIOUS
<1>13. \A k \in 1..L :
         /\ moved[k] \in NodeSet /\ moved[k].level = ns[k].level /\ Outs(moved[k]) = Outs(ns[k])
         /\ k \notin readers => Ins(moved[k]) = Ins(ns[k])
         /\ k \in readers => Ins(moved[k]) = (Ins(ns[k]) \ {b}) \cup {held[UpTo(readers, k)]}
  <2> TAKE k \in 1..L
  <2>1. CASE k \notin readers
    BY <1>2, <1>12, <2>1
  <2>2. CASE k \in readers
    <3>1. PICK c, w : c = held[UpTo(readers, k)] /\ w = Rename(ns[k], b, c)
      OBVIOUS
    <3>2. moved[k] = w
      BY <1>2, <1>5, <1>6, <1>12, <2>2, <3>1
    <3>3. c \in Buffer /\ c \notin Ins(ns[k]) \cup Outs(ns[k])
      BY <1>2, <1>5, <1>7, <2>2, <3>1 DEF Buffers
    <3>4. b \in Ins(ns[k]) /\ b \notin Outs(ns[k])
      BY <1>2, <2>2, Operands DEF Consumers
    <3>5. /\ w \in NodeSet /\ w.level = ns[k].level
          /\ Outs(w) = {Instead(x, b, c) : x \in Outs(ns[k])}
          /\ Ins(w) = {Instead(x, b, c) : x \in Ins(ns[k])}
      BY <1>2, <3>1, <3>3, RenameIs
    <3>6. Outs(w) = Outs(ns[k]) /\ Ins(w) = (Ins(ns[k]) \ {b}) \cup {c}
      BY <3>4, <3>5 DEF Instead
    <3> QED BY <2>2, <3>1, <3>2, <3>5, <3>6
  <2> QED BY <2>1, <2>2
<1>14. moved \in Seq(NodeSet) /\ Len(moved) = L
  <2>1. moved \in [1..L -> NodeSet]
    BY <1>2, <1>12, <1>13
  <2> QED BY <1>2, <2>1
<1>15. PICK a, z, t, e : a = at - 1 /\ z = at - 1 /\ t = <<fork>> /\ e = 1
  OBVIOUS
<1>16. at \in 1..(L + 1) /\ a \in 0..L /\ z \in a..L /\ z + 1 = at
  BY <1>1, <1>2, <1>15
<1>17. r = Splice(moved, t, a, z)
  <2>1. fork = Node([k \in 1..Cardinality(readers) |-> Copy(b, New(ns, b, k))], NoLevel)
    BY <1>1, <1>6, <1>8
  <2>2. r = InsertAt(moved, at, fork)
    BY <1>1, <1>12, <2>1 DEF InsertFork
  <2> QED BY <1>15, <1>16, <2>2 DEF InsertAt, Splice
<1>18. t \in Seq(NodeSet) /\ Len(t) = e
  BY <1>10, <1>15, OneIs
<1>19. r \in Seq(NodeSet) /\ Len(r) = a + e + L - z /\ Splices(r, moved, L, t, e, a, z)
  <2>1. a \in 0..L
    BY <1>16
  <2>2. z \in a..L
    BY <1>16
  <2>3. /\ Splice(moved, t, a, z) \in Seq(NodeSet) /\ Len(Splice(moved, t, a, z)) = a + e + L - z
        /\ Splices(Splice(moved, t, a, z), moved, L, t, e, a, z)
    BY <1>14, <1>18, <2>1, <2>2, Spliced
  <2> QED BY <1>17, <2>3
<1>20. r \in NodeSeq /\ DOMAIN r = 1..(L + 1)
  <2>1. Len(r) = L + 1 /\ r \in NodeSeq
    BY <1>2, <1>15, <1>16, <1>19 DEF NodeSeq
  <2>2. DOMAIN r = 1..Len(r)
    BY <2>1, ScheduleIs
  <2> QED BY <2>1, <2>2
<1>21. r[at] = fork /\ at \in 1..(L + 1)
  BY <1>15, <1>16, <1>19 DEF Splices
<1>22. \A k \in 1..L : Behind(at - 1, 1, k) \in 1..(L + 1) /\ r[Behind(at - 1, 1, k)] = moved[k]
  <2> TAKE k \in 1..L
  <2>1. CASE k <= at - 1
    BY <1>2, <1>15, <1>16, <1>19, <2>1 DEF Behind, Splices
  <2>2. CASE k > at - 1
    <3>1. PICK d : d = k - z
      OBVIOUS
    <3>2. d \in 1..(L - z) /\ z + d = k /\ Behind(at - 1, 1, k) = a + e + d /\ a + e + d \in 1..(L + 1)
      BY <1>2, <1>15, <1>16, <2>2, <3>1 DEF Behind
    <3>3. r[a + e + d] = moved[z + d]
      BY <1>19, <3>2 DEF Splices
    <3> QED BY <3>2, <3>3
  <2> QED BY <1>2, <1>16, <2>1, <2>2
<1>23. \A y \in 1..(L + 1) : y = at \/ \E k \in 1..L : y = Behind(at - 1, 1, k)
  <2> TAKE y \in 1..(L + 1)
  <2>1. CASE y < at
    <3>1. y \in 1..L /\ y = Behind(at - 1, 1, y)
      BY <1>2, <1>16, <2>1 DEF Behind
    <3> QED BY <3>1
  <2>2. CASE y > at
    <3>1. y - 1 \in 1..L /\ y = Behind(at - 1, 1, y - 1)
      BY <1>2, <1>16, <2>2 DEF Behind
    <3> QED BY <3>1
  <2> QED BY <1>2, <1>16, <2>1, <2>2
<1>24. \A k \in 1..L :
         /\ Behind(at - 1, 1, k) \in DOMAIN r
         /\ r[Behind(at - 1, 1, k)].level = ns[k].level
         /\ Outs(r[Behind(at - 1, 1, k)]) = Outs(ns[k])
         /\ k \notin readers => Ins(r[Behind(at - 1, 1, k)]) = Ins(ns[k])
         /\ k \in readers => /\ UpTo(readers, k) \in 1..n
                             /\ Ins(r[Behind(at - 1, 1, k)]) = (Ins(ns[k]) \ {b}) \cup {held[UpTo(readers, k)]}
  BY <1>5, <1>13, <1>20, <1>22
<1>25. Forks(ns, b, readers, at, n, held, r)
  BY <1>2, <1>7, <1>10, <1>11, <1>20, <1>21, <1>23, <1>24 DEF Forks
<1>26. ForkBodies(ns, b, readers, at, n, held, r)
  <2>1. DOMAIN r = 1..(Len(ns) + 1)
    BY <1>1, <1>20
  <2>2. \A k \in 1..L : r[Behind(at - 1, 1, k)] = IF k \in readers THEN Rename(ns[k], b, held[UpTo(readers, k)]) ELSE ns[k]
    BY <1>2, <1>5, <1>6, <1>12, <1>22
  <2>3. r[at].body = [k \in 1..n |-> Copy(b, held[k])]
    BY <1>8, <1>21 DEF Node
  <2>4. \A k \in 1..n : k \in Nat /\ k # 0 /\ held[k] = New(ns, b, k)
    BY <1>4, <1>6
  <2>5. \A k \in 1..n : held[k][2] # 0
    BY <2>4, Fresh
  <2>6. ASSUME NEW j \in 1..n, NEW k \in 1..n, held[j] = held[k] PROVE j = k
    <3>1. j \in Nat /\ j # 0 /\ k \in Nat /\ New(ns, b, j) = New(ns, b, k)
      BY <2>4, <2>6
    <3> QED BY <3>1, Fresh
  <2> QED BY <1>2, <2>1, <2>2, <2>3, <2>5, <2>6 DEF ForkBodies
<1> QED BY <1>1, <1>4, <1>25, <1>26

\* A fork of b for the readers may stand at position at: what it reads is written before it.
Forkable(ns, b, readers, at) ==
    /\ readers \subseteq Consumers(ns, b)
    /\ at \in 1..(Len(ns) + 1)
    /\ \A k \in readers : at <= k
    /\ IF IsArg(b) THEN Producers(ns, b) = {} ELSE \E i \in Producers(ns, b) : i < at

\* What such a fork keeps.
ForkKept(ns, b, at, r) ==
    /\ Early(r)
    /\ \A i \in DOMAIN ns : i < at => i \in DOMAIN r /\ Outs(r[i]) = Outs(ns[i])
    /\ \A c : c # b /\ Consumers(ns, c) # {} => Consumers(r, c) # {}

LEMMA ForkKeeps ==
  ASSUME NEW ns, Early(ns), NEW b \in Buffer, NEW readers, NEW at, Forkable(ns, b, readers, at)
  PROVE  ForkKept(ns, b, at, InsertFork(ns, b, readers, at))
<1> DEFINE r == InsertFork(ns, b, readers, at)
<1> USE DEF Forkable
<1>1. ns \in NodeSeq /\ NoLevels(ns) /\ Defined(ns)
  BY DEF Early
<1>2. PICK n, held : /\ n \in Nat /\ Forks(ns, b, readers, at, n, held, r)
                     /\ ForkBodies(ns, b, readers, at, n, held, r)
  BY <1>1, ForkIs
<1>3. PICK a : a = at - 1
  OBVIOUS
<1>4. a \in Nat /\ at \in Nat /\ at = a + 1 /\ DOMAIN ns \in SUBSET Nat
  BY <1>1, <1>3, ScheduleIs
<1> DEFINE p(k) == Behind(a, 1, k)
<1>5. /\ r \in NodeSeq
      /\ \A k \in DOMAIN ns :
           /\ p(k) \in DOMAIN r /\ r[p(k)].level = ns[k].level /\ Outs(r[p(k)]) = Outs(ns[k])
           /\ k \notin readers => Ins(r[p(k)]) = Ins(ns[k])
           /\ k \in readers => /\ UpTo(readers, k) \in 1..n
                               /\ Ins(r[p(k)]) = (Ins(ns[k]) \ {b}) \cup {held[UpTo(readers, k)]}
      /\ at \in DOMAIN r /\ r[at].level = NoLevel
      /\ \A x : x \in Outs(r[at]) <=> \E k \in 1..n : x = held[k]
      /\ Ins(r[at]) \subseteq {b}
      /\ \A z \in DOMAIN r : z = at \/ \E k \in DOMAIN ns : z = p(k)
      /\ \A k \in 1..n : held[k] \in Buffer \ Buffers(ns) /\ ~IsArg(held[k])
  BY <1>2, <1>3 DEF Forks
<1>6. /\ \A k \in DOMAIN ns : k < at => p(k) = k
      /\ \A k \in DOMAIN ns : at <= k => at < p(k)
      /\ \A j \in DOMAIN ns : \A k \in DOMAIN ns : j < k => p(j) < p(k)
  BY <1>4 DEF Behind
<1> HIDE DEF p
<1>7. NoLevels(r)
  <2> SUFFICES ASSUME NEW z \in DOMAIN r PROVE r[z].level = NoLevel
    BY DEF NoLevels
  <2>1. CASE z = at
    BY <1>5, <2>1
  <2>2. CASE \E k \in DOMAIN ns : z = p(k)
    BY <1>1, <1>5, <2>2 DEF NoLevels
  <2> QED BY <1>5, <2>1, <2>2
<1>8. ASSUME NEW c \in Buffers(ns), Producers(ns, c) = {} PROVE Producers(r, c) = {}
  <2> SUFFICES ASSUME NEW z \in DOMAIN r, c \in Outs(r[z]) PROVE FALSE
    BY DEF Producers
  <2>1. CASE z = at
    BY <1>5, <2>1
  <2>2. CASE \E k \in DOMAIN ns : z = p(k)
    <3>1. PICK k \in DOMAIN ns : z = p(k)
      BY <2>2
    <3>2. c \in Outs(ns[k])
      BY <1>5, <3>1
    <3> QED BY <1>8, <3>2 DEF Producers
  <2> QED BY <1>5, <2>1, <2>2
<1>9. ASSUME NEW z \in DOMAIN r, NEW x \in Ins(r[z])
      PROVE  IF IsArg(x) THEN Producers(r, x) = {} ELSE \E y \in Producers(r, x) : y < z
  <2>1. CASE z = at
    <3>1. x = b
      BY <1>5, <2>1
    <3>2. CASE IsArg(b)
      <4>1. Producers(ns, b) = {}
        BY <3>2
      <4>2. ASSUME NEW y \in DOMAIN r, b \in Outs(r[y]) PROVE FALSE
        <5>1. CASE y = at
          BY <1>5, <3>2, <4>2, <5>1
        <5>2. CASE \E k \in DOMAIN ns : y = p(k)
          BY <1>5, <4>1, <4>2, <5>2 DEF Producers
        <5> QED BY <1>5, <5>1, <5>2
      <4> QED BY <3>1, <3>2, <4>2 DEF Producers
    <3>3. CASE ~IsArg(b)
      <4>1. PICK i \in DOMAIN ns : b \in Outs(ns[i]) /\ i < at
        BY <3>3 DEF Producers
      <4>2. i \in DOMAIN r /\ b \in Outs(r[i])
        BY <1>5, <1>6, <4>1
      <4> QED BY <2>1, <3>1, <3>3, <4>1, <4>2 DEF Producers
    <3> QED BY <3>2, <3>3
  <2>2. CASE \E k \in DOMAIN ns : z = p(k)
    <3>1. PICK k \in DOMAIN ns : z = p(k)
      BY <2>2
    <3>2. CASE x \in Ins(ns[k])
      <4>1. x \in Buffers(ns)
        BY <3>2 DEF Buffers
      <4>2. CASE IsArg(x)
        BY <1>1, <1>8, <3>2, <4>1, <4>2 DEF Defined
      <4>3. CASE ~IsArg(x)
        <5>1. PICK i \in DOMAIN ns : x \in Outs(ns[i]) /\ i < k
          BY <1>1, <3>2, <4>3 DEF Defined, Producers
        <5>2. p(i) \in DOMAIN r /\ x \in Outs(r[p(i)]) /\ p(i) < z
          BY <1>5, <1>6, <3>1, <5>1
        <5> QED BY <4>3, <5>2 DEF Producers
      <4> QED BY <4>2, <4>3
    <3>3. CASE x \notin Ins(ns[k])
      <4>1. k \in readers /\ UpTo(readers, k) \in 1..n /\ x = held[UpTo(readers, k)]
        BY <1>5, <3>1, <3>3
      <4>2. at \in DOMAIN r /\ x \in Outs(r[at]) /\ ~IsArg(x)
        BY <1>5, <4>1
      <4>3. at < z
        BY <1>6, <3>1, <4>1
      <4> QED BY <4>2, <4>3 DEF Producers
    <3> QED BY <3>2, <3>3
  <2> QED BY <1>5, <2>1, <2>2
<1>10. Early(r)
  BY <1>5, <1>7, <1>9 DEF Early, Defined
<1>11. \A i \in DOMAIN ns : i < at => i \in DOMAIN r /\ Outs(r[i]) = Outs(ns[i])
  BY <1>5, <1>6
<1>12. ASSUME NEW c, c # b, NEW k \in Consumers(ns, c) PROVE Consumers(r, c) # {}
  <2>1. k \in DOMAIN ns /\ c \in Ins(ns[k])
    BY DEF Consumers
  <2>2. p(k) \in DOMAIN r /\ c \in Ins(r[p(k)])
    BY <1>5, <1>12, <2>1
  <2> QED BY <2>2 DEF Consumers
<1> QED BY <1>10, <1>11, <1>12 DEF ForkKept

\* One node of copies of b brings its contents into their targets.
LEMMA ForkDelivers ==
  ASSUME NEW ns \in NodeSeq, NEW r \in NodeSeq, NEW b, b \in Buffers(ns), Buffers(ns) \subseteq Buffers(r),
         NEW at \in DOMAIN r, NEW n \in Nat, NEW x, NEW y, Copies(n, x, y, r[at].body),
         NEW Y, Y = {y[k] : k \in 1..n}, Y \subseteq Buffers(r) \ Buffers(ns),
         \A k \in 1..n : x[k] = b, \A j, k \in 1..n : y[j] = y[k] => j = k
  PROVE  Delivers(ns, b, at - 1, 1, Y, r)
<1> SUFFICES ASSUME NEW T, Stages(r, T)
             PROVE  /\ \A z \in Buffers(ns) : T[at][z] = T[at - 1][z]
                    /\ \A z \in Y : T[at][z] = T[at - 1][b]
  <2>1. at \in Nat /\ (at - 1) + 1 = at
    BY ScheduleIs
  <2> QED BY <2>1 DEF Delivers
<1>1. PICK M, N, W : M = T[at - 1] /\ N = T[at] /\ W = r[at].body
  OBVIOUS
<1>2. Goes(W, M, N) /\ Copies(n, x, y, W)
  BY <1>1 DEF Stages
<1>3. DOMAIN M = Buffers(r)
  <2>1. at - 1 \in 0..Len(r)
    BY ScheduleIs
  <2> QED BY <1>1, <2>1, StagesAre
<1>4. Apart(n, x, y, DOMAIN M)
  BY <1>3 DEF Apart
<1>5. /\ \A k \in 1..n : N[y[k]] = M[x[k]]
      /\ \A z \in DOMAIN M : (\A k \in 1..n : z # y[k]) => N[z] = M[z]
  BY <1>2, <1>4, CopiesGo
<1>6. \A z \in Buffers(ns) : N[z] = M[z]
  BY <1>3, <1>5
<1>7. \A z \in Y : N[z] = M[b]
  BY <1>5
<1> QED BY <1>1, <1>6, <1>7

\* The readers of b see it as it is behind node at - 1.
Timely(ns, b, readers, at) == \A k \in readers : \A p \in Producers(ns, b) : p < at \/ k < p

LEMMA ForkMeans ==
  ASSUME NEW ns \in NodeSeq, NEW b, b \in Buffers(ns), NEW readers, NEW at, Forkable(ns, b, readers, at),
         Timely(ns, b, readers, at),
         NEW n \in Nat, NEW held, NEW r, Forks(ns, b, readers, at, n, held, r), ForkBodies(ns, b, readers, at, n, held, r)
  PROVE  Meaning(r) = Meaning(ns)
<1>1. PICK L, a : L = Len(ns) /\ a = at - 1
  OBVIOUS
<1>2. /\ L \in Nat /\ DOMAIN ns = 1..L /\ at \in 1..(L + 1) /\ a \in 0..L /\ a \in Nat /\ at = a + 1
      /\ b \in Buffer /\ readers \subseteq DOMAIN ns /\ \A k \in readers : a < k /\ b \in Ins(ns[k]) /\ b \notin Outs(ns[k])
  <2>1. L \in Nat /\ DOMAIN ns = 1..L /\ b \in Buffer
    BY <1>1, ScheduleIs
  <2>2. at \in 1..(L + 1)
    BY <1>1 DEF Forkable
  <2>3. at \in Nat /\ a \in 0..L /\ a \in Nat /\ at = a + 1
    BY <1>1, <2>1, <2>2
  <2>4. readers \subseteq DOMAIN ns /\ \A k \in readers : b \in Ins(ns[k]) /\ at <= k
    BY DEF Forkable, Consumers
  <2>5. \A k \in readers : a < k /\ b \notin Outs(ns[k])
    BY <2>1, <2>3, <2>4, Operands, ScheduleIs
  <2> QED BY <2>1, <2>2, <2>3, <2>4, <2>5
<1>3. /\ r \in NodeSeq /\ at \in DOMAIN r
      /\ \A k \in DOMAIN ns :
           /\ Behind(a, 1, k) \in DOMAIN r /\ Outs(r[Behind(a, 1, k)]) = Outs(ns[k])
           /\ k \notin readers => Ins(r[Behind(a, 1, k)]) = Ins(ns[k])
           /\ k \in readers => /\ UpTo(readers, k) \in 1..n
                               /\ Ins(r[Behind(a, 1, k)]) = (Ins(ns[k]) \ {b}) \cup {held[UpTo(readers, k)]}
      /\ \A x : x \in Outs(r[at]) <=> \E k \in 1..n : x = held[k]
      /\ Ins(r[at]) \subseteq {b}
      /\ \A z \in DOMAIN r : z = at \/ \E k \in DOMAIN ns : z = Behind(a, 1, k)
      /\ \A k \in 1..n : held[k] \in Buffer \ Buffers(ns)
  BY <1>1 DEF Forks
<1>4. /\ DOMAIN r = 1..(L + 1)
      /\ \A k \in DOMAIN ns : r[Behind(a, 1, k)] = IF k \in readers THEN Rename(ns[k], b, held[UpTo(readers, k)]) ELSE ns[k]
      /\ r[at].body = [k \in 1..n |-> Copy(b, held[k])]
      /\ \A k \in 1..n : held[k][2] # 0
      /\ \A j, k \in 1..n : held[j] = held[k] => j = k
  BY <1>1 DEF ForkBodies
<1>5. PICK c, Y, from : /\ c = [k \in DOMAIN ns |-> IF k \in readers THEN held[UpTo(readers, k)] ELSE b]
                        /\ Y = {held[k] : k \in 1..n} /\ from = [k \in 1..n |-> b]
  OBVIOUS
<1>6. Copies(n, from, held, r[at].body)
  <2>1. \A k \in 1..n : Copy(b, held[k]) \in Statement
    BY <1>2, <1>3, CopyIs
  <2> QED BY <1>4, <1>5, <2>1 DEF Copies
<1>7. n >= 1 => b \in Buffers(r)
  <2> HAVE n >= 1
  <2>1. 1 \in 1..n /\ r[at].body[1] = Copy(b, held[1]) /\ Len(r[at].body) = n
    BY <1>4
  <2>2. b \in Reads(r[at].body[1])
    BY <1>2, <1>3, <2>1, CopyIs
  <2> QED BY <1>3, <2>1, <2>2, BuffersAre
<1>8. Buffers(ns) \subseteq Buffers(r)
  <2> SUFFICES ASSUME NEW k \in DOMAIN ns, NEW x \in Ins(ns[k]) \cup Outs(ns[k]) PROVE x \in Buffers(r)
    BY DEF Buffers
  <2>1. CASE x \in Outs(ns[k])
    BY <1>3, <2>1 DEF Buffers
  <2>2. CASE x \in Ins(ns[k]) /\ (x # b \/ k \notin readers)
    BY <1>3, <2>2 DEF Buffers
  <2>3. CASE k \in readers /\ x = b
    <3>1. UpTo(readers, k) \in 1..n
      BY <1>3, <2>3
    <3> QED BY <1>7, <2>3, <3>1
  <2> QED BY <2>1, <2>2, <2>3
<1>9. \A x \in Buffers(r) \ Buffers(ns) : x[2] # 0
  <2> SUFFICES ASSUME NEW z \in DOMAIN r, NEW x \in Ins(r[z]) \cup Outs(r[z])
               PROVE  x \in Buffers(ns) \/ \E k \in 1..n : x = held[k]
    BY <1>4 DEF Buffers
  <2>1. CASE z = at
    BY <1>3, <2>1
  <2>2. CASE \E k \in DOMAIN ns : z = Behind(a, 1, k)
    <3>1. PICK k \in DOMAIN ns : z = Behind(a, 1, k)
      BY <2>2
    <3>2. x \in Ins(ns[k]) \cup Outs(ns[k]) \/ (k \in readers /\ x = held[UpTo(readers, k)] /\ UpTo(readers, k) \in 1..n)
      BY <1>3, <3>1
    <3> QED BY <3>2 DEF Buffers
  <2> QED BY <1>3, <2>1, <2>2
<1>10. Y \subseteq Buffers(r) \ Buffers(ns)
  BY <1>3, <1>5 DEF Buffers
<1>11. \A k \in DOMAIN ns : Swapped(ns[k].body, r[Behind(a, 1, k)].body, b, c[k])
  <2> TAKE k \in DOMAIN ns
  <2>1. PICK m, e : m = r[Behind(a, 1, k)] /\ e = c[k]
    OBVIOUS
  <2>2. e \in Buffer
    BY <1>2, <1>3, <1>5, <2>1
  <2>3. m = Rename(ns[k], b, e) \/ (m = ns[k] /\ e = b)
    BY <1>4, <1>5, <2>1
  <2>4. Swapped(ns[k].body, m.body, b, e)
    BY <1>2, <2>2, <2>3, MovedBody
  <2> QED BY <2>1, <2>4
<1>12. \A k \in DOMAIN ns : c[k] = b \/ /\ c[k] \in Y /\ a < k /\ b \notin Outs(ns[k])
                                        /\ \A p \in Producers(ns, b) : p <= a \/ k < p
  <2> TAKE k \in DOMAIN ns
  <2>1. CASE k \notin readers
    <3>1. c = [j \in DOMAIN ns |-> IF j \in readers THEN held[UpTo(readers, j)] ELSE b]
      BY <1>5
    <3>2. c[k] = b
      BY <2>1, <3>1
    <3> QED BY <3>2
  <2>2. CASE k \in readers
    <3>1. UpTo(readers, k) \in 1..n
      BY <1>3, <2>2
    <3>2. c[k] \in Y
      BY <1>5, <2>2, <3>1
    <3>3. \A p \in Producers(ns, b) : p < at \/ k < p
      BY <2>2 DEF Timely
    <3>4. \A p \in Producers(ns, b) : p \in Nat
      BY Positions
    <3>5. \A p \in Producers(ns, b) : p <= a \/ k < p
      BY <1>2, <3>3, <3>4
    <3>6. a < k /\ b \notin Outs(ns[k])
      BY <1>2, <2>2
    <3> QED BY <3>2, <3>5, <3>6
  <2> QED BY <2>1, <2>2
<1>13. PICK e : e = 1
  OBVIOUS
<1>14. Inserted(ns, b, a, e, c, Y, r)
  <2>1. e \in Nat /\ DOMAIN r = 1..(Len(ns) + e) /\ a \in 0..Len(ns)
    BY <1>1, <1>2, <1>4, <1>13
  <2>2. \A k \in DOMAIN ns : Swapped(ns[k].body, r[Behind(a, e, k)].body, b, c[k])
    BY <1>11, <1>13
  <2> QED BY <1>3, <1>8, <1>9, <1>10, <1>12, <2>1, <2>2 DEF Inserted
<1>15. Delivers(ns, b, a, e, Y, r)
  <2>1. \A k \in 1..n : from[k] = b
    BY <1>5
  <2>2. \A j, k \in 1..n : held[j] = held[k] => j = k
    BY <1>4
  <2>3. r \in NodeSeq /\ at \in DOMAIN r
    BY <1>3
  <2>4. Y = {held[k] : k \in 1..n}
    BY <1>5
  <2>5. Delivers(ns, b, at - 1, 1, Y, r)
    BY <1>6, <1>8, <1>10, <2>1, <2>2, <2>3, <2>4, ForkDelivers
  <2> QED BY <1>1, <1>13, <2>5
<1> QED BY <1>14, <1>15, InsertMeans

\* Nor does it change what the schedule computes.
LEMMA ForkSame ==
  ASSUME NEW ns \in NodeSeq, NEW b, b \in Buffers(ns), NEW readers, NEW at, Forkable(ns, b, readers, at),
         Timely(ns, b, readers, at)
  PROVE  Same(ns, InsertFork(ns, b, readers, at))
<1>1. PICK r : r = InsertFork(ns, b, readers, at)
  OBVIOUS
<1>2. b \in Buffer
  BY ScheduleIs
<1>3. PICK n, held : n \in Nat /\ Forks(ns, b, readers, at, n, held, r) /\ ForkBodies(ns, b, readers, at, n, held, r)
  BY <1>1, <1>2, ForkIs DEF Forkable
<1>4. Meaning(r) = Meaning(ns)
  BY <1>3, ForkMeans
<1> QED BY <1>1, <1>4 DEF Same

\* The forks behind node i.
Forking(ns, i, bs, T, v) == Early(v) /\ Same(ns, v) /\ i \in DOMAIN v /\ \A b \in bs \ T : b \in Outs(v[i])

LEMMA ForkStep ==
  ASSUME NEW ns, NEW i, NEW bs, \A b \in bs : ~IsArg(b), NEW T \in SUBSET bs, NEW b \in T,
         NEW v, Forking(ns, i, bs, T \ {b}, v)
  PROVE  Forking(ns, i, bs, T, InsertFork(v, b, Readers(v, b, i), i + 1))
<1>1. Early(v) /\ v \in NodeSeq /\ i \in DOMAIN v /\ b \in Outs(v[i]) /\ ~IsArg(b)
  BY DEF Forking, Early
<1>2. PICK readers, at, r : readers = Readers(v, b, i) /\ at = i + 1 /\ r = InsertFork(v, b, readers, at)
  OBVIOUS
<1>3. b \in Buffer /\ i \in Nat /\ DOMAIN v = 1..Len(v) /\ Len(v) \in Nat
  BY <1>1, ScheduleIs, Operands
<1>4. readers \subseteq Consumers(v, b) /\ \A k \in readers : k \in Nat /\ i < k
  BY <1>1, <1>2, Positions DEF Readers, DependentConsumers
<1>5. at \in 1..(Len(v) + 1) /\ \A k \in readers : at <= k
  BY <1>1, <1>2, <1>3, <1>4
<1>6. Forkable(v, b, readers, at) /\ i < at
  BY <1>1, <1>2, <1>3, <1>4, <1>5 DEF Producers, Forkable
<1>7. ForkKept(v, b, at, r)
  BY <1>1, <1>2, <1>3, <1>6, ForkKeeps
<1>8. \A c \in bs \ T : c \in Outs(v[i])
  BY DEF Forking
<1>10. Timely(v, b, readers, at)
  <2> SUFFICES ASSUME NEW k \in readers, NEW p \in Producers(v, b) PROVE p < at \/ k < p
    BY DEF Timely
  <2>1. p \in Nat /\ k \in Nat /\ p # k
    BY <1>1, <1>4, Positions
  <2>2. p = i \/ ~(i < p) \/ ~(p < k)
    BY <1>2 DEF Readers
  <2> QED BY <1>2, <1>3, <1>4, <2>1, <2>2
<1>11. Same(ns, r)
  <2>1. b \in Buffers(v)
    BY <1>1 DEF Buffers
  <2>2. Meaning(r) = Meaning(v)
    BY <1>1, <1>2, <1>6, <1>10, <2>1, ForkSame DEF Same
  <2> QED BY <2>2 DEF Forking, Same
<1>9. Forking(ns, i, bs, T, r)
  BY <1>1, <1>6, <1>7, <1>8, <1>11 DEF Forking, ForkKept
<1> QED BY <1>2, <1>9

ForkNodes(ns, i) == FoldSet(LAMBDA b, acc : InsertFork(acc, b, Readers(acc, b, i), i + 1), ns, Forked(ns, i))

LEMMA ForkNodesKeep ==
  ASSUME NEW ns, Early(ns), NEW i \in DOMAIN ns
  PROVE  Early(ForkNodes(ns, i)) /\ Same(ns, ForkNodes(ns, i))
<1>1. PICK bs, r : bs = Forked(ns, i) /\ r = ForkNodes(ns, i)
  OBVIOUS
<1>2. ns \in NodeSeq /\ Defined(ns)
  BY DEF Early
<1>3. IsFiniteSet(bs) /\ \A b \in bs : b \in Outs(ns[i])
  <2>1. IsFiniteSet(Outs(ns[i])) /\ bs \subseteq Outs(ns[i])
    BY <1>1, <1>2, ScheduleIs, Operands DEF Forked
  <2> QED BY <2>1, FS_Subset
<1>4. \A b \in bs : ~IsArg(b)
  <2> SUFFICES ASSUME NEW b \in bs, IsArg(b) PROVE FALSE
    OBVIOUS
  <2>1. Readers(ns, b, i) # {}
    BY <1>1, FS_EmptySet DEF Forked
  <2>2. PICK j : j \in Consumers(ns, b)
    BY <2>1 DEF Readers, DependentConsumers
  <2>3. Producers(ns, b) = {}
    BY <1>2, <2>2 DEF Defined, Consumers
  <2> QED BY <1>3, <2>3 DEF Producers
<1> DEFINE Into(iter) == iter = [T \in SUBSET bs |->
               IF T = {} THEN ns
               ELSE InsertFork(iter[T \ {Some(T)}], Some(T), Readers(iter[T \ {Some(T)}], Some(T), i), i + 1)]
<1>5. r = (CHOOSE iter : Into(iter))[bs]
  BY <1>1 DEF ForkNodes, FoldSet, MapThenFoldSet, Some
<1>6. PICK I, h : /\ I = [T \in SUBSET bs |-> {v \in NodeSeq : Forking(ns, i, bs, T, v)}]
                  /\ h = [T \in SUBSET bs |-> [v \in NodeSeq |-> InsertFork(v, Some(T), Readers(v, Some(T), i), i + 1)]]
  OBVIOUS
<1>7. \A T \in SUBSET bs : \A v : v \in I[T] <=> Forking(ns, i, bs, T, v)
  BY <1>6 DEF Forking, Early
<1>8. ns \in I[{}]
  BY <1>3, <1>7 DEF Forking, Same
<1>9. ASSUME NEW T \in SUBSET bs, T # {}, NEW v \in I[T \ {Some(T)}]
      PROVE  v \in NodeSeq /\ InsertFork(v, Some(T), Readers(v, Some(T), i), i + 1) \in I[T]
  <2>1. PICK b : b = Some(T)
    OBVIOUS
  <2>2. b \in T /\ Forking(ns, i, bs, T \ {b}, v)
    BY <1>7, <1>9, <2>1, SomeMember
  <2>3. Forking(ns, i, bs, T, InsertFork(v, b, Readers(v, b, i), i + 1))
    BY <1>4, <2>2, ForkStep
  <2> QED BY <1>7, <2>1, <2>2, <2>3 DEF Forking, Early
<1>10. PICK it : Visits(bs, ns, h, it) /\ \A T \in SUBSET bs : it[T] \in I[T]
  <2>1. \A T \in SUBSET bs : T # {} => \A v \in I[T \ {Some(T)}] : h[T][v] \in I[T]
    BY <1>6, <1>9
  <2> QED BY <1>3, <1>8, <2>1, VisitsExist
<1>11. Into(it)
  <2>1. \A T \in SUBSET bs : T # {} =>
          h[T][it[T \ {Some(T)}]] = InsertFork(it[T \ {Some(T)}], Some(T), Readers(it[T \ {Some(T)}], Some(T), i), i + 1)
    BY <1>6, <1>9, <1>10
  <2> QED BY <1>10, <2>1 DEF Visits
<1>12. PICK f : f = CHOOSE iter : Into(iter)
  OBVIOUS
<1>13. Into(f) /\ r = f[bs]
  BY <1>5, <1>11, <1>12
<1>14. f[{}] \in I[{}]
  BY <1>8, <1>13
<1>15. ASSUME NEW T \in SUBSET bs, T # {}, f[T \ {Some(T)}] \in I[T \ {Some(T)}] PROVE f[T] \in I[T]
  <2>1. PICK v : v = f[T \ {Some(T)}]
    OBVIOUS
  <2>2. f[T] = InsertFork(f[T \ {Some(T)}], Some(T), Readers(f[T \ {Some(T)}], Some(T), i), i + 1)
    BY <1>13, <1>15
  <2>3. f[T] = InsertFork(v, Some(T), Readers(v, Some(T), i), i + 1)
    BY <2>1, <2>2
  <2>4. v \in I[T \ {Some(T)}]
    BY <1>15, <2>1
  <2> QED BY <1>9, <1>15, <2>3, <2>4
<1> HIDE DEF Into
<1>16. f[bs] \in I[bs]
  BY <1>3, <1>14, <1>15, VisitsStay
<1> QED BY <1>1, <1>7, <1>13, <1>16 DEF Forking

\* The forks of arguments.
Widening(ns, bs, T, v) == Early(v) /\ Same(ns, v) /\ \A b \in bs \ T : Consumers(v, b) # {}

LEMMA WidenStep ==
  ASSUME NEW ns, NEW bs, \A b \in bs : IsArg(b) /\ b \in Buffer, NEW T \in SUBSET bs, NEW b \in T,
         NEW v, Widening(ns, bs, T \ {b}, v)
  PROVE  Widening(ns, bs, T, ForkArg(v, b))
<1>1. Early(v) /\ v \in NodeSeq /\ Defined(v) /\ Consumers(v, b) # {} /\ IsArg(b) /\ b \in Buffer
  BY DEF Widening, Early
<1>2. PICK readers, at, r : readers = Consumers(v, b) /\ at = Min(readers) /\ r = InsertFork(v, b, readers, at)
  OBVIOUS
<1>3. readers \in SUBSET Nat /\ readers \subseteq DOMAIN v
  BY <1>1, <1>2, Positions
<1>4. at \in readers /\ \A k \in readers : at <= k
  BY <1>1, <1>2, <1>3, MinIs
<1>5. at \in 1..(Len(v) + 1)
  BY <1>1, <1>3, <1>4, ScheduleIs
<1>6. Forkable(v, b, readers, at)
  BY <1>1, <1>2, <1>4, <1>5 DEF Defined, Consumers, Forkable
<1>7. ForkKept(v, b, at, r)
  BY <1>1, <1>2, <1>6, ForkKeeps
<1>8. \A c \in bs \ T : c # b /\ Consumers(v, c) # {}
  BY DEF Widening
<1>10. Same(ns, r)
  <2>1. Producers(v, b) = {} /\ b \in Buffers(v)
    BY <1>1 DEF Defined, Consumers, Buffers
  <2>2. Timely(v, b, readers, at)
    BY <2>1 DEF Timely
  <2>3. Meaning(r) = Meaning(v)
    BY <1>1, <1>2, <1>6, <2>1, <2>2, ForkSame DEF Same
  <2> QED BY <2>3 DEF Widening, Same
<1>9. Widening(ns, bs, T, r)
  BY <1>7, <1>8, <1>10 DEF Widening, ForkKept
<1> QED BY <1>2, <1>9 DEF ForkArg

ForkArgs(ns) == FoldSet(LAMBDA b, acc : ForkArg(acc, b), ns, WideArgs(ns))

LEMMA ForkArgsKeep ==
  ASSUME NEW ns, Early(ns)
  PROVE  Early(ForkArgs(ns)) /\ Same(ns, ForkArgs(ns))
<1>1. PICK bs, r : bs = WideArgs(ns) /\ r = ForkArgs(ns)
  OBVIOUS
<1>2. ns \in NodeSeq
  BY DEF Early
<1>3. IsFiniteSet(bs) /\ \A b \in bs : b \in Buffer /\ IsArg(b) /\ Consumers(ns, b) # {}
  <2>1. IsFiniteSet(Buffers(ns)) /\ bs \subseteq Buffers(ns) /\ Buffers(ns) \in SUBSET Buffer
    BY <1>1, <1>2, ScheduleIs DEF WideArgs
  <2>2. \A b \in bs : IsArg(b) /\ Consumers(ns, b) # {}
    BY <1>1, FS_EmptySet DEF WideArgs
  <2> QED BY <2>1, <2>2, FS_Subset
<1> DEFINE Into(iter) == iter = [T \in SUBSET bs |-> IF T = {} THEN ns ELSE ForkArg(iter[T \ {Some(T)}], Some(T))]
<1>4. r = (CHOOSE iter : Into(iter))[bs]
  BY <1>1 DEF ForkArgs, FoldSet, MapThenFoldSet, Some
<1>5. PICK I, h : /\ I = [T \in SUBSET bs |-> {v \in NodeSeq : Widening(ns, bs, T, v)}]
                  /\ h = [T \in SUBSET bs |-> [v \in NodeSeq |-> ForkArg(v, Some(T))]]
  OBVIOUS
<1>6. \A T \in SUBSET bs : \A v : v \in I[T] <=> Widening(ns, bs, T, v)
  BY <1>5 DEF Widening, Early
<1>7. ns \in I[{}]
  BY <1>3, <1>6 DEF Widening, Same
<1>8. ASSUME NEW T \in SUBSET bs, T # {}, NEW v \in I[T \ {Some(T)}]
      PROVE  v \in NodeSeq /\ ForkArg(v, Some(T)) \in I[T]
  <2>1. PICK b : b = Some(T)
    OBVIOUS
  <2>2. b \in T /\ Widening(ns, bs, T \ {b}, v)
    BY <1>6, <1>8, <2>1, SomeMember
  <2>3. Widening(ns, bs, T, ForkArg(v, b))
    BY <1>3, <2>2, WidenStep
  <2> QED BY <1>6, <2>1, <2>2, <2>3 DEF Widening, Early
<1>9. PICK it : Visits(bs, ns, h, it) /\ \A T \in SUBSET bs : it[T] \in I[T]
  <2>1. \A T \in SUBSET bs : T # {} => \A v \in I[T \ {Some(T)}] : h[T][v] \in I[T]
    BY <1>5, <1>8
  <2> QED BY <1>3, <1>7, <2>1, VisitsExist
<1>10. Into(it)
  <2>1. \A T \in SUBSET bs : T # {} => h[T][it[T \ {Some(T)}]] = ForkArg(it[T \ {Some(T)}], Some(T))
    BY <1>5, <1>8, <1>9
  <2> QED BY <1>9, <2>1 DEF Visits
<1>11. PICK f : f = CHOOSE iter : Into(iter)
  OBVIOUS
<1>12. Into(f) /\ r = f[bs]
  BY <1>4, <1>10, <1>11
<1>13. f[{}] \in I[{}]
  BY <1>7, <1>12
<1>14. \A T \in SUBSET bs : T # {} /\ f[T \ {Some(T)}] \in I[T \ {Some(T)}] => f[T] \in I[T]
  BY <1>8, <1>12
<1> HIDE DEF Into
<1>15. f[bs] \in I[bs]
  BY <1>3, <1>13, <1>14, VisitsStay
<1> QED BY <1>1, <1>6, <1>12, <1>15 DEF Widening

-----------------------------------------------------------------------------
(***************************************************************************)
(* Levels.                                                                 *)
(***************************************************************************)

\* Schedules with the same operands have the same channels.
Alike(ns, r) == /\ DOMAIN r = DOMAIN ns
                /\ \A k \in DOMAIN ns : Outs(r[k]) = Outs(ns[k]) /\ Ins(r[k]) = Ins(ns[k])

LEMMA AlikeUses ==
  ASSUME NEW ns, NEW r, Alike(ns, r), NEW b
  PROVE  /\ Producers(r, b) = Producers(ns, b) /\ Consumers(r, b) = Consumers(ns, b)
         /\ \A i : /\ DependentConsumers(r, b, i) = DependentConsumers(ns, b, i)
                   /\ ViolatesChannel(r, b, i) <=> ViolatesChannel(ns, b, i)
<1>1. Producers(r, b) = Producers(ns, b) /\ Consumers(r, b) = Consumers(ns, b)
  BY DEF Alike, Producers, Consumers
<1>2. \A i : DependentConsumers(r, b, i) = DependentConsumers(ns, b, i)
  BY <1>1 DEF DependentConsumers
<1> QED BY <1>1, <1>2 DEF ViolatesChannel

\* The level ALAPScheduleNode gives.
Above(ns, i) == Max({0} \cup {ns[j].level + 1 : j \in AllConsumers(ns, i)})

LEMMA AboveIs ==
  ASSUME NEW ns \in NodeSeq, NEW i \in DOMAIN ns, Schedulable(ns, i)
  PROVE  Above(ns, i) \in Nat /\ \A j \in AllConsumers(ns, i) : ns[j].level \in Nat /\ Above(ns, i) > ns[j].level
<1> DEFINE S == {ns[j].level + 1 : j \in AllConsumers(ns, i)}
<1>1. AllConsumers(ns, i) \subseteq DOMAIN ns
  BY Positions DEF AllConsumers, DependentConsumers, Consumers
<1>2. IsFiniteSet(AllConsumers(ns, i))
  BY <1>1, ScheduleIs, FS_Subset
<1>3. \A j \in AllConsumers(ns, i) : ns[j].level \in Nat
  BY <1>1, ScheduleIs, NodeIs DEF Schedulable
<1>4. S \in SUBSET Nat /\ IsFiniteSet(S)
  <2>1. [j \in AllConsumers(ns, i) |-> ns[j].level + 1] \in Surjection(AllConsumers(ns, i), S)
    BY DEF Surjection
  <2>2. IsFiniteSet(S)
    BY <1>2, <2>1, FS_Surjection
  <2> QED BY <1>3, <2>2
<1>5. {0} \cup S \in SUBSET Nat /\ IsFiniteSet({0} \cup S) /\ {0} \cup S # {}
  <2>1. IsFiniteSet({0})
    BY FS_Singleton
  <2>2. IsFiniteSet({0} \cup S)
    BY <1>4, <2>1, FS_Union
  <2> QED BY <1>4, <2>2
<1>6. PICK T : T = {0} \cup S
  OBVIOUS
<1>7. Max(T) \in T /\ \A x \in T : x <= Max(T)
  BY <1>5, <1>6, MaxIs
<1>8. Max(T) \in Nat
  BY <1>5, <1>6, <1>7
<1>9. \A j \in AllConsumers(ns, i) : ns[j].level + 1 <= Max(T)
  BY <1>6, <1>7
<1>10. Above(ns, i) = Max(T)
  BY <1>6 DEF Above
<1> QED BY <1>3, <1>8, <1>9, <1>10

LEMMA BodiesSame ==
  ASSUME NEW ns, NEW r, DOMAIN r = DOMAIN ns, \A k \in DOMAIN ns : r[k].body = ns[k].body
  PROVE  Same(ns, r)
<1>1. \A k \in DOMAIN ns : Outs(r[k]) = Outs(ns[k]) /\ Ins(r[k]) = Ins(ns[k])
  BY DEF Outs, Ins
<1>2. Buffers(r) = Buffers(ns)
  BY <1>1 DEF Buffers
<1>3. [i \in DOMAIN r |-> r[i].body] = [i \in DOMAIN ns |-> ns[i].body]
  OBVIOUS
<1>4. InOrder(r) = InOrder(ns)
  BY <1>2, <1>3 DEF InOrder, Whole, Start
<1>5. Meaning(r) = Meaning(ns)
  BY <1>2, <1>4, MeansSame
<1> QED BY <1>5 DEF Same

LEMMA LevelKeeps ==
  ASSUME NEW ns \in NodeSeq, Defined(ns), Channels(ns), Downhill(ns), NEW i \in DOMAIN ns, Schedulable(ns, i),
         NEW r, r = [ns EXCEPT ![i].level = Above(ns, i)]
  PROVE  r \in NodeSeq /\ Defined(r) /\ Channels(r) /\ Downhill(r) /\ Same(ns, r)
<1>1. PICK m : m = Above(ns, i)
  OBVIOUS
<1>2. m \in Nat /\ \A j \in AllConsumers(ns, i) : ns[j].level \in Nat /\ m > ns[j].level
  BY <1>1, AboveIs
<1>3. PICK n : n = [ns[i] EXCEPT !.level = m]
  OBVIOUS
<1>4. r = [ns EXCEPT ![i] = n]
  BY <1>1, <1>3
<1>5. ns[i] \in NodeSet
  BY ScheduleIs
<1>6. n \in NodeSet /\ n.level = m /\ n.body = ns[i].body
  BY <1>2, <1>3, <1>5 DEF NodeSet
<1>7. r \in NodeSeq
  BY <1>4, <1>6 DEF NodeSeq
<1>8. DOMAIN r = DOMAIN ns /\ r[i] = n /\ \A k \in DOMAIN ns : k # i => r[k] = ns[k]
  BY <1>4
<1>9. Outs(n) = Outs(ns[i]) /\ Ins(n) = Ins(ns[i])
  BY <1>6 DEF Outs, Ins
<1>10. Alike(ns, r)
  BY <1>8, <1>9 DEF Alike
<1>11. \A k \in DOMAIN ns : Outs(r[k]) = Outs(ns[k]) /\ Ins(r[k]) = Ins(ns[k])
  BY <1>10 DEF Alike
<1>12. \A b : Producers(r, b) = Producers(ns, b)
  BY <1>10, AlikeUses
<1>13. \A b, k : /\ DependentConsumers(r, b, k) = DependentConsumers(ns, b, k)
                 /\ ViolatesChannel(r, b, k) <=> ViolatesChannel(ns, b, k)
  BY <1>10, AlikeUses
<1>14. Defined(r)
  BY <1>8, <1>11, <1>12 DEF Defined
<1>15. Channels(r)
  <2> SUFFICES ASSUME NEW k \in DOMAIN ns, r[k].level # NoLevel, NEW b \in Outs(ns[k])
               PROVE  ~ViolatesChannel(ns, b, k)
    BY <1>8, <1>11, <1>13 DEF Channels
  <2>1. CASE k = i
    BY <2>1 DEF Schedulable
  <2>2. CASE k # i
    BY <1>8, <2>2 DEF Channels
  <2> QED BY <2>1, <2>2
<1>16. Downhill(r)
  <2> SUFFICES ASSUME NEW k \in DOMAIN r, r[k].level # NoLevel, NEW b \in Outs(r[k]),
                      NEW j \in DependentConsumers(r, b, k)
               PROVE  r[j].level # NoLevel /\ r[k].level > r[j].level
    BY DEF Downhill
  <2> k \in DOMAIN ns /\ b \in Outs(ns[k]) /\ j \in DependentConsumers(ns, b, k)
    BY <1>8, <1>11, <1>13
  <2>1. j \in DOMAIN ns /\ j # k
    BY DEF DependentConsumers, Consumers
  <2>2. CASE k = i
    <3>1. j \in AllConsumers(ns, i)
      BY <2>2 DEF AllConsumers
    <3>2. ns[j].level \in Nat /\ m > ns[j].level
      BY <1>2, <3>1
    <3>3. r[j] = ns[j] /\ r[k].level = m
      BY <1>6, <1>8, <2>1, <2>2
    <3>4. r[j].level # NoLevel
      BY <3>1, <3>3 DEF Schedulable
    <3> QED BY <3>2, <3>3, <3>4
  <2>3. CASE k # i
    <3>1. ns[j].level # NoLevel /\ ns[k].level > ns[j].level
      BY <1>8, <2>3 DEF Downhill
    <3>2. j # i
      BY <3>1 DEF Schedulable
    <3> QED BY <1>8, <2>1, <2>3, <3>1, <3>2
  <2> QED BY <2>2, <2>3
<1>17. Same(ns, r)
  BY <1>6, <1>8, BodiesSame
<1> QED BY <1>7, <1>14, <1>15, <1>16, <1>17

\* With no path bypassed, a channel leads to the next level.
LEMMA BalancedIs ==
  ASSUME NEW ns \in NodeSeq, Downhill(ns), \A i \in DOMAIN ns : Bypassed(ns, i) = {}
  PROVE  NextDown(ns)
<1> SUFFICES ASSUME NEW i \in DOMAIN ns, ns[i].level # NoLevel, NEW b \in Outs(ns[i]),
                    NEW j \in DependentConsumers(ns, b, i), Carried(b)
             PROVE  ns[i].level = ns[j].level + 1
  BY DEF NextDown
<1>1. ns[j].level # NoLevel /\ ns[i].level > ns[j].level
  BY DEF Downhill
<1>2. j \notin Far(ns, b, i)
  BY DEF Bypassed
<1>3. ~(ns[i].level - ns[j].level > 1)
  BY <1>1, <1>2 DEF Far
<1>4. j \in DOMAIN ns
  BY DEF DependentConsumers, Consumers
<1>5. ns[i].level \in Nat /\ ns[j].level \in Nat
  BY <1>1, <1>4, ScheduleIs, NodeIs
<1> QED BY <1>1, <1>3, <1>5

-----------------------------------------------------------------------------
(***************************************************************************)
(* The invariant of the passes.                                            *)
(***************************************************************************)

\* Until levels are given there are none; from then on a node that has one keeps to
\* the channels of a legal schedule, whichever pass has rewritten the nodes since.
PassInv ==
    /\ balance \in BOOLEAN /\ legal \in BOOLEAN
    /\ pass \in {Passes[k] : k \in DOMAIN Passes}
    /\ nodes \in NodeSeq /\ Defined(nodes)
    /\ pass \in {"producers", "consumers", "arguments"} => NoLevels(nodes)
    /\ pass \in {"levels", "balance"} => Channels(nodes) /\ Downhill(nodes)
    /\ pass \in {"legalize", "tokens", "run"} =>
         Channels(nodes) /\ (balance => Downhill(nodes) /\ NextDown(nodes))
    /\ legal => /\ pass \in {"tokens", "run"}
                /\ AllLevelled(nodes) /\ ~HasSharedExternalBuffer(nodes)

LEMMA PassesAre ==
  {Passes[k] : k \in DOMAIN Passes} =
    {"producers", "consumers", "arguments", "levels", "balance", "legalize", "tokens", "run"}
<1>1. DOMAIN Passes = 1..8
  BY DEF Passes
<1> QED BY <1>1 DEF Passes

LEMMA EarlyHasNoLevels ==
  ASSUME NEW ns, NoLevels(ns)
  PROVE  Channels(ns) /\ Downhill(ns)
BY DEF NoLevels, Channels, Downhill

\* The program does not change, so what is true of a schedule stays true of it.
LEMMA Unchanged ==
  ASSUME program' = program, NEW r, r = nodes'
  PROVE  /\ Defined(nodes)' <=> Defined(r)
         /\ NoLevels(nodes)' <=> NoLevels(r)
         /\ AllLevelled(nodes)' <=> AllLevelled(r)
         /\ Channels(nodes)' <=> Channels(r)
         /\ Downhill(nodes)' <=> Downhill(r)
         /\ NextDown(nodes)' <=> NextDown(r)
         /\ HasSharedExternalBuffer(nodes)' <=> HasSharedExternalBuffer(r)
<1>1. \A b : IsExt(b)' <=> IsExt(b)
  BY DEF IsExt
<1>2. Defined(nodes)' <=> Defined(r)
  BY DEF Defined
<1>3. NoLevels(nodes)' <=> NoLevels(r)
  BY DEF NoLevels
<1>4. AllLevelled(nodes)' <=> AllLevelled(r)
  BY DEF AllLevelled
<1>5. Channels(nodes)' <=> Channels(r)
  BY <1>1 DEF Channels, ViolatesChannel
<1>6. Downhill(nodes)' <=> Downhill(r)
  BY DEF Downhill
<1>7. NextDown(nodes)' <=> NextDown(r)
  BY <1>1 DEF NextDown, Carried
<1>8. HasSharedExternalBuffer(nodes)' <=> HasSharedExternalBuffer(r)
  BY <1>1 DEF HasSharedExternalBuffer
<1> QED BY <1>2, <1>3, <1>4, <1>5, <1>6, <1>7, <1>8

LEMMA InitPassInv ==
  ASSUME AllLowered, Init
  PROVE  PassInv
<1>1. Lowered(program) /\ Begin
  BY DEF AllLowered, Init
<1>2. nodes \in Seq([body : Seq(Statement), level : {NoLevel}]) /\ Defined(nodes)
  BY <1>1 DEF Lowered, Begin
<1>3. nodes \in NodeSeq /\ NoLevels(nodes)
  <2>1. PICK A : A = [body : Seq(Statement), level : {NoLevel}]
    OBVIOUS
  <2>2. A \subseteq NodeSet /\ \A n \in A : n.level = NoLevel
    BY <2>1 DEF NodeSet
  <2>3. nodes \in Seq(A)
    BY <1>2, <2>1
  <2>4. \A i \in DOMAIN nodes : nodes[i] \in A
    BY <2>3
  <2>5. nodes \in NodeSeq
    BY <2>2, <2>3 DEF NodeSeq
  <2> QED BY <2>2, <2>4, <2>5 DEF NoLevels
<1> QED BY <1>1, <1>2, <1>3, PassesAre DEF PassInv, Begin

\* What a step of the passes leaves.
PassStep == program' = program /\ balance' = balance

LEMMA EarlyStep ==
  ASSUME PassInv, PassStep, pass \in {"producers", "consumers", "arguments"},
         NEW r, r = nodes', Early(r), legal' = legal,
         pass' \in {"producers", "consumers", "arguments", "levels"}
  PROVE  PassInv'
<1>1. r \in NodeSeq /\ NoLevels(r) /\ Defined(r) /\ Channels(r) /\ Downhill(r)
  BY EarlyHasNoLevels DEF Early
<1>2. Defined(nodes)' /\ NoLevels(nodes)' /\ Channels(nodes)' /\ Downhill(nodes)' /\ nodes' \in NodeSeq
  BY <1>1, Unchanged DEF PassStep
<1>3. ~legal /\ legal \in BOOLEAN /\ balance \in BOOLEAN
  BY DEF PassInv
<1> QED BY <1>2, <1>3, PassesAre DEF PassInv, PassStep

LEMMA EarlyNow ==
  ASSUME PassInv, pass \in {"producers", "consumers", "arguments"}
  PROVE  Early(nodes)
BY DEF PassInv, Early

LEMMA EliminateStep ==
  ASSUME PassInv, \/ BufferMultiProducer \/ MergeMultiProducer \/ EndProducers
                  \/ (\E i \in DOMAIN nodes : InsertForkNode(i)) \/ EndConsumers \/ ForkWideArgFanOut
  PROVE  PassInv'
<1>1. CASE BufferMultiProducer
  <2>1. Early(nodes)
    BY <1>1, EarlyNow DEF BufferMultiProducer
  <2>2. nodes' = PrivateAll(nodes)
    BY <1>1 DEF BufferMultiProducer, PrivateAll
  <2>3. Early(PrivateAll(nodes))
    BY <2>1, PrivateAllKeeps
  <2> QED BY <1>1, <2>2, <2>3, EarlyStep DEF BufferMultiProducer, PassStep
<1>2. CASE MergeMultiProducer
  <2>1. Early(nodes)
    BY <1>2, EarlyNow DEF MergeMultiProducer
  <2>2. nodes' = MergeAll(nodes)
    BY <1>2 DEF MergeMultiProducer, MergeAll
  <2>3. Early(MergeAll(nodes))
    BY <2>1, MergeAllKeeps
  <2> QED BY <1>2, <2>2, <2>3, EarlyStep DEF MergeMultiProducer, PassStep
<1>3. CASE EndProducers
  <2>1. Early(nodes) /\ nodes' = nodes
    BY <1>3, EarlyNow DEF EndProducers
  <2> QED BY <1>3, <2>1, EarlyStep DEF EndProducers, PassStep
<1>4. ASSUME NEW i \in DOMAIN nodes, InsertForkNode(i) PROVE PassInv'
  <2>1. Early(nodes)
    BY <1>4, EarlyNow DEF InsertForkNode
  <2>2. nodes' = ForkNodes(nodes, i)
    BY <1>4 DEF InsertForkNode, ForkNodes
  <2>3. Early(ForkNodes(nodes, i))
    BY <2>1, ForkNodesKeep
  <2> QED BY <1>4, <2>2, <2>3, EarlyStep DEF InsertForkNode, PassStep
<1>5. CASE EndConsumers
  <2>1. Early(nodes) /\ nodes' = nodes
    BY <1>5, EarlyNow DEF EndConsumers
  <2> QED BY <1>5, <2>1, EarlyStep DEF EndConsumers, PassStep
<1>6. CASE ForkWideArgFanOut
  <2>1. Early(nodes)
    BY <1>6, EarlyNow DEF ForkWideArgFanOut
  <2>2. nodes' = ForkArgs(nodes)
    BY <1>6 DEF ForkWideArgFanOut, ForkArgs
  <2>3. Early(ForkArgs(nodes))
    BY <2>1, ForkArgsKeep
  <2> QED BY <1>6, <2>2, <2>3, EarlyStep DEF ForkWideArgFanOut, PassStep
<1> QED BY <1>1, <1>2, <1>3, <1>4, <1>5, <1>6

LEMMA LevelStep ==
  ASSUME PassInv, PassStep, pass \in {"levels", "balance"},
         NEW r, r = nodes', r \in NodeSeq, Defined(r), Channels(r), Downhill(r), legal' = legal,
         pass' \in {"levels", "balance", "legalize"},
         pass' = "legalize" => (balance => NextDown(r))
  PROVE  PassInv'
<1>1. Defined(nodes)' /\ Channels(nodes)' /\ Downhill(nodes)' /\ nodes' \in NodeSeq /\ (NextDown(nodes)' <=> NextDown(r))
  BY Unchanged DEF PassStep
<1>2. ~legal /\ legal \in BOOLEAN /\ balance \in BOOLEAN
  BY DEF PassInv
<1> QED BY <1>1, <1>2, PassesAre DEF PassInv, PassStep

LEMMA ScheduleStep ==
  ASSUME PassInv, \/ (\E i \in DOMAIN nodes : ALAPScheduleNode(i)) \/ EndLevels
                  \/ (\E i \in DOMAIN nodes : InsertCopyNode(i)) \/ EndBalance
  PROVE  PassInv'
<1>1. ASSUME pass \in {"levels", "balance"}
      PROVE  nodes \in NodeSeq /\ Defined(nodes) /\ Channels(nodes) /\ Downhill(nodes)
  BY <1>1 DEF PassInv
<1>2. ASSUME NEW i \in DOMAIN nodes, ALAPScheduleNode(i) PROVE PassInv'
  <2>1. nodes' = [nodes EXCEPT ![i].level = Above(nodes, i)]
    BY <1>2 DEF ALAPScheduleNode, Above
  <2>2. PICK r : r = nodes'
    OBVIOUS
  <2>3. Schedulable(nodes, i) /\ pass = "levels" /\ pass' = "levels" /\ legal' = legal /\ PassStep
    BY <1>2 DEF ALAPScheduleNode, PassStep
  <2>4. r \in NodeSeq /\ Defined(r) /\ Channels(r) /\ Downhill(r)
    BY <1>1, <2>1, <2>2, <2>3, LevelKeeps
  <2> QED BY <2>2, <2>3, <2>4, LevelStep
<1>3. CASE EndLevels
  <2>1. pass = "levels" /\ nodes' = nodes /\ pass' \in {"balance", "legalize"} /\ legal' = legal /\ PassStep
    BY <1>3 DEF EndLevels, PassStep
  <2>2. pass' = "legalize" => ~balance
    BY <1>3 DEF EndLevels
  <2>3. nodes \in NodeSeq /\ Defined(nodes) /\ Channels(nodes) /\ Downhill(nodes)
    BY <1>1, <2>1
  <2> QED BY <2>1, <2>2, <2>3, LevelStep
<1>4. ASSUME NEW i \in DOMAIN nodes, InsertCopyNode(i) PROVE PassInv'
  <2>1. nodes' = CopyNodes(nodes, i)
    BY <1>4 DEF InsertCopyNode, CopyNodes
  <2>2. PICK r : r = nodes'
    OBVIOUS
  <2>3. pass = "balance" /\ pass' = "balance" /\ legal' = legal /\ PassStep
    BY <1>4 DEF InsertCopyNode, PassStep
  <2>4. r \in NodeSeq /\ Defined(r) /\ Channels(r) /\ Downhill(r)
    BY <1>1, <2>1, <2>2, <2>3, CopyNodeKeeps
  <2> QED BY <2>2, <2>3, <2>4, LevelStep
<1>5. CASE EndBalance
  <2>1. pass = "balance" /\ nodes' = nodes /\ pass' = "legalize" /\ legal' = legal /\ PassStep
    BY <1>5 DEF EndBalance, PassStep
  <2>2. nodes \in NodeSeq /\ Defined(nodes) /\ Channels(nodes) /\ Downhill(nodes)
    BY <1>1, <2>1
  <2>3. NextDown(nodes)
    BY <1>5, <2>2, BalancedIs DEF EndBalance
  <2> QED BY <2>1, <2>2, <2>3, LevelStep
<1> QED BY <1>2, <1>3, <1>4, <1>5

LEMMA LegalStep ==
  ASSUME PassInv, PassStep, pass \in {"legalize", "tokens", "run"},
         NEW r, r = nodes', r \in NodeSeq, Defined(r), Channels(r), balance => Downhill(r) /\ NextDown(r),
         pass' \in {"legalize", "tokens", "run"}, legal' \in BOOLEAN,
         legal' => pass' # "legalize" /\ AllLevelled(r) /\ ~HasSharedExternalBuffer(r)
  PROVE  PassInv'
<1>1. /\ Defined(nodes)' /\ Channels(nodes)' /\ nodes' \in NodeSeq
      /\ balance => Downhill(nodes)' /\ NextDown(nodes)'
      /\ legal' => AllLevelled(nodes)' /\ ~(HasSharedExternalBuffer(nodes)')
  BY Unchanged DEF PassStep
<1>2. balance \in BOOLEAN
  BY DEF PassInv
<1> QED BY <1>1, <1>2, PassesAre DEF PassInv, PassStep

LEMMA LegalizeStep ==
  ASSUME PassInv, Legalize
  PROVE  PassInv'
<1>1. pass = "legalize" /\ ~legal /\ legal \in BOOLEAN
  BY DEF PassInv, Legalize, FuseMultiConsumer, FuseBypassPath, Mark
<1>2. nodes \in NodeSeq /\ Defined(nodes) /\ Channels(nodes) /\ (balance => Downhill(nodes) /\ NextDown(nodes))
  BY <1>1 DEF PassInv
<1>3. CASE FuseMultiConsumer
  <2>1. PICK groups : groups = MultiConsumerGroups(nodes)
    OBVIOUS
  <2>2. PICK level : level = [g \in groups |-> nodes[Min(g)].level]
    OBVIOUS
  <2>3. PICK r : r = FuseGroups(nodes, groups, level)
    OBVIOUS
  <2>4. nodes' = r /\ groups # {} /\ pass' = "legalize" /\ legal' = legal /\ PassStep
    BY <1>3, <2>1, <2>2, <2>3 DEF FuseMultiConsumer, PassStep
  <2>5. AllLevelled(nodes)
    BY <2>1, <2>4 DEF MultiConsumerGroups
  <2>6. Groups(nodes, groups) /\ level \in [groups -> Nat] /\ SameLevel(nodes, groups, level)
    BY <1>2, <2>1, <2>2, <2>5, MultiConsumerIs
  <2>7. r \in NodeSeq /\ Kept(nodes, groups, level, r)
    BY <1>2, <2>3, <2>5, <2>6, FuseGroupsKeep
  <2>8. Defined(r) /\ Channels(r) /\ (balance => Downhill(r) /\ NextDown(r))
    BY <1>2, <2>6, <2>7 DEF Kept
  <2> QED BY <1>1, <2>4, <2>7, <2>8, LegalStep
<1>4. CASE FuseBypassPath
  <2>1. PICK groups \in {BypassGroups(nodes)} \ {{}} : \E level \in [groups -> Levels(nodes)] :
          nodes' = FuseGroups(nodes, groups, level)
    BY <1>4 DEF FuseBypassPath
  <2>2. PICK level \in [groups -> Levels(nodes)] : nodes' = FuseGroups(nodes, groups, level)
    BY <2>1
  <2>3. PICK r : r = FuseGroups(nodes, groups, level)
    OBVIOUS
  <2>4. nodes' = r /\ groups # {} /\ groups = BypassGroups(nodes) /\ pass' = "legalize" /\ legal' = legal /\ PassStep
    BY <1>1, <1>4, <2>1, <2>2, <2>3 DEF FuseBypassPath, PassStep
  <2>5. AllLevelled(nodes)
    BY <2>4 DEF BypassGroups
  <2>6. Levels(nodes) \subseteq Nat
    BY <1>2, <2>5, ScheduleIs, NodeIs DEF Levels, AllLevelled
  <2>7. Groups(nodes, groups) /\ level \in [groups -> Nat]
    BY <1>2, <2>4, <2>6, BypassIs
  <2>8. r \in NodeSeq /\ Kept(nodes, groups, level, r)
    BY <1>2, <2>3, <2>5, <2>7, FuseGroupsKeep
  <2>9. ~balance
    BY <1>2, <2>4, NoBypass
  <2>10. Defined(r) /\ Channels(r)
    BY <2>8 DEF Kept
  <2> QED BY <1>1, <2>4, <2>8, <2>9, <2>10, LegalStep
<1>5. CASE Mark
  <2>1. nodes' = nodes /\ pass' = "tokens" /\ PassStep
    BY <1>5 DEF Mark, PassStep
  <2>2. legal' \in BOOLEAN /\ (legal' => AllLevelled(nodes) /\ ~HasSharedExternalBuffer(nodes))
    BY <1>5 DEF Mark
  <2> QED BY <1>1, <1>2, <2>1, <2>2, LegalStep
<1> QED BY <1>3, <1>4, <1>5 DEF Legalize

LEMMA RunStep ==
  ASSUME PassInv, CreateTokenStream \/ (\E i \in DOMAIN nodes : Run(i)) \/ UNCHANGED vars
  PROVE  PassInv'
<1>1. CASE CreateTokenStream \/ (\E i \in DOMAIN nodes : Run(i))
  <2>1. pass \in {"tokens", "run"} /\ nodes' = nodes /\ pass' = "run" /\ legal' = legal /\ PassStep
    BY <1>1 DEF CreateTokenStream, Run, PassStep
  <2>2. /\ nodes \in NodeSeq /\ Defined(nodes) /\ Channels(nodes) /\ (balance => Downhill(nodes) /\ NextDown(nodes))
        /\ legal \in BOOLEAN /\ (legal => AllLevelled(nodes) /\ ~HasSharedExternalBuffer(nodes))
    BY <2>1 DEF PassInv
  <2> QED BY <2>1, <2>2, LegalStep
<1>2. CASE UNCHANGED vars
  <2>1. PICK r : r = nodes'
    OBVIOUS
  <2>2. r = nodes /\ program' = program /\ balance' = balance /\ pass' = pass /\ legal' = legal
    BY <1>2, <2>1 DEF vars
  <2> QED BY <2>1, <2>2, Unchanged DEF PassInv
<1> QED BY <1>1, <1>2

\* The invariant holds for every set of programs the lowering can leave, whatever
\* the buffers, the arguments and the number of nodes.
THEOREM PassesKeepInv ==
  AllLowered => (Spec => []PassInv)
<1>1. AllLowered /\ Init => PassInv
  BY InitPassInv
<1>2. PassInv /\ [Next]_vars => PassInv'
  <2> SUFFICES ASSUME PassInv, [Next]_vars PROVE PassInv'
    OBVIOUS
  <2> QED BY EliminateStep, ScheduleStep, LegalizeStep, RunStep DEF Next
<1> QED BY <1>1, <1>2, PTL DEF Spec

\* NodeOp::verify of a legal schedule: whatever the passes fused, split or
\* copied, every node has a level, an on-chip buffer one producer and at most one
\* consumer, and a balanced schedule leads from a level to the next.
THEOREM LegalSchedulesAreSimple ==
  AllLowered => (Spec => []LegalIsSimple)
<1>1. PassInv => LegalIsSimple
  <2> SUFFICES ASSUME PassInv, legal PROVE LegalIsSimple
    BY DEF LegalIsSimple
  <2>1. AllLevelled(nodes) /\ Channels(nodes) /\ (balance => Downhill(nodes) /\ NextDown(nodes))
    BY DEF PassInv
  <2>2. \A i \in DOMAIN nodes : nodes[i].level # NoLevel
    BY <2>1 DEF AllLevelled
  <2>3. \A i \in DOMAIN nodes : \A b \in Outs(nodes[i]) : ~ViolatesChannel(nodes, b, i)
    BY <2>1, <2>2 DEF Channels
  <2>4. ASSUME balance, NEW i \in DOMAIN nodes, NEW b \in Outs(nodes[i]), NEW j \in DependentConsumers(nodes, b, i)
        PROVE  IF Carried(b) THEN nodes[i].level = nodes[j].level + 1 ELSE nodes[i].level > nodes[j].level
    BY <2>1, <2>2, <2>4 DEF Downhill, NextDown
  <2> QED BY <2>1, <2>3, <2>4 DEF LegalIsSimple
<1> QED BY <1>1, PassesKeepInv, PTL

-----------------------------------------------------------------------------
(***************************************************************************)
(* The processes of a legal schedule.                                      *)
(***************************************************************************)

\* Every buffer has one writer.
Sole(ns) == \A b \in Buffers(ns) : \A i \in Producers(ns, b) : \A j \in Producers(ns, b) : i = j

LEMMA LegalIsSole ==
  ASSUME PassInv, legal
  PROVE  Sole(nodes)
<1>1. nodes \in NodeSeq /\ AllLevelled(nodes) /\ ~HasSharedExternalBuffer(nodes) /\ Channels(nodes)
  BY PassesAre DEF PassInv
<1> SUFFICES ASSUME NEW b \in Buffers(nodes), NEW i \in Producers(nodes, b), NEW j \in Producers(nodes, b)
             PROVE  i = j
  BY DEF Sole
<1>2. CASE IsArg(b) \/ IsExt(b)
  <2>1. ~(Cardinality(Producers(nodes, b)) > 1)
    BY <1>1, <1>2 DEF HasSharedExternalBuffer
  <2>2. IsFiniteSet(Producers(nodes, b))
    BY <1>1, Positions
  <2> QED BY <2>1, <2>2, AtMostOne
<1>3. CASE ~IsExt(b)
  <2>1. i \in DOMAIN nodes /\ b \in Outs(nodes[i])
    BY DEF Producers
  <2>2. nodes[i].level # NoLevel
    BY <1>1, <2>1 DEF AllLevelled
  <2>3. ~ViolatesChannel(nodes, b, i)
    BY <1>1, <2>1, <2>2 DEF Channels
  <2>4. Single(nodes, b, i)
    BY <1>1, <2>3, SingleIs
  <2> QED BY <1>3, <2>4 DEF Single
<1> QED BY <1>2, <1>3

\* What node i has written is what it would have written in order by now.
Holds(ns, end, F, p, M) ==
  \A b \in Buffers(ns) :
    /\ \A i \in Producers(ns, b) : \A m \in Nat : m = end[i - 1] + p[i] => M[b] = F[m][b]
    /\ Producers(ns, b) = {} => M[b] = F[0][b]

LEMMA PlacesAre ==
  ASSUME NEW ns \in NodeSeq, NEW end, NEW F, Sequential(ns, end, F), NEW i \in DOMAIN ns
  PROVE  /\ i \in Nat /\ i - 1 \in 0..Len(ns) /\ i \in 0..Len(ns) /\ Len(ns) \in Nat
         /\ end[i - 1] \in Nat /\ end[i] \in Nat /\ end[Len(ns)] \in Nat
         /\ Len(ns[i].body) \in Nat /\ end[i] = end[i - 1] + Len(ns[i].body)
         /\ end[i - 1] <= end[i] /\ end[i] <= end[Len(ns)]
         /\ \A j \in DOMAIN ns : j < i => end[j] <= end[i - 1]
<1>1. Len(ns) \in Nat /\ DOMAIN ns = 1..Len(ns) /\ ns[i] \in NodeSet
  BY ScheduleIs
<1>2. i \in Nat /\ i - 1 \in 0..Len(ns) /\ i \in 0..Len(ns) /\ Len(ns) \in 0..Len(ns)
  BY <1>1
<1>3. end \in [0..Len(ns) -> Nat] /\ end[i] = end[i - 1] + Len(ns[i].body)
  BY DEF Sequential
<1>4. end[i - 1] \in Nat /\ end[i] \in Nat /\ end[Len(ns)] \in Nat
  BY <1>2, <1>3
<1>5. Len(ns[i].body) \in Nat
  BY <1>1, NodeIs
<1>6. \A j, k \in 0..Len(ns) : j <= k => end[j] <= end[k]
  BY EndsIncrease
<1>7. end[i - 1] <= end[i] /\ end[i] <= end[Len(ns)]
  BY <1>1, <1>2, <1>6
<1>8. \A j \in DOMAIN ns : j < i => end[j] <= end[i - 1]
  BY <1>1, <1>2, <1>6
<1> QED BY <1>1, <1>2, <1>3, <1>4, <1>5, <1>7, <1>8

LEMMA HoldsStart ==
  ASSUME NEW ns \in NodeSeq, Sole(ns), NEW end, NEW F, Sequential(ns, end, F), NEW p, p = [i \in DOMAIN ns |-> 0]
  PROVE  Holds(ns, end, F, p, Start(ns))
<1>1. F[0] = Start(ns)
  BY DEF Sequential
<1>2. ASSUME NEW b \in Buffers(ns), NEW i \in Producers(ns, b), NEW m \in Nat, m = end[i - 1] + p[i]
      PROVE  F[0][b] = F[m][b]
  <2>1. i \in DOMAIN ns
    BY DEF Producers
  <2>2. m = end[i - 1] /\ end[i - 1] \in Nat /\ m \in 0..end[Len(ns)] /\ 0 \in 0..m
    BY <1>2, <2>1, PlacesAre
  <2>3. \A j \in Producers(ns, b) : end[j] <= 0 \/ m <= end[j - 1]
    BY <2>2 DEF Sole
  <2> QED BY <2>2, <2>3, Frame
<1> QED BY <1>1, <1>2 DEF Holds

\* Node i executes its next statement.
Turn(ns, p, M, i, s, q) ==
  /\ p \in [DOMAIN ns -> Nat] /\ p[i] < Len(ns[i].body) /\ DOMAIN M = Buffers(ns)
  /\ s = ns[i].body[p[i] + 1] /\ q = [p EXCEPT ![i] = p[i] + 1]

\* The nodes that write what node i reads have ended; those before it have.
Fed(ns, p, i) == \A x \in Ins(ns[i]) : ~IsArg(x) => \A j \in Producers(ns, x) : p[j] = Len(ns[j].body)
Called(ns, p, i) == \A j \in 1..(i - 1) : p[j] = Len(ns[j].body)

LEMMA HoldsStep ==
  ASSUME NEW ns \in NodeSeq, Defined(ns), Sole(ns), NEW end, NEW F, Sequential(ns, end, F),
         NEW p, NEW M, Holds(ns, end, F, p, M), NEW i \in DOMAIN ns, Fed(ns, p, i),
         NEW s, NEW q, Turn(ns, p, M, i, s, q)
  PROVE  DOMAIN Effect(M, s) = Buffers(ns) /\ Holds(ns, end, F, q, Effect(M, s))
<1>0. /\ p \in [DOMAIN ns -> Nat] /\ p[i] < Len(ns[i].body) /\ DOMAIN M = Buffers(ns)
      /\ s = ns[i].body[p[i] + 1] /\ q = [p EXCEPT ![i] = p[i] + 1]
  BY DEF Turn
<1> USE <1>0
<1>1. PICK m : m = end[i - 1] + p[i]
  OBVIOUS
<1>2. PICK k : k = p[i] + 1
  OBVIOUS
<1>3. /\ i \in Nat /\ end[i - 1] \in Nat /\ end[i] \in Nat /\ end[Len(ns)] \in Nat /\ Len(ns[i].body) \in Nat
      /\ end[i] = end[i - 1] + Len(ns[i].body) /\ end[i] <= end[Len(ns)]
      /\ \A j \in DOMAIN ns : j < i => end[j] <= end[i - 1]
  BY PlacesAre
<1>4. p[i] \in Nat /\ k \in 1..Len(ns[i].body) /\ m \in Nat /\ m < end[i] /\ end[i - 1] <= m /\ m + 1 = end[i - 1] + k
  <2>1. p[i] \in Nat
    OBVIOUS
  <2>2. p[i] < Len(ns[i].body)
    OBVIOUS
  <2>3. k \in 1..Len(ns[i].body)
    BY <1>2, <1>3, <2>1, <2>2
  <2>4. m \in Nat /\ m < end[i] /\ end[i - 1] <= m /\ m + 1 = end[i - 1] + k
    <3>1. PICK u, v, w, x : u = end[i - 1] /\ v = end[i] /\ w = p[i] /\ x = Len(ns[i].body)
      OBVIOUS
    <3>2. u \in Nat /\ v \in Nat /\ w \in Nat /\ x \in Nat /\ w < x /\ v = u + x /\ m = u + w
      BY <1>1, <1>3, <2>1, <2>2, <3>1
    <3>3. m \in Nat /\ m < v /\ u <= m /\ m + 1 = u + (w + 1)
      BY <3>2
    <3>4. k = w + 1
      BY <1>2, <3>1
    <3> QED BY <3>1, <3>3, <3>4
  <2> QED BY <2>1, <2>3, <2>4
<1>5. m \in 0..end[Len(ns)] /\ m + 1 \in 0..end[Len(ns)] /\ m \in 0..(m + 1) /\ m + 1 \in Nat
  BY <1>3, <1>4
<1>6. s \in Statement /\ s.to \in Outs(ns[i]) /\ s.to \in Buffers(ns) /\ Used1(s) \subseteq Outs(ns[i]) \cup Ins(ns[i])
  BY <1>2, <1>4, StatementIs
<1>7. F[m + 1] = Effect(F[m], s)
  <2>1. PICK l : l = m + 1
    OBVIOUS
  <2>2. l \in Nat /\ l = end[i - 1] + k /\ l - 1 = m
    BY <1>4, <2>1
  <2>3. F[l] = Effect(F[l - 1], ns[i].body[k])
    BY <1>4, <2>2 DEF Sequential
  <2>4. s = ns[i].body[k]
    BY <1>2
  <2> QED BY <2>1, <2>2, <2>3, <2>4
<1>8. DOMAIN F[m] = Buffers(ns)
  BY <1>5, MemoryIs
<1>9. Outs(ns[i]) \cup Ins(ns[i]) \subseteq Buffers(ns)
  BY DEF Buffers
<1>10. ASSUME NEW x \in Outs(ns[i]) PROVE M[x] = F[m][x]
  <2>1. x \in Buffers(ns) /\ i \in Producers(ns, x)
    BY <1>9 DEF Producers
  <2> QED BY <1>1, <1>4, <2>1 DEF Holds
<1>11. ASSUME NEW x \in Ins(ns[i]) PROVE M[x] = F[m][x]
  <2>1. x \in Buffers(ns)
    BY <1>9
  <2>2. CASE Producers(ns, x) = {}
    <3>1. M[x] = F[0][x]
      BY <2>1, <2>2 DEF Holds
    <3>2. 0 \in 0..m
      BY <1>4
    <3>3. F[m][x] = F[0][x]
      BY <1>5, <2>1, <2>2, <3>2, Frame
    <3> QED BY <3>1, <3>3
  <2>3. CASE Producers(ns, x) # {}
    <3>1. ~IsArg(x) /\ \E j \in Producers(ns, x) : j < i
      BY <2>3 DEF Defined
    <3>2. PICK j \in Producers(ns, x) : j < i
      BY <3>1
    <3>3. j \in DOMAIN ns /\ p[j] = Len(ns[j].body)
      BY <3>1 DEF Producers, Fed
    <3>4. PICK l : l = end[j]
      OBVIOUS
    <3>5. l \in Nat /\ l = end[j - 1] + p[j]
      BY <3>3, <3>4, PlacesAre
    <3>6. M[x] = F[l][x]
      BY <2>1, <3>5 DEF Holds
    <3>7. l \in 0..m
      <4>1. end[j] <= end[i - 1]
        BY <1>3, <3>2, <3>3
      <4>2. l <= end[i - 1]
        BY <3>4, <4>1
      <4> QED BY <1>3, <1>4, <3>5, <4>2
    <3>8. \A a \in Producers(ns, x) : end[a] <= l \/ m <= end[a - 1]
      <4>1. \A a \in Producers(ns, x) : a = j
        BY <2>1 DEF Sole
      <4>2. end[j] <= l
        BY <3>4, <3>5
      <4> QED BY <4>1, <4>2
    <3>9. F[m][x] = F[l][x]
      BY <1>5, <2>1, <3>7, <3>8, Frame
    <3> QED BY <3>6, <3>9
  <2> QED BY <2>2, <2>3
<1>12. \A x \in Used1(s) : F[m][x] = M[x]
  BY <1>6, <1>10, <1>11
<1>13. /\ DOMAIN Effect(M, s) = Buffers(ns)
       /\ \A x \in Buffers(ns) : x # s.to => Effect(M, s)[x] = M[x] /\ Effect(F[m], s)[x] = F[m][x]
       /\ Effect(F[m], s)[s.to] = Effect(M, s)[s.to]
  <2>1. DOMAIN Effect(M, s) = DOMAIN M /\ \A x \in DOMAIN M : x # s.to => Effect(M, s)[x] = M[x]
    BY <1>6, EffectIs
  <2>2. \A x \in DOMAIN F[m] : x # s.to => Effect(F[m], s)[x] = F[m][x]
    BY <1>6, <1>8, EffectIs
  <2>3. Effect(F[m], s)[s.to] = Effect(M, s)[s.to]
    <3>1. PICK f : f = F[m]
      OBVIOUS
    <3>2. DOMAIN f = DOMAIN M /\ \A x \in Used1(s) : f[x] = M[x]
      BY <1>8, <1>12, <3>1
    <3>3. \A g : DOMAIN g = DOMAIN M /\ (\A x \in Used1(s) : g[x] = M[x]) => Effect(g, s)[s.to] = Effect(M, s)[s.to]
      BY <1>6, EffectIs
    <3>4. Effect(f, s)[s.to] = Effect(M, s)[s.to]
      BY <3>2, <3>3
    <3> QED BY <3>1, <3>4
  <2> QED BY <1>8, <2>1, <2>2, <2>3
<1>14. ASSUME NEW b \in Buffers(ns), NEW j \in Producers(ns, b), NEW l \in Nat, l = end[j - 1] + q[j]
       PROVE  Effect(M, s)[b] = F[l][b]
  <2>1. j \in DOMAIN ns /\ b \in Outs(ns[j])
    BY DEF Producers
  <2>2. CASE j = i
    <3>1. q[j] = k
      BY <1>2, <2>1, <2>2
    <3>2. l = m + 1
      BY <1>4, <1>14, <2>2, <3>1
    <3>3. CASE b = s.to
      BY <1>7, <1>13, <3>2, <3>3
    <3>4. CASE b # s.to
      <4>1. M[b] = F[m][b]
        BY <1>10, <2>1, <2>2
      <4> QED BY <1>7, <1>13, <3>2, <3>4, <4>1
    <3> QED BY <3>3, <3>4
  <2>3. CASE j # i
    <3>1. q[j] = p[j]
      BY <2>1, <2>3
    <3>2. M[b] = F[l][b]
      BY <1>14, <3>1 DEF Holds
    <3>3. b # s.to
      <4>1. SUFFICES ASSUME b = s.to PROVE FALSE
        OBVIOUS
      <4>2. i \in Producers(ns, b)
        BY <1>6, <4>1 DEF Producers
      <4> QED BY <2>3, <4>2 DEF Sole
    <3> QED BY <1>13, <3>2, <3>3
  <2> QED BY <2>2, <2>3
<1>15. ASSUME NEW b \in Buffers(ns), Producers(ns, b) = {} PROVE Effect(M, s)[b] = F[0][b]
  <2>1. b # s.to
    BY <1>6, <1>15 DEF Producers
  <2>2. M[b] = F[0][b]
    BY <1>15 DEF Holds
  <2> QED BY <1>13, <2>1, <2>2
<1>16. Holds(ns, end, F, q, Effect(M, s))
  BY <1>14, <1>15 DEF Holds
<1> QED BY <1>13, <1>16

LEMMA HoldsEnd ==
  ASSUME NEW ns \in NodeSeq, Sole(ns), NEW end, NEW F, Sequential(ns, end, F), NEW p, NEW M,
         Holds(ns, end, F, p, M), \A i \in DOMAIN ns : p[i] = Len(ns[i].body)
  PROVE  \A b \in Buffers(ns) : M[b] = InOrder(ns)[b]
<1> SUFFICES ASSUME NEW b \in Buffers(ns) PROVE M[b] = InOrder(ns)[b]
  OBVIOUS
<1>1. PICK m : m = end[Len(ns)]
  OBVIOUS
<1>2. F[m] = InOrder(ns) /\ m \in Nat /\ m \in 0..end[Len(ns)]
  BY <1>1, ScheduleIs DEF Sequential
<1>3. CASE Producers(ns, b) = {}
  <2>1. M[b] = F[0][b]
    BY <1>3 DEF Holds
  <2>2. 0 \in 0..m
    BY <1>2
  <2>3. F[m][b] = F[0][b]
    BY <1>2, <1>3, <2>2, Frame
  <2> QED BY <1>2, <2>1, <2>3
<1>4. ASSUME NEW i \in Producers(ns, b) PROVE M[b] = InOrder(ns)[b]
  <2>1. i \in DOMAIN ns
    BY DEF Producers
  <2>2. PICK l : l = end[i]
    OBVIOUS
  <2>3. l \in Nat /\ l = end[i - 1] + p[i] /\ l <= m
    BY <1>1, <2>1, <2>2, PlacesAre
  <2>4. M[b] = F[l][b]
    BY <2>3 DEF Holds
  <2>5. l \in 0..m
    BY <1>2, <2>3
  <2>6. \A a \in Producers(ns, b) : end[a] <= l \/ m <= end[a - 1]
    <3>1. \A a \in Producers(ns, b) : a = i
      BY DEF Sole
    <3>2. end[i] <= l
      BY <2>2, <2>3
    <3> QED BY <3>1, <3>2
  <2>7. F[m][b] = F[l][b]
    BY <1>2, <2>5, <2>6, Frame
  <2> QED BY <1>2, <2>4, <2>7
<1> QED BY <1>3, <1>4

-----------------------------------------------------------------------------
(***************************************************************************)
(* The calls of any other schedule.                                        *)
(***************************************************************************)

\* How many of the statements from lo on, up to hi, the first m are.
Ran(lo, hi, m) == IF m <= lo THEN 0 ELSE IF m >= hi THEN hi - lo ELSE m - lo

LEMMA RanInside ==
  ASSUME NEW lo \in Nat, NEW hi \in Nat, NEW m \in Nat, lo <= m, m < hi
  PROVE  Ran(lo, hi, m) = m - lo
BY DEF Ran

LEMMA RanDone ==
  ASSUME NEW lo \in Nat, NEW hi \in Nat, NEW m \in Nat, lo <= hi, hi <= m
  PROVE  Ran(lo, hi, m) = hi - lo
BY DEF Ran

LEMMA RanBefore ==
  ASSUME NEW lo \in Nat, NEW hi \in Nat, NEW m \in Nat, m <= lo
  PROVE  Ran(lo, hi, m) = 0
BY DEF Ran

\* The nodes have run in order, and m statements by now.
After(ns, end, F, p, M, m) ==
  /\ m \in 0..end[Len(ns)]
  /\ \A b \in Buffers(ns) : M[b] = F[m][b]
  /\ \A i \in DOMAIN ns : p[i] = Ran(end[i - 1], end[i], m)

\* Before the end of node l the step is in one of the nodes up to it.
LEMMA Within ==
  ASSUME NEW ns \in NodeSeq, NEW end, NEW F, Sequential(ns, end, F),
         NEW m \in Nat, NEW l \in 0..Len(ns), m < end[l]
  PROVE  \E j \in 1..l : end[j - 1] <= m /\ m < end[j]
<1> DEFINE T == {n \in 0..l : m < end[n]}
<1>1. Len(ns) \in Nat /\ l \in Nat /\ l <= Len(ns) /\ end \in [0..Len(ns) -> Nat] /\ end[0] = 0
  BY ScheduleIs DEF Sequential
<1>2. T \in SUBSET Nat /\ T # {}
  BY <1>1
<1>3. PICK j \in T : \A n \in T : j <= n
  BY <1>2, LeastElement
<1>4. j \in 1..l /\ m < end[j]
  BY <1>1, <1>3
<1>5. j - 1 \in 0..l /\ j - 1 \notin T
  BY <1>1, <1>3, <1>4
<1>6. end[j - 1] \in Nat
  BY <1>1, <1>5
<1>7. end[j - 1] <= m
  BY <1>5, <1>6
<1> QED BY <1>4, <1>7

LEMMA AfterStart ==
  ASSUME NEW ns \in NodeSeq, NEW end, NEW F, Sequential(ns, end, F), NEW p, p = [i \in DOMAIN ns |-> 0]
  PROVE  After(ns, end, F, p, Start(ns), 0)
<1>1. F[0] = Start(ns)
  BY DEF Sequential
<1>2. 0 \in 0..end[Len(ns)]
  BY ScheduleIs DEF Sequential
<1>3. ASSUME NEW i \in DOMAIN ns PROVE p[i] = Ran(end[i - 1], end[i], 0)
  <2>1. end[i - 1] \in Nat
    BY PlacesAre
  <2> QED BY <2>1 DEF Ran
<1> QED BY <1>1, <1>2, <1>3 DEF After

LEMMA AfterStep ==
  ASSUME NEW ns \in NodeSeq, NEW end, NEW F, Sequential(ns, end, F),
         NEW p, NEW M, NEW m, After(ns, end, F, p, M, m), NEW i \in DOMAIN ns, Called(ns, p, i),
         NEW s, NEW q, Turn(ns, p, M, i, s, q)
  PROVE  DOMAIN Effect(M, s) = Buffers(ns) /\ After(ns, end, F, q, Effect(M, s), m + 1)
<1>0. /\ p \in [DOMAIN ns -> Nat] /\ p[i] < Len(ns[i].body) /\ DOMAIN M = Buffers(ns)
      /\ s = ns[i].body[p[i] + 1] /\ q = [p EXCEPT ![i] = p[i] + 1]
  BY DEF Turn
<1> USE <1>0
<1>1. /\ i \in Nat /\ i - 1 \in 0..Len(ns) /\ Len(ns) \in Nat
      /\ end[i - 1] \in Nat /\ end[i] \in Nat /\ end[Len(ns)] \in Nat /\ Len(ns[i].body) \in Nat
      /\ end[i] = end[i - 1] + Len(ns[i].body) /\ end[i - 1] <= end[i] /\ end[i] <= end[Len(ns)]
  BY PlacesAre
<1>2. m \in Nat /\ m \in 0..end[Len(ns)]
  BY <1>1 DEF After
<1>3. \A j \in DOMAIN ns : p[j] = Ran(end[j - 1], end[j], m)
  BY DEF After
<1>4. m < end[i]
  <2>1. SUFFICES ASSUME end[i] <= m PROVE FALSE
    BY <1>1, <1>2
  <2>2. Ran(end[i - 1], end[i], m) = end[i] - end[i - 1]
    BY <1>1, <1>2, <2>1, RanDone
  <2>3. p[i] = Len(ns[i].body)
    BY <1>1, <1>3, <2>2
  <2>4. p[i] < Len(ns[i].body)
    OBVIOUS
  <2> QED BY <1>1, <2>3, <2>4
<1>5. end[i - 1] <= m
  <2>1. SUFFICES ASSUME m < end[i - 1] PROVE FALSE
    BY <1>1, <1>2
  <2>2. \E j \in 1..(i - 1) : end[j - 1] <= m /\ m < end[j]
    BY <1>1, <1>2, <2>1, Within
  <2>3. PICK j \in 1..(i - 1) : end[j - 1] <= m /\ m < end[j]
    BY <2>2
  <2>4. j \in DOMAIN ns
    <3>1. DOMAIN ns = 1..Len(ns)
      BY ScheduleIs
    <3>2. i \in 1..Len(ns)
      BY <3>1
    <3> QED BY <1>1, <2>3, <3>1, <3>2
  <2>5. end[j - 1] \in Nat /\ end[j] \in Nat /\ end[j - 1] <= end[j] /\ end[j] = end[j - 1] + Len(ns[j].body)
        /\ Len(ns[j].body) \in Nat
    BY <2>4, PlacesAre
  <2>6. Ran(end[j - 1], end[j], m) = m - end[j - 1]
    BY <1>2, <2>3, <2>5, RanInside
  <2>7. p[j] = m - end[j - 1] /\ p[j] = Len(ns[j].body)
    BY <1>3, <2>3, <2>4, <2>6 DEF Called
  <2> QED BY <1>2, <2>3, <2>5, <2>7
<1>6. p[i] = m - end[i - 1]
  <2>1. Ran(end[i - 1], end[i], m) = m - end[i - 1]
    BY <1>1, <1>2, <1>4, <1>5, RanInside
  <2> QED BY <1>3, <2>1
<1>7. PICK k : k = p[i] + 1
  OBVIOUS
<1>8. PICK l : l = m + 1
  OBVIOUS
<1>9. k \in 1..Len(ns[i].body) /\ l \in Nat /\ l = end[i - 1] + k /\ l - 1 = m /\ l \in 0..end[Len(ns)]
  <2>1. p[i] \in Nat /\ p[i] < Len(ns[i].body)
    OBVIOUS
  <2>2. k \in 1..Len(ns[i].body)
    BY <1>1, <1>7, <2>1
  <2>3. l \in Nat /\ l - 1 = m
    BY <1>2, <1>8
  <2>4. l = end[i - 1] + k
    BY <1>1, <1>2, <1>6, <1>7, <1>8
  <2>5. l \in 0..end[Len(ns)]
    BY <1>1, <1>2, <1>4, <1>8
  <2> QED BY <2>2, <2>3, <2>4, <2>5
<1>10. s \in Statement /\ s.to \in Buffers(ns) /\ Used1(s) \subseteq Buffers(ns)
  <2>1. s \in Statement /\ s.to \in Buffers(ns) /\ Used1(s) \subseteq Outs(ns[i]) \cup Ins(ns[i])
    BY <1>7, <1>9, StatementIs
  <2> QED BY <2>1 DEF Buffers
<1>11. F[l] = Effect(F[m], s)
  <2>1. F[l] = Effect(F[l - 1], ns[i].body[k])
    BY <1>9 DEF Sequential
  <2> QED BY <1>7, <1>9, <2>1
<1>12. PICK f : f = F[m]
  OBVIOUS
<1>13. DOMAIN f = Buffers(ns) /\ \A b \in Buffers(ns) : f[b] = M[b]
  BY <1>2, <1>12, MemoryIs DEF After
<1>14. DOMAIN Effect(M, s) = Buffers(ns) /\ \A b \in Buffers(ns) : Effect(M, s)[b] = F[l][b]
  <2>1. DOMAIN Effect(M, s) = DOMAIN M /\ \A x \in DOMAIN M : x # s.to => Effect(M, s)[x] = M[x]
    BY <1>10, EffectIs
  <2>2. \A x \in DOMAIN f : x # s.to => Effect(f, s)[x] = f[x]
    BY <1>10, <1>13, EffectIs
  <2>3. \A g : DOMAIN g = DOMAIN M /\ (\A x \in Used1(s) : g[x] = M[x]) => Effect(g, s)[s.to] = Effect(M, s)[s.to]
    BY <1>10, EffectIs
  <2>4. Effect(f, s)[s.to] = Effect(M, s)[s.to]
    BY <1>10, <1>13, <2>3
  <2>5. F[l] = Effect(f, s)
    BY <1>11, <1>12
  <2> QED BY <1>13, <2>1, <2>2, <2>4, <2>5
<1>15. ASSUME NEW j \in DOMAIN ns PROVE q[j] = Ran(end[j - 1], end[j], l)
  <2>1. /\ j \in Nat /\ end[j - 1] \in Nat /\ end[j] \in Nat /\ end[j - 1] <= end[j]
        /\ \A a \in DOMAIN ns : a < j => end[a] <= end[j - 1]
    BY PlacesAre
  <2>2. CASE j = i
    <3>1. q[j] = l - end[i - 1]
      <4>1. q[j] = p[i] + 1
        BY <2>2
      <4>2. PICK u, w : u = end[i - 1] /\ w = p[i]
        OBVIOUS
      <4>3. u \in Nat /\ w = m - u /\ l = m + 1 /\ m \in Nat
        BY <1>1, <1>2, <1>6, <1>8, <4>2
      <4>4. w + 1 = l - u
        BY <4>3
      <4> QED BY <4>1, <4>2, <4>4
    <3>2. end[i - 1] <= l /\ l <= end[i]
      BY <1>1, <1>2, <1>4, <1>5, <1>8
    <3>3. CASE l < end[i]
      BY <1>1, <1>9, <2>2, <3>1, <3>2, <3>3, RanInside
    <3>4. CASE l = end[i]
      <4>1. end[i] <= l
        BY <1>1, <3>4
      <4>2. Ran(end[i - 1], end[i], l) = end[i] - end[i - 1]
        BY <1>1, <1>9, <4>1, RanDone
      <4> QED BY <2>2, <3>1, <3>4, <4>2
    <3> QED BY <1>1, <1>9, <3>2, <3>3, <3>4
  <2>3. CASE j # i
    <3>1. q[j] = Ran(end[j - 1], end[j], m)
      BY <1>3, <2>3
    <3>2. CASE j < i
      <4>1. end[j] <= end[i - 1]
        BY <3>2, PlacesAre
      <4>2. end[j] <= m /\ end[j] <= l
        <5>1. PICK u, w : u = end[i - 1] /\ w = end[j]
          OBVIOUS
        <5>2. u \in Nat /\ w \in Nat /\ w <= u /\ u <= m
          BY <1>1, <1>5, <2>1, <4>1, <5>1
        <5>3. w <= m /\ w <= l
          BY <1>2, <1>8, <5>2
        <5> QED BY <5>1, <5>3
      <4>3. Ran(end[j - 1], end[j], m) = end[j] - end[j - 1]
        BY <1>2, <2>1, <4>2, RanDone
      <4>4. Ran(end[j - 1], end[j], l) = end[j] - end[j - 1]
        BY <1>9, <2>1, <4>2, RanDone
      <4> QED BY <3>1, <4>3, <4>4
    <3>3. CASE i < j
      <4>1. end[i] <= end[j - 1]
        BY <2>1, <3>3
      <4>2. m <= end[j - 1] /\ l <= end[j - 1]
        <5>1. PICK u, w : u = end[i] /\ w = end[j - 1]
          OBVIOUS
        <5>2. u \in Nat /\ w \in Nat /\ u <= w /\ m < u
          BY <1>1, <1>4, <2>1, <4>1, <5>1
        <5>3. m <= w /\ l <= w
          BY <1>2, <1>8, <5>2
        <5> QED BY <5>1, <5>3
      <4>3. Ran(end[j - 1], end[j], m) = 0
        BY <1>2, <2>1, <4>2, RanBefore
      <4>4. Ran(end[j - 1], end[j], l) = 0
        BY <1>9, <2>1, <4>2, RanBefore
      <4> QED BY <3>1, <4>3, <4>4
    <3> QED BY <1>1, <2>1, <2>3, <3>2, <3>3
  <2> QED BY <2>2, <2>3
<1>16. After(ns, end, F, q, Effect(M, s), l)
  BY <1>9, <1>14, <1>15 DEF After
<1> QED BY <1>8, <1>14, <1>16

LEMMA AfterEnd ==
  ASSUME NEW ns \in NodeSeq, NEW end, NEW F, Sequential(ns, end, F), NEW p, NEW M, NEW m,
         After(ns, end, F, p, M, m), \A i \in DOMAIN ns : p[i] = Len(ns[i].body)
  PROVE  \A b \in Buffers(ns) : M[b] = InOrder(ns)[b]
<1>1. Len(ns) \in Nat /\ end[Len(ns)] \in Nat /\ Len(ns) \in 0..Len(ns) /\ F[end[Len(ns)]] = InOrder(ns)
  BY ScheduleIs DEF Sequential
<1>2. m \in Nat /\ m <= end[Len(ns)]
  BY <1>1 DEF After
<1>3. ~(m < end[Len(ns)])
  <2>1. SUFFICES ASSUME m < end[Len(ns)] PROVE FALSE
    OBVIOUS
  <2>2. PICK j \in 1..Len(ns) : end[j - 1] <= m /\ m < end[j]
    BY <1>1, <1>2, <2>1, Within
  <2>3. j \in DOMAIN ns
    BY ScheduleIs
  <2>4. end[j - 1] \in Nat /\ end[j] \in Nat /\ end[j - 1] <= end[j] /\ end[j] = end[j - 1] + Len(ns[j].body)
        /\ Len(ns[j].body) \in Nat
    BY <2>3, PlacesAre
  <2>5. Ran(end[j - 1], end[j], m) = m - end[j - 1]
    BY <1>2, <2>2, <2>4, RanInside
  <2>6. m - end[j - 1] = Len(ns[j].body)
    BY <2>3, <2>5 DEF After
  <2> QED BY <1>2, <2>2, <2>4, <2>6
<1>4. m = end[Len(ns)]
  BY <1>1, <1>2, <1>3
<1> QED BY <1>1, <1>4 DEF After

-----------------------------------------------------------------------------
(***************************************************************************)
(* The execution of the schedule.                                          *)
(***************************************************************************)

\* The contents are those of running in order: of the statements each node has
\* executed in a legal schedule, of all executed so far in any other.
Running(ns, simple, p, M) ==
  /\ p \in [DOMAIN ns -> Nat] /\ \A i \in DOMAIN ns : p[i] <= Len(ns[i].body)
  /\ DOMAIN M = Buffers(ns)
  /\ \A end, F : Sequential(ns, end, F) =>
       IF simple THEN Holds(ns, end, F, p, M) ELSE \E m : After(ns, end, F, p, M, m)

RunInv ==
  pass = "run" => Running(nodes, legal, pc, mem) /\ (legal => tokens = TokenEdges(nodes))

LEMMA TokensStay ==
  ASSUME program' = program, nodes' = nodes
  PROVE  TokenEdges(nodes)' = TokenEdges(nodes)
BY DEF TokenEdges, IsExt

\* A node reads a buffer another one writes only when that one has ended.
LEMMA ReadersWait ==
  ASSUME PassInv, legal, tokens = TokenEdges(nodes), NEW i \in DOMAIN nodes, \A j \in WaitsFor(i) : Finished(j)
  PROVE  Fed(nodes, pc, i)
<1> SUFFICES ASSUME NEW x \in Ins(nodes[i]), ~IsArg(x), NEW j \in Producers(nodes, x)
             PROVE  j \in WaitsFor(i)
  BY DEF Finished, Fed
<1>1. CASE ~IsExt(x)
  <2>1. x \in {c \in Ins(nodes[i]) : Carried(c)}
    BY <1>1 DEF Carried
  <2>2. j \in UNION {Producers(nodes, b) : b \in {c \in Ins(nodes[i]) : Carried(c)}}
    BY <2>1
  <2> QED BY <2>2 DEF WaitsFor
<1>2. CASE IsExt(x)
  <2>1. x \in Buffers(nodes) /\ j \in DOMAIN nodes /\ x \in Outs(nodes[j])
    BY DEF Buffers, Producers
  <2>2. Producers(nodes, x) = {j}
    BY <2>1, LegalIsSole DEF Sole
  <2>3. i \in Consumers(nodes, x) /\ i # j
    BY <2>1 DEF Consumers, Ins
  <2>4. i \in DependentConsumers(nodes, x, j)
    BY <2>3 DEF DependentConsumers
  <2>5. <<j, i>> \in TokenEdges(nodes)
    <3>1. PICK e : e = <<j, i>>
      OBVIOUS
    <3>2. e \in (DOMAIN nodes) \X (DOMAIN nodes) /\ e[1] = j /\ e[2] = i
      BY <2>1, <3>1
    <3>3. e \in TokenEdges(nodes)
      BY <1>2, <2>1, <2>2, <2>4, <3>2 DEF TokenEdges
    <3> QED BY <3>1, <3>3
  <2> QED BY <2>1, <2>5 DEF WaitsFor
<1> QED BY <1>1, <1>2

LEMMA RunStarts ==
  ASSUME PassInv, CreateTokenStream
  PROVE  RunInv'
<1>1. /\ nodes \in NodeSeq /\ program' = program /\ nodes' = nodes /\ legal' = legal
      /\ tokens' = (IF legal THEN TokenEdges(nodes) ELSE {})
      /\ pc' = [i \in DOMAIN nodes |-> 0] /\ mem' = Start(nodes)
  BY DEF PassInv, CreateTokenStream
<1>2. PICK p : p = [i \in DOMAIN nodes |-> 0]
  OBVIOUS
<1>3. p \in [DOMAIN nodes -> Nat] /\ DOMAIN Start(nodes) = Buffers(nodes) /\ \A i \in DOMAIN nodes : p[i] <= Len(nodes[i].body)
  <2>1. \A i \in DOMAIN nodes : Len(nodes[i].body) \in Nat
    BY <1>1, ScheduleIs, NodeIs
  <2> QED BY <1>2, <2>1 DEF Start
<1>4. ASSUME NEW end, NEW F, Sequential(nodes, end, F)
      PROVE  IF legal THEN Holds(nodes, end, F, p, Start(nodes)) ELSE \E m : After(nodes, end, F, p, Start(nodes), m)
  <2>1. CASE legal
    BY <1>1, <1>2, <1>4, <2>1, LegalIsSole, HoldsStart
  <2>2. After(nodes, end, F, p, Start(nodes), 0)
    BY <1>1, <1>2, <1>4, AfterStart
  <2> QED BY <2>1, <2>2
<1>5. Running(nodes, legal, p, Start(nodes))
  BY <1>3, <1>4 DEF Running
<1>6. Running(nodes', legal', pc', mem')
  BY <1>1, <1>2, <1>5
<1>7. legal' => tokens' = TokenEdges(nodes)'
  BY <1>1, TokensStay
<1> QED BY <1>6, <1>7 DEF RunInv

LEMMA RunGoesOn ==
  ASSUME PassInv, RunInv, NEW i \in DOMAIN nodes, Run(i)
  PROVE  RunInv'
<1>1. /\ nodes \in NodeSeq /\ Defined(nodes) /\ program' = program /\ nodes' = nodes /\ legal' = legal /\ tokens' = tokens
      /\ Running(nodes, legal, pc, mem) /\ (legal => tokens = TokenEdges(nodes))
      /\ \A j \in WaitsFor(i) : Finished(j)
  BY DEF PassInv, RunInv, Run
<1>2. PICK s, q : s = nodes[i].body[pc[i] + 1] /\ q = [pc EXCEPT ![i] = pc[i] + 1]
  OBVIOUS
<1>3. mem' = Effect(mem, s) /\ pc' = q
  BY <1>2 DEF Run
<1>4. pc \in [DOMAIN nodes -> Nat] /\ DOMAIN mem = Buffers(nodes) /\ \A j \in DOMAIN nodes : pc[j] <= Len(nodes[j].body)
  BY <1>1 DEF Running
<1>5. pc[i] < Len(nodes[i].body)
  <2>1. pc[i] # Len(nodes[i].body)
    BY DEF Run, Finished
  <2>2. pc[i] \in Nat /\ Len(nodes[i].body) \in Nat /\ pc[i] <= Len(nodes[i].body)
    BY <1>1, <1>4, ScheduleIs, NodeIs
  <2> QED BY <2>1, <2>2
<1>6. q \in [DOMAIN nodes -> Nat] /\ \A j \in DOMAIN nodes : q[j] <= Len(nodes[j].body)
  <2>1. pc[i] + 1 \in Nat /\ pc[i] + 1 <= Len(nodes[i].body)
    BY <1>1, <1>4, <1>5, ScheduleIs, NodeIs
  <2> QED BY <1>2, <1>4, <2>1
<1>11. Turn(nodes, pc, mem, i, s, q)
  BY <1>2, <1>4, <1>5 DEF Turn
<1>12. nodes \in NodeSeq /\ Defined(nodes)
  BY <1>1
<1>7. \E end, F : Sequential(nodes, end, F)
  BY <1>1, SequentialIs
<1>8. ASSUME NEW end, NEW F, Sequential(nodes, end, F)
      PROVE  /\ DOMAIN Effect(mem, s) = Buffers(nodes)
             /\ IF legal THEN Holds(nodes, end, F, q, Effect(mem, s))
                         ELSE \E m : After(nodes, end, F, q, Effect(mem, s), m)
  <2>1. CASE legal
    <3>1. Sole(nodes)
      BY <2>1, LegalIsSole
    <3>2. Holds(nodes, end, F, pc, mem)
      BY <1>1, <1>8, <2>1 DEF Running
    <3>4. Fed(nodes, pc, i)
      BY <1>1, <2>1, ReadersWait
    <3>5. DOMAIN Effect(mem, s) = Buffers(nodes) /\ Holds(nodes, end, F, q, Effect(mem, s))
      BY <1>8, <1>11, <1>12, <3>1, <3>2, <3>4, HoldsStep
    <3> QED BY <2>1, <3>5
  <2>2. CASE ~legal
    <3>1. PICK m : After(nodes, end, F, pc, mem, m)
      BY <1>1, <1>8, <2>2 DEF Running
    <3>3. Called(nodes, pc, i)
      BY <1>1, <2>2 DEF WaitsFor, Finished, Called
    <3>4. DOMAIN Effect(mem, s) = Buffers(nodes) /\ After(nodes, end, F, q, Effect(mem, s), m + 1)
      BY <1>8, <1>11, <1>12, <3>1, <3>3, AfterStep
    <3> QED BY <2>2, <3>4
  <2> QED BY <2>1, <2>2
<1>9. Running(nodes, legal, q, Effect(mem, s))
  BY <1>6, <1>7, <1>8 DEF Running
<1>10. Running(nodes', legal', pc', mem')
  BY <1>1, <1>3, <1>9
<1>13. legal' => tokens' = TokenEdges(nodes)'
  BY <1>1, TokensStay
<1> QED BY <1>10, <1>13 DEF RunInv

\* A schedule runs when its tokens are there, and no pass comes after.
LEMMA RunsLast ==
  ASSUME [Next]_vars, pass' = "run"
  PROVE  CreateTokenStream \/ (\E i \in DOMAIN nodes : Run(i)) \/ UNCHANGED vars
<1>1. ~BufferMultiProducer
  BY DEF BufferMultiProducer
<1>2. ~MergeMultiProducer
  BY DEF MergeMultiProducer
<1>3. ~EndProducers
  BY DEF EndProducers
<1>4. ~ \E i \in DOMAIN nodes : InsertForkNode(i)
  BY DEF InsertForkNode
<1>5. ~EndConsumers
  BY DEF EndConsumers
<1>6. ~ForkWideArgFanOut
  BY DEF ForkWideArgFanOut
<1>7. ~ \E i \in DOMAIN nodes : ALAPScheduleNode(i)
  BY DEF ALAPScheduleNode
<1>8. ~EndLevels
  BY DEF EndLevels
<1>9. ~ \E i \in DOMAIN nodes : InsertCopyNode(i)
  BY DEF InsertCopyNode
<1>10. ~EndBalance
  BY DEF EndBalance
<1>11. ~Legalize
  BY DEF Legalize, FuseMultiConsumer, FuseBypassPath, Mark
<1> QED BY <1>1, <1>2, <1>3, <1>4, <1>5, <1>6, <1>7, <1>8, <1>9, <1>10, <1>11 DEF Next

LEMMA RunInvHolds ==
  ASSUME PassInv, RunInv, [Next]_vars
  PROVE  RunInv'
<1>1. CASE CreateTokenStream
  BY <1>1, RunStarts
<1>2. CASE \E i \in DOMAIN nodes : Run(i)
  BY <1>2, RunGoesOn
<1>3. CASE UNCHANGED vars
  <2>1. /\ program' = program /\ pass' = pass /\ nodes' = nodes /\ legal' = legal
        /\ tokens' = tokens /\ pc' = pc /\ mem' = mem
    BY <1>3 DEF vars
  <2>2. TokenEdges(nodes)' = TokenEdges(nodes)
    BY <2>1, TokensStay
  <2>3. ASSUME pass' = "run"
        PROVE  Running(nodes', legal', pc', mem') /\ (legal' => tokens' = TokenEdges(nodes)')
    BY <2>1, <2>2, <2>3 DEF RunInv
  <2> QED BY <2>3 DEF RunInv
<1>4. CASE pass' # "run"
  BY <1>4 DEF RunInv
<1> QED BY <1>1, <1>2, <1>3, <1>4, RunsLast

\* Whatever the order the processes ran in, every buffer ends with what it would
\* hold if the nodes of the schedule had run one after the other.
Determinate == Done => \A b \in Buffers(nodes) : mem[b] = InOrder(nodes)[b]

LEMMA EndsAsInOrder ==
  ASSUME PassInv, RunInv
  PROVE  Determinate
<1> SUFFICES ASSUME Done PROVE \A b \in Buffers(nodes) : mem[b] = InOrder(nodes)[b]
  BY DEF Determinate
<1>1. nodes \in NodeSeq /\ Running(nodes, legal, pc, mem) /\ \A i \in DOMAIN nodes : pc[i] = Len(nodes[i].body)
  BY DEF PassInv, RunInv, Done, Finished
<1>2. PICK end, F : Sequential(nodes, end, F)
  BY <1>1, SequentialIs
<1>3. CASE legal
  <2>1. Holds(nodes, end, F, pc, mem)
    BY <1>1, <1>2, <1>3 DEF Running
  <2> QED BY <1>1, <1>2, <1>3, <2>1, LegalIsSole, HoldsEnd
<1>4. CASE ~legal
  <2>1. PICK m : After(nodes, end, F, pc, mem, m)
    BY <1>1, <1>2, <1>4 DEF Running
  <2> QED BY <1>1, <1>2, <2>1, AfterEnd
<1> QED BY <1>3, <1>4

\* The execution of a schedule is determinate: a dataflow region, with its channels
\* and tokens as the only synchronisation, computes what its nodes do in order.
THEOREM SchedulesAreDeterminate ==
  AllLowered => (Spec => []Determinate)
<1>1. Init => RunInv
  BY DEF Init, Begin, RunInv
<1>2. PassInv /\ RunInv /\ [Next]_vars => RunInv'
  BY RunInvHolds
<1>3. PassInv /\ RunInv => Determinate
  BY EndsAsInOrder
<1> QED BY <1>1, <1>2, <1>3, PassesKeepInv, PTL DEF Spec

-----------------------------------------------------------------------------
(***************************************************************************)
(* What the passes keep of the meaning.                                    *)
(***************************************************************************)

\* A schedule means what the program did; until every channel has one producer,
\* nothing of what its nodes write is lost by giving each its own buffer.
MeantInv ==
    /\ Meaning(nodes) = Meaning(program.nodes)
    /\ pass = "producers" => NothingLost(nodes, program.dram)

LEMMA MeantStep ==
  ASSUME MeantInv, program' = program, NEW r, r = nodes', Same(nodes, r),
         pass' = "producers" => NothingLost(r, program.dram)
  PROVE  MeantInv'
<1>1. Meaning(r) = Meaning(program.nodes)
  BY DEF MeantInv, Same
<1>2. Meaning(nodes)' = Meaning(program.nodes)'
  BY <1>1
<1>3. ASSUME pass' = "producers" PROVE NothingLost(nodes, program.dram)'
  BY <1>3
<1> QED BY <1>2, <1>3 DEF MeantInv

\* EliminateMultiProducer, while it runs.
LEMMA MeantEarly ==
  ASSUME MeantInv, program' = program, pass = "producers", NEW r, r = nodes', Still(nodes, r)
  PROVE  MeantInv'
<1>1. Same(nodes, r) /\ NothingLost(r, program.dram)
  BY DEF MeantInv, Still
<1> QED BY <1>1, MeantStep

\* A step that leaves the nodes alone.
LEMMA MeantStays ==
  ASSUME MeantInv, program' = program, nodes' = nodes, pass' = "producers" => pass = "producers"
  PROVE  MeantInv'
<1>1. Same(nodes, nodes)
  BY DEF Same
<1>2. pass' = "producers" => NothingLost(nodes, program.dram)
  BY DEF MeantInv
<1> QED BY <1>1, <1>2, MeantStep

LEMMA InitMeant ==
  ASSUME AllSwept, Init
  PROVE  MeantInv
<1>1. program \in Programs /\ nodes = program.nodes
  BY DEF Init, Begin
<1>2. NothingLost(program.nodes, program.dram)
  BY <1>1 DEF AllSwept
<1> QED BY <1>1, <1>2 DEF MeantInv

LEMMA EliminateMeans ==
  ASSUME PassInv, MeantInv, \/ BufferMultiProducer \/ MergeMultiProducer
                            \/ (\E i \in DOMAIN nodes : InsertForkNode(i)) \/ ForkWideArgFanOut
  PROVE  MeantInv'
<1>1. PICK r : r = nodes'
  OBVIOUS
<1>2. CASE BufferMultiProducer
  <2>1. Early(nodes) /\ program' = program /\ pass = "producers"
    BY <1>2, EarlyNow DEF BufferMultiProducer
  <2>2. nodes' = PrivateAll(nodes)
    BY <1>2 DEF BufferMultiProducer, PrivateAll
  <2>3. Still(nodes, PrivateAll(nodes))
    BY <2>1, PrivateAllKeeps
  <2>4. Still(nodes, r)
    BY <1>1, <2>2, <2>3
  <2> QED BY <1>1, <2>1, <2>4, MeantEarly
<1>3. CASE MergeMultiProducer
  <2>1. Early(nodes) /\ program' = program /\ pass = "producers"
    BY <1>3, EarlyNow DEF MergeMultiProducer
  <2>2. nodes' = MergeAll(nodes)
    BY <1>3 DEF MergeMultiProducer, MergeAll
  <2>3. Still(nodes, MergeAll(nodes))
    BY <2>1, MergeAllKeeps
  <2>4. Still(nodes, r)
    BY <1>1, <2>2, <2>3
  <2> QED BY <1>1, <2>1, <2>4, MeantEarly
<1>4. ASSUME NEW i \in DOMAIN nodes, InsertForkNode(i) PROVE MeantInv'
  <2>1. Early(nodes) /\ program' = program /\ pass' = "consumers"
    BY <1>4, EarlyNow DEF InsertForkNode
  <2>2. nodes' = ForkNodes(nodes, i)
    BY <1>4 DEF InsertForkNode, ForkNodes
  <2>3. Same(nodes, ForkNodes(nodes, i))
    BY <2>1, ForkNodesKeep
  <2>4. Same(nodes, r)
    BY <1>1, <2>2, <2>3
  <2> QED BY <1>1, <2>1, <2>4, MeantStep
<1>5. CASE ForkWideArgFanOut
  <2>1. Early(nodes) /\ program' = program /\ pass' = "levels"
    BY <1>5, EarlyNow DEF ForkWideArgFanOut
  <2>2. nodes' = ForkArgs(nodes)
    BY <1>5 DEF ForkWideArgFanOut, ForkArgs
  <2>3. Same(nodes, ForkArgs(nodes))
    BY <2>1, ForkArgsKeep
  <2>4. Same(nodes, r)
    BY <1>1, <2>2, <2>3
  <2> QED BY <1>1, <2>1, <2>4, MeantStep
<1> QED BY <1>2, <1>3, <1>4, <1>5

LEMMA ScheduleMeans ==
  ASSUME PassInv, MeantInv, \/ (\E i \in DOMAIN nodes : ALAPScheduleNode(i))
                            \/ (\E i \in DOMAIN nodes : InsertCopyNode(i))
  PROVE  MeantInv'
<1>1. PICK r : r = nodes'
  OBVIOUS
<1>2. ASSUME pass \in {"levels", "balance"}
      PROVE  nodes \in NodeSeq /\ Defined(nodes) /\ Channels(nodes) /\ Downhill(nodes)
  BY <1>2 DEF PassInv
<1>3. ASSUME NEW i \in DOMAIN nodes, ALAPScheduleNode(i) PROVE MeantInv'
  <2>1. nodes' = [nodes EXCEPT ![i].level = Above(nodes, i)]
    BY <1>3 DEF ALAPScheduleNode, Above
  <2>2. Schedulable(nodes, i) /\ pass = "levels" /\ pass' = "levels" /\ program' = program
    BY <1>3 DEF ALAPScheduleNode
  <2>3. Same(nodes, r)
    BY <1>1, <1>2, <2>1, <2>2, LevelKeeps
  <2> QED BY <1>1, <2>2, <2>3, MeantStep
<1>4. ASSUME NEW i \in DOMAIN nodes, InsertCopyNode(i) PROVE MeantInv'
  <2>1. nodes' = CopyNodes(nodes, i)
    BY <1>4 DEF InsertCopyNode, CopyNodes
  <2>2. pass = "balance" /\ pass' = "balance" /\ program' = program
    BY <1>4 DEF InsertCopyNode
  <2>3. Same(nodes, r)
    BY <1>1, <1>2, <2>1, <2>2, CopyNodeKeeps
  <2> QED BY <1>1, <2>2, <2>3, MeantStep
<1> QED BY <1>3, <1>4

LEMMA GroupsMean ==
  ASSUME PassInv, MeantInv, pass = "legalize", pass' = "legalize", program' = program, AllLevelled(nodes),
         NEW groups, Groups(nodes, groups), NEW level \in [groups -> Nat],
         nodes' = FuseGroups(nodes, groups, level)
  PROVE  MeantInv'
<1>1. nodes \in NodeSeq /\ Defined(nodes) /\ Channels(nodes)
  BY DEF PassInv
<1>2. PICK r : r = FuseGroups(nodes, groups, level)
  OBVIOUS
<1>3. Kept(nodes, groups, level, r)
  BY <1>1, <1>2, FuseGroupsKeep
<1>4. Same(nodes, r) /\ r = nodes'
  BY <1>2, <1>3 DEF Kept
<1> QED BY <1>4, MeantStep

LEMMA FuseConsumersMeans ==
  ASSUME PassInv, MeantInv, FuseMultiConsumer
  PROVE  MeantInv'
<1>1. pass = "legalize" /\ pass' = "legalize" /\ program' = program
  BY DEF FuseMultiConsumer
<1>2. nodes \in NodeSeq
  BY DEF PassInv
<1>3. PICK groups : groups = MultiConsumerGroups(nodes)
  OBVIOUS
<1>4. PICK level : level = [g \in groups |-> nodes[Min(g)].level]
  OBVIOUS
<1>5. nodes' = FuseGroups(nodes, groups, level) /\ groups # {}
  BY <1>3, <1>4 DEF FuseMultiConsumer
<1>6. AllLevelled(nodes)
  BY <1>3, <1>5 DEF MultiConsumerGroups
<1>7. Groups(nodes, groups) /\ level \in [groups -> Nat]
  BY <1>2, <1>3, <1>4, <1>6, MultiConsumerIs
<1> QED BY <1>1, <1>5, <1>6, <1>7, GroupsMean

LEMMA FuseBypassMeans ==
  ASSUME PassInv, MeantInv, FuseBypassPath
  PROVE  MeantInv'
<1>1. pass = "legalize" /\ pass' = "legalize" /\ program' = program
  BY DEF FuseBypassPath
<1>2. nodes \in NodeSeq /\ Defined(nodes) /\ Channels(nodes)
  BY <1>1 DEF PassInv
<1>3. PICK groups \in {BypassGroups(nodes)} \ {{}} : \E level \in [groups -> Levels(nodes)] :
        nodes' = FuseGroups(nodes, groups, level)
  BY DEF FuseBypassPath
<1>4. PICK level \in [groups -> Levels(nodes)] : nodes' = FuseGroups(nodes, groups, level)
  BY <1>3
<1>5. groups = BypassGroups(nodes) /\ groups # {}
  BY <1>3
<1>6. AllLevelled(nodes)
  BY <1>5 DEF BypassGroups
<1>7. Levels(nodes) \subseteq Nat
  BY <1>2, <1>6, ScheduleIs, NodeIs DEF Levels, AllLevelled
<1>8. Groups(nodes, groups) /\ level \in [groups -> Nat]
  BY <1>2, <1>5, <1>7, BypassIs
<1> QED BY <1>1, <1>4, <1>6, <1>8, GroupsMean

LEMMA MeantInvHolds ==
  ASSUME PassInv, MeantInv, [Next]_vars
  PROVE  MeantInv'
<1>1. CASE EndProducers
  BY <1>1, MeantStays DEF EndProducers
<1>2. CASE EndConsumers
  BY <1>2, MeantStays DEF EndConsumers
<1>3. CASE EndLevels
  BY <1>3, MeantStays DEF EndLevels
<1>4. CASE EndBalance
  BY <1>4, MeantStays DEF EndBalance
<1>5. CASE Mark
  BY <1>5, MeantStays DEF Mark
<1>6. CASE CreateTokenStream
  BY <1>6, MeantStays DEF CreateTokenStream
<1>7. ASSUME NEW i \in DOMAIN nodes, Run(i) PROVE MeantInv'
  BY <1>7, MeantStays DEF Run
<1>8. CASE UNCHANGED vars
  BY <1>8, MeantStays DEF vars
<1>9. CASE \/ BufferMultiProducer \/ MergeMultiProducer
           \/ (\E i \in DOMAIN nodes : InsertForkNode(i)) \/ ForkWideArgFanOut
  BY <1>9, EliminateMeans
<1>10. CASE \/ (\E i \in DOMAIN nodes : ALAPScheduleNode(i))
            \/ (\E i \in DOMAIN nodes : InsertCopyNode(i))
  BY <1>10, ScheduleMeans
<1>11. CASE FuseMultiConsumer
  BY <1>11, FuseConsumersMeans
<1>12. CASE FuseBypassPath
  BY <1>12, FuseBypassMeans
<1> QED BY <1>1, <1>2, <1>3, <1>4, <1>5, <1>6, <1>7, <1>8, <1>9, <1>10, <1>11, <1>12 DEF Next, Legalize

\* Whatever the dataflow passes split, fork, copy, level or fuse, the nodes of the
\* schedule run one after the other leave in the results what those of the program
\* did. AllSwept is what EliminateMultiProducer takes for granted.
THEOREM SchedulesMeanTheProgram ==
  AllLowered /\ AllSwept => (Spec => []MeaningKept)
<1>1. AllSwept /\ Init => MeantInv
  BY InitMeant
<1>2. PassInv /\ MeantInv /\ [Next]_vars => MeantInv'
  BY MeantInvHolds
<1>3. MeantInv => MeaningKept
  BY DEF MeantInv, MeaningKept
<1> QED BY <1>1, <1>2, <1>3, PassesKeepInv, PTL DEF Spec

LEMMA MeaningIs ==
  ASSUME NEW ns
  PROVE  \A b \in DOMAIN Meaning(ns) : b \in Buffers(ns) /\ Meaning(ns)[b] = InOrder(ns)[b]
BY DEF Meaning, InOrder, Whole

\* The execution of a schedule leaves in the results what the nodes of the program
\* run in order do, whatever the interleaving and the passes before: nothing is lost
\* on the way from the schedule as lowered to the processes of a dataflow region.
THEOREM SchedulesRunAsWritten ==
  AllLowered /\ AllSwept => (Spec => []RunsAsWritten)
<1>1. AllSwept /\ Init => MeantInv
  BY InitMeant
<1>2. PassInv /\ MeantInv /\ [Next]_vars => MeantInv'
  BY MeantInvHolds
<1>3. Determinate /\ MeantInv => RunsAsWritten
  <2> SUFFICES ASSUME Determinate, MeantInv, Done, NEW b \in DOMAIN Meaning(program.nodes)
               PROVE  mem[b] = Meaning(program.nodes)[b]
    BY DEF RunsAsWritten
  <2>1. Meaning(nodes) = Meaning(program.nodes)
    BY DEF MeantInv
  <2>2. b \in Buffers(nodes) /\ Meaning(nodes)[b] = InOrder(nodes)[b]
    BY <2>1, MeaningIs
  <2> QED BY <2>1, <2>2 DEF Determinate
<1> QED BY <1>1, <1>2, <1>3, PassesKeepInv, SchedulesAreDeterminate, PTL DEF Spec
=============================================================================
