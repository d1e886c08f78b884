-------------------------- MODULE PlanePoolProofs --------------------------
(***************************************************************************)
(* Proofs about PlanePool, for any addresses, sizes, alignments and bound.  *)
(*                                                                         *)
(* Who has a block: the inductive invariant is Ledger with the shapes of   *)
(* the variables.  The byte counts play no part in it.  What the counts are *)
(* (Books) rests on it, on sums over the addresses, and on a second link   *)
(* between blocks and the list (Listed).                                   *)
(***************************************************************************)
EXTENDS PlanePool, Sums, TLAPS, SequenceTheorems, FiniteSetTheorems

Shape ==
  /\ heap \in [Addresses -> Request \cup {NoRequest}]
  /\ held \in [Addresses -> Request \cup {NoRequest}]
  /\ blocks \in [Addresses -> Block \cup {Untracked}]
  /\ cache \in Seq(Entry)
  /\ pending \in Request \cup {NoRequest}

IInv == Shape /\ Ledger

\* The fields of a request have the types the hooks are called with.
LEMMA RequestType ==
  ASSUME NEW r \in Request
  PROVE  r.size \in Nat /\ r.alignment \in Nat /\ r # NoRequest
<1>1. r.size \in Sizes /\ r.alignment \in Alignments
  BY DEF Request
<1> QED BY <1>1, PoolAssumption, RequestAssumption

\* So have the entries of the cache.
LEMMA EntryType ==
  ASSUME cache \in Seq(Entry), NEW i \in 1..Len(cache)
  PROVE  /\ cache[i] \in Entry /\ cache[i].ptr \in Addresses
         /\ cache[i].size \in Nat /\ cache[i].alignment \in Nat
<1>1. cache[i] \in Entry
  OBVIOUS
<1>2. cache[i].ptr \in Addresses /\ cache[i].size \in Sizes /\ cache[i].alignment \in Alignments
  BY <1>1 DEF Entry
<1> QED BY <1>1, <1>2, PoolAssumption

\* The initial pool is empty.
LEMMA InitIInv == Init => IInv
BY DEF Init, IInv, Shape, Ledger, Entry

-----------------------------------------------------------------------------
(***************************************************************************)
(* The two ways an entry leaves the cache.                                 *)
(***************************************************************************)

\* vector::pop_back: a shorter sequence, the entries before the last stay.
LEMMA PopBack ==
  ASSUME NEW s \in Seq(Entry), Len(s) \in Nat \ {0}
  PROVE  /\ SubSeq(s, 1, Len(s) - 1) \in Seq(Entry)
         /\ Len(SubSeq(s, 1, Len(s) - 1)) = Len(s) - 1
         /\ \A j \in 1..(Len(s) - 1) : SubSeq(s, 1, Len(s) - 1)[j] = s[j]
<1> DEFINE n == Len(s) - 1
           popped == SubSeq(s, 1, n)
<1>1. n \in Nat /\ \A j \in 1..n : s[j] \in Entry
  OBVIOUS
<1>2. /\ popped \in Seq(Entry)
      /\ Len(popped) = IF 1 <= n THEN n - 1 + 1 ELSE 0
      /\ \A j \in 1..(n - 1 + 1) : popped[j] = s[1 + j - 1]
  <2> HIDE DEF n
  <2> QED BY <1>1, SubSeqProperties
<1> HIDE DEF popped
<1>3. Len(popped) = n
  <2> HIDE DEF n
  <2> QED BY <1>1, <1>2
<1>4. ASSUME NEW j \in 1..n PROVE popped[j] = s[j]
  <2>1. j \in 1..(n - 1 + 1) /\ 1 + j - 1 = j
    BY <1>1
  <2> QED BY <2>1, <1>2
<1> QED BY <1>2, <1>3, <1>4 DEF popped

\* Without(i) is a shorter cache, whose entries are entries of the old one other
\* than the i-th, each at a place of its own (cache[i] = cache.back(); pop_back()).
LEMMA WithoutEntries ==
  ASSUME cache \in Seq(Entry), NEW i \in 1..Len(cache)
  PROVE  /\ Without(i) \in Seq(Entry)
         /\ Len(Without(i)) = Len(cache) - 1
         /\ \A j \in 1..Len(Without(i)) :
              Without(i)[j] = IF j = i THEN cache[Len(cache)] ELSE cache[j]
<1> DEFINE moved == [cache EXCEPT ![i] = cache[Len(cache)]]
<1>1. cache[Len(cache)] \in Entry /\ Len(cache) \in Nat \ {0}
  OBVIOUS
<1>2. moved \in Seq(Entry) /\ Len(moved) = Len(cache)
  BY <1>1
<1>3. \A j \in 1..Len(cache) : moved[j] = IF j = i THEN cache[Len(cache)] ELSE cache[j]
  BY <1>1
<1>4. Without(i) = SubSeq(moved, 1, Len(moved) - 1)
  BY <1>2 DEF Without
<1> HIDE DEF moved
<1>5. /\ Without(i) \in Seq(Entry)
      /\ Len(Without(i)) = Len(moved) - 1
      /\ \A j \in 1..(Len(moved) - 1) : Without(i)[j] = moved[j]
  BY <1>1, <1>2, <1>4, PopBack
<1>6. \A j \in 1..(Len(cache) - 1) : j \in 1..Len(cache)
  BY <1>1
<1> QED BY <1>2, <1>3, <1>5, <1>6

\* The last entry of a cache popped from the back (evictCachedToFit).
LEMMA PoppedEntries ==
  ASSUME cache \in Seq(Entry), cache # <<>>
  PROVE  /\ SubSeq(cache, 1, Len(cache) - 1) \in Seq(Entry)
         /\ Len(SubSeq(cache, 1, Len(cache) - 1)) = Len(cache) - 1
         /\ \A j \in 1..(Len(cache) - 1) : SubSeq(cache, 1, Len(cache) - 1)[j] = cache[j]
         /\ Len(cache) \in 1..Len(cache)
<1>1. Len(cache) \in Nat \ {0}
  BY EmptySeq
<1> QED BY <1>1, PopBack

-----------------------------------------------------------------------------
(***************************************************************************)
(* Each step keeps the ledger.                                             *)
(***************************************************************************)

\* A small request answered by libc.
LEMMA AllocateRawStep ==
  ASSUME IInv, NEW r \in Request, NEW p \in Addresses, AllocateRaw(r, p)
  PROVE  IInv'
<1>1. Shape'
  BY DEF IInv, Shape, AllocateRaw, poolVars
<1>2. blocks[p] = Untracked /\ \A i \in 1..Len(cache) : cache[i].ptr # p
  BY DEF IInv, Ledger, AllocateRaw
<1>3. Ledger'
  <2>1. r.size >= r.size /\ r.alignment >= r.alignment /\ r # NoRequest
    BY RequestType
  <2>2. /\ heap' = [heap EXCEPT ![p] = r] /\ held' = [held EXCEPT ![p] = r]
        /\ blocks' = blocks /\ cache' = cache /\ pending' = pending /\ enabled' = enabled
    BY DEF AllocateRaw, poolVars, config
  <2>3. \A i \in 1..Len(cache) : cache[i].ptr \in Addresses
    BY EntryType DEF IInv, Shape
  <2> QED BY <1>2, <2>1, <2>2, <2>3 DEF IInv, Shape, Ledger
<1> QED BY <1>1, <1>3 DEF IInv

\* A request answered from the cache.
LEMMA HitStep ==
  ASSUME IInv, NEW r \in Request, NEW i \in 1..Len(cache), Hit(r, i)
  PROVE  IInv'
<1> DEFINE e == cache[i]
<1>1. e \in Entry /\ e.ptr \in Addresses /\ cache \in Seq(Entry)
  BY EntryType DEF IInv, Shape
<1>2. blocks[e.ptr] \in Block /\ blocks[e.ptr].cached
  BY <1>1 DEF IInv, Shape, Ledger
<1>3. blocks' = [blocks EXCEPT ![e.ptr] = [blocks[e.ptr] EXCEPT !.cached = FALSE]]
  BY DEF Hit
<1>4. Shape'
  <2>1. [blocks[e.ptr] EXCEPT !.cached = FALSE] \in Block
    BY <1>2 DEF Block
  <2>2. cache' \in Seq(Entry)
    BY <1>1, WithoutEntries DEF Hit
  <2> QED BY <1>1, <1>3, <2>1, <2>2 DEF IInv, Shape, Hit
<1>5. /\ heap' = heap /\ pending' = pending /\ enabled' = enabled
      /\ held' = [held EXCEPT ![e.ptr] = r]
      /\ e.size = r.size /\ e.alignment >= r.alignment
  BY DEF Hit, Matches, Suits, config
<1>6. \A p \in Addresses : held'[p] # NoRequest =>
        /\ heap'[p] # NoRequest
        /\ heap'[p].size >= held'[p].size /\ heap'[p].alignment >= held'[p].alignment
        /\ blocks'[p] # Untracked => ~blocks'[p].cached
  <2> SUFFICES ASSUME NEW p \in Addresses, held'[p] # NoRequest
               PROVE  /\ heap'[p] # NoRequest
                      /\ heap'[p].size >= held'[p].size /\ heap'[p].alignment >= held'[p].alignment
                      /\ blocks'[p] # Untracked => ~blocks'[p].cached
    OBVIOUS
  <2>1. CASE p = e.ptr
    <3>1. held'[p] = r /\ blocks'[p].cached = FALSE
      BY <2>1, <1>1, <1>2, <1>3, <1>5 DEF IInv, Shape, Block
    <3>2. heap[p] # NoRequest /\ heap[p].size = e.size /\ heap[p].alignment = e.alignment
      BY <2>1, <1>2 DEF IInv, Ledger
    <3>3. r.size >= r.size /\ e.size >= r.size /\ e.alignment >= r.alignment
      BY <1>5, RequestType
    <3> QED BY <2>1, <3>1, <3>2, <3>3, <1>5
  <2>2. CASE p # e.ptr
    BY <2>2, <1>1, <1>3, <1>5 DEF IInv, Shape, Ledger
  <2> QED BY <2>1, <2>2
<1>7. \A p \in Addresses : blocks'[p] # Untracked =>
        /\ enabled' /\ heap'[p] # NoRequest
        /\ blocks'[p].size = heap'[p].size /\ blocks'[p].alignment = heap'[p].alignment
  BY <1>1, <1>2, <1>3, <1>5 DEF IInv, Shape, Ledger, Block
<1>8. \A k \in 1..Len(cache') :
        /\ cache'[k] = cache[IF k = i THEN Len(cache) ELSE k]
        /\ (IF k = i THEN Len(cache) ELSE k) \in 1..Len(cache)
        /\ (IF k = i THEN Len(cache) ELSE k) # i
  BY <1>1, WithoutEntries DEF Hit
<1>9. \A k \in 1..Len(cache') :
        /\ blocks'[cache'[k].ptr] # Untracked /\ blocks'[cache'[k].ptr].cached
        /\ cache'[k].size = heap'[cache'[k].ptr].size
        /\ cache'[k].alignment = heap'[cache'[k].ptr].alignment
  <2> SUFFICES ASSUME NEW k \in 1..Len(cache')
               PROVE  /\ blocks'[cache'[k].ptr] # Untracked /\ blocks'[cache'[k].ptr].cached
                      /\ cache'[k].size = heap'[cache'[k].ptr].size
                      /\ cache'[k].alignment = heap'[cache'[k].ptr].alignment
    OBVIOUS
  <2>1. PICK m \in 1..Len(cache) : m # i /\ cache'[k] = cache[m]
    BY <1>8
  <2>2. cache[m].ptr # e.ptr /\ cache[m].ptr \in Addresses
    BY <1>1, <2>1, EntryType DEF IInv, Ledger
  <2> QED BY <2>1, <2>2, <1>1, <1>3, <1>5 DEF IInv, Shape, Ledger
<1>10. \A k, l \in 1..Len(cache') : k # l => cache'[k].ptr # cache'[l].ptr
  <2> SUFFICES ASSUME NEW k \in 1..Len(cache'), NEW l \in 1..Len(cache'), k # l
               PROVE  cache'[k].ptr # cache'[l].ptr
    OBVIOUS
  <2> DEFINE old(n) == IF n = i THEN Len(cache) ELSE n
  <2>1. Len(cache') = Len(cache) - 1
    BY <1>1, WithoutEntries DEF Hit
  <2>2. old(k) # old(l) /\ old(k) \in 1..Len(cache) /\ old(l) \in 1..Len(cache)
    BY <2>1, <1>8, <1>1
  <2> QED BY <2>2, <1>8 DEF IInv, Ledger
<1>11. pending' # NoRequest => enabled'
  BY <1>5 DEF IInv, Ledger
<1> QED BY <1>4, <1>6, <1>7, <1>9, <1>10, <1>11 DEF IInv, Ledger

\* One turn of the eviction loop.
LEMMA EvictStep ==
  ASSUME IInv, EvictBack
  PROVE  IInv'
<1> DEFINE e == cache[Len(cache)]
<1>1. /\ cache \in Seq(Entry) /\ cache # <<>> /\ Len(cache) \in 1..Len(cache)
      /\ e \in Entry /\ e.ptr \in Addresses
  BY PoppedEntries, EntryType DEF IInv, Shape, EvictBack
<1>2. /\ blocks' = [blocks EXCEPT ![e.ptr] = Untracked]
      /\ heap' = [heap EXCEPT ![e.ptr] = NoRequest]
      /\ held' = held /\ pending' = pending /\ enabled' = enabled
      /\ cache' \in Seq(Entry) /\ Len(cache') = Len(cache) - 1
      /\ \A j \in 1..(Len(cache) - 1) : cache'[j] = cache[j]
  BY <1>1, PoppedEntries DEF EvictBack, config
<1>3. Shape'
  BY <1>1, <1>2 DEF IInv, Shape
<1>4. held[e.ptr] = NoRequest
  BY <1>1 DEF IInv, Ledger
<1>5. \A j \in 1..(Len(cache) - 1) : cache[j].ptr # e.ptr /\ cache[j].ptr \in Addresses
  BY <1>1, EntryType DEF IInv, Ledger
<1>6. \A p \in Addresses : p # e.ptr => heap'[p] = heap[p] /\ blocks'[p] = blocks[p]
  BY <1>2 DEF IInv, Shape
<1>7. blocks'[e.ptr] = Untracked
  BY <1>1, <1>2 DEF IInv, Shape
<1>8. \A j, k \in 1..Len(cache') :
        /\ cache'[j] = cache[j] /\ j \in 1..Len(cache) /\ k \in 1..Len(cache)
        /\ j \in 1..(Len(cache) - 1)
  BY <1>1, <1>2
<1>9. \A j \in 1..Len(cache') :
        /\ blocks'[cache'[j].ptr] # Untracked /\ blocks'[cache'[j].ptr].cached
        /\ cache'[j].size = heap'[cache'[j].ptr].size
        /\ cache'[j].alignment = heap'[cache'[j].ptr].alignment
  <2> SUFFICES ASSUME NEW j \in 1..Len(cache')
               PROVE  /\ blocks'[cache'[j].ptr] # Untracked /\ blocks'[cache'[j].ptr].cached
                      /\ cache'[j].size = heap'[cache'[j].ptr].size
                      /\ cache'[j].alignment = heap'[cache'[j].ptr].alignment
    OBVIOUS
  <2>1. cache'[j] = cache[j] /\ j \in 1..Len(cache) /\ j \in 1..(Len(cache) - 1)
    BY <1>8
  <2>2. /\ heap'[cache[j].ptr] = heap[cache[j].ptr]
        /\ blocks'[cache[j].ptr] = blocks[cache[j].ptr]
    BY <2>1, <1>5, <1>6
  <2>3. /\ blocks[cache[j].ptr] # Untracked /\ blocks[cache[j].ptr].cached
        /\ cache[j].size = heap[cache[j].ptr].size
        /\ cache[j].alignment = heap[cache[j].ptr].alignment
    BY <2>1 DEF IInv, Ledger
  <2> HIDE DEF e
  <2> QED BY <2>1, <2>2, <2>3
<1>10. \A j, k \in 1..Len(cache') : j # k => cache'[j].ptr # cache'[k].ptr
  <2> SUFFICES ASSUME NEW j \in 1..Len(cache'), NEW k \in 1..Len(cache'), j # k
               PROVE  cache'[j].ptr # cache'[k].ptr
    OBVIOUS
  <2>1. /\ cache'[j] = cache[j] /\ cache'[k] = cache[k]
        /\ j \in 1..Len(cache) /\ k \in 1..Len(cache)
    BY <1>8
  <2> QED BY <2>1 DEF IInv, Ledger
<1>11. \A p \in Addresses : held'[p] # NoRequest =>
         /\ heap'[p] # NoRequest
         /\ heap'[p].size >= held'[p].size /\ heap'[p].alignment >= held'[p].alignment
         /\ blocks'[p] # Untracked => ~blocks'[p].cached
  BY <1>2, <1>4, <1>6 DEF IInv, Ledger
<1>12. \A p \in Addresses : blocks'[p] # Untracked =>
         /\ enabled' /\ heap'[p] # NoRequest
         /\ blocks'[p].size = heap'[p].size /\ blocks'[p].alignment = heap'[p].alignment
  BY <1>2, <1>6, <1>7 DEF IInv, Ledger
<1> QED BY <1>2, <1>3, <1>9, <1>10, <1>11, <1>12 DEF IInv, Ledger

\* A block libc gives for a request the cache could not answer.
LEMMA AllocateNewStep ==
  ASSUME IInv, NEW p \in Addresses, AllocateNew(p)
  PROVE  IInv'
<1>1. pending \in Request
  BY DEF IInv, Shape, AllocateNew
<1> DEFINE b == [size |-> pending.size, alignment |-> pending.alignment, cached |-> FALSE]
<1>2. b \in Block
  BY <1>1 DEF Block, Request
<1>3. /\ heap' = [heap EXCEPT ![p] = pending] /\ held' = [held EXCEPT ![p] = pending]
      /\ blocks' = [blocks EXCEPT ![p] = b] /\ pending' = NoRequest /\ cache' = cache
      /\ enabled /\ enabled' = enabled /\ heap[p] = NoRequest
  BY DEF AllocateNew, IInv, Ledger, config
<1>4. Shape'
  BY <1>1, <1>2, <1>3 DEF IInv, Shape
<1>5. \A i \in 1..Len(cache) : cache[i].ptr # p /\ cache[i].ptr \in Addresses
  BY <1>3, EntryType DEF IInv, Shape, Ledger
<1>6. /\ heap'[p] = pending /\ held'[p] = pending /\ blocks'[p] = b
      /\ \A q \in Addresses : q # p => heap'[q] = heap[q] /\ held'[q] = held[q] /\ blocks'[q] = blocks[q]
  BY <1>3 DEF IInv, Shape
<1>7. pending.size >= pending.size /\ pending.alignment >= pending.alignment
  BY <1>1, RequestType
<1>8. b.size = pending.size /\ b.alignment = pending.alignment /\ ~b.cached /\ pending # NoRequest
  BY <1>1, RequestAssumption
<1>9. Ledger'
  BY <1>3, <1>5, <1>6, <1>7, <1>8 DEF IInv, Ledger
<1> QED BY <1>4, <1>9 DEF IInv

\* A block libc gave directly.
LEMMA ReleaseRawStep ==
  ASSUME IInv, NEW p \in Addresses, ReleaseRaw(p)
  PROVE  IInv'
<1>1. blocks[p] = Untracked
  BY DEF IInv, Ledger, ReleaseRaw
<1>2. /\ heap' = [heap EXCEPT ![p] = NoRequest] /\ held' = [held EXCEPT ![p] = NoRequest]
      /\ blocks' = blocks /\ pending' = pending /\ cache' = cache /\ enabled' = enabled
  BY DEF ReleaseRaw, poolVars, config
<1>3. Shape'
  BY <1>2 DEF IInv, Shape
<1>4. /\ held'[p] = NoRequest
      /\ \A q \in Addresses : q # p => heap'[q] = heap[q] /\ held'[q] = held[q]
  BY <1>2 DEF IInv, Shape
<1>5. \A i \in 1..Len(cache) : cache[i].ptr # p /\ cache[i].ptr \in Addresses
  BY <1>1, EntryType DEF IInv, Shape, Ledger
<1>6. Ledger'
  BY <1>1, <1>2, <1>4, <1>5 DEF IInv, Ledger
<1> QED BY <1>3, <1>6 DEF IInv

\* A block of the pool comes back.
LEMMA ReleaseBlockStep ==
  ASSUME IInv, NEW p \in Addresses, ReleaseBlock(p)
  PROVE  IInv'
<1>1. /\ held[p] # NoRequest /\ blocks[p] # Untracked /\ ~blocks[p].cached
      /\ blocks[p] \in Block /\ enabled
  BY DEF IInv, Shape, Ledger, ReleaseBlock
<1>2. /\ held' = [held EXCEPT ![p] = NoRequest] /\ pending' = pending /\ enabled' = enabled
      /\ held'[p] = NoRequest
      /\ \A q \in Addresses : q # p => held'[q] = held[q]
  BY <1>1 DEF ReleaseBlock, IInv, Shape, config
<1>3. \A i \in 1..Len(cache) : cache[i].ptr # p /\ cache[i].ptr \in Addresses
  BY <1>1, EntryType DEF IInv, Shape, Ledger
<1>4. CASE Retains(blocks[p].size, liveBytes')
  <2> DEFINE e == [ptr |-> p, size |-> blocks[p].size, alignment |-> blocks[p].alignment]
             b == [blocks[p] EXCEPT !.cached = TRUE]
  <2>1. /\ blocks' = [blocks EXCEPT ![p] = b] /\ cache' = Append(cache, e) /\ heap' = heap
    BY <1>1, <1>4 DEF ReleaseBlock
  <2>2. e \in Entry /\ b \in Block /\ b.cached /\ b.size = blocks[p].size
        /\ b.alignment = blocks[p].alignment
    BY <1>1 DEF Entry, Block
  <2>3. b # Untracked
    BY <2>2, BlockAssumption
  <2>4. /\ Len(cache') = Len(cache) + 1 /\ cache'[Len(cache) + 1] = e /\ Len(cache) \in Nat
        /\ \A i \in 1..Len(cache) : cache'[i] = cache[i]
        /\ cache' \in Seq(Entry)
    BY <2>1, <2>2 DEF IInv, Shape
  <2>5. /\ blocks'[p] = b /\ \A q \in Addresses : q # p => blocks'[q] = blocks[q]
    BY <2>1 DEF IInv, Shape
  <2>6. Shape'
    BY <2>1, <2>2, <2>4, <1>2 DEF IInv, Shape
  <2>7. \A q \in Addresses : held'[q] # NoRequest =>
          /\ heap'[q] # NoRequest
          /\ heap'[q].size >= held'[q].size /\ heap'[q].alignment >= held'[q].alignment
          /\ blocks'[q] # Untracked => ~blocks'[q].cached
    BY <1>2, <2>1, <2>5 DEF IInv, Ledger
  <2>8. \A q \in Addresses : blocks'[q] # Untracked =>
          /\ enabled' /\ heap'[q] # NoRequest
          /\ blocks'[q].size = heap'[q].size /\ blocks'[q].alignment = heap'[q].alignment
    BY <1>1, <1>2, <2>1, <2>2, <2>5 DEF IInv, Ledger
  <2>9. \A i \in 1..Len(cache') :
          /\ blocks'[cache'[i].ptr] # Untracked /\ blocks'[cache'[i].ptr].cached
          /\ cache'[i].size = heap'[cache'[i].ptr].size
          /\ cache'[i].alignment = heap'[cache'[i].ptr].alignment
    <3> SUFFICES ASSUME NEW i \in 1..Len(cache')
                 PROVE  /\ blocks'[cache'[i].ptr] # Untracked /\ blocks'[cache'[i].ptr].cached
                        /\ cache'[i].size = heap'[cache'[i].ptr].size
                        /\ cache'[i].alignment = heap'[cache'[i].ptr].alignment
      OBVIOUS
    <3>1. CASE i = Len(cache) + 1
      <4>1. e.ptr = p /\ e.size = heap[p].size /\ e.alignment = heap[p].alignment
        BY <1>1 DEF IInv, Ledger
      <4>2. cache'[i] = e /\ heap' = heap /\ blocks'[p] = b
        BY <3>1, <2>1, <2>4, <2>5
      <4> HIDE DEF e, b
      <4> QED BY <4>1, <4>2, <2>2, <2>3
    <3>2. CASE i \in 1..Len(cache)
      BY <3>2, <1>3, <2>1, <2>4, <2>5 DEF IInv, Ledger
    <3> QED BY <3>1, <3>2, <2>4
  <2>10. \A i, j \in 1..Len(cache') : i # j => cache'[i].ptr # cache'[j].ptr
    <3> SUFFICES ASSUME NEW i \in 1..Len(cache'), NEW j \in 1..Len(cache'), i # j
                 PROVE  cache'[i].ptr # cache'[j].ptr
      OBVIOUS
    <3>1. e.ptr = p
      OBVIOUS
    <3>2. CASE i \in 1..Len(cache) /\ j \in 1..Len(cache)
      BY <3>2, <2>4 DEF IInv, Ledger
    <3>3. CASE i = Len(cache) + 1 /\ j \in 1..Len(cache)
      BY <3>1, <3>3, <2>4, <1>3
    <3>4. CASE i \in 1..Len(cache) /\ j = Len(cache) + 1
      BY <3>1, <3>4, <2>4, <1>3
    <3> QED BY <3>2, <3>3, <3>4, <2>4
  <2> QED BY <1>2, <2>6, <2>7, <2>8, <2>9, <2>10 DEF IInv, Ledger
<1>5. CASE ~Retains(blocks[p].size, liveBytes')
  <2>1. /\ blocks' = [blocks EXCEPT ![p] = Untracked] /\ heap' = [heap EXCEPT ![p] = NoRequest]
        /\ cache' = cache
    BY <1>1, <1>5 DEF ReleaseBlock
  <2>2. Shape'
    BY <2>1, <1>2 DEF IInv, Shape
  <2>3. /\ blocks'[p] = Untracked
        /\ \A q \in Addresses : q # p => blocks'[q] = blocks[q] /\ heap'[q] = heap[q]
    BY <2>1 DEF IInv, Shape
  <2>4. Ledger'
    BY <1>2, <1>3, <2>1, <2>3 DEF IInv, Ledger
  <2> QED BY <2>2, <2>4 DEF IInv
<1> QED BY <1>4, <1>5

\* Every step of the pool keeps the ledger.
LEMMA NextIInv == IInv /\ [Next]_vars => IInv'
<1> SUFFICES ASSUME IInv, [Next]_vars PROVE IInv'
  OBVIOUS
<1>1. CASE AllocateCall
  <2>1. CASE \E r \in Request, p \in Addresses : AllocateRaw(r, p)
    BY <2>1, AllocateRawStep
  <2>2. CASE \E r \in Request : \E i \in 1..Len(cache) : Hit(r, i)
    BY <2>2, HitStep
  <2>3. CASE \E r \in Request : Miss(r)
    BY <2>3 DEF Miss, Pooled, IInv, Shape, Ledger, config
  <2> QED BY <1>1, <2>1, <2>2, <2>3 DEF AllocateCall
<1>2. CASE EvictBack
  BY <1>2, EvictStep
<1>3. CASE \E p \in Addresses : AllocateNew(p)
  BY <1>3, AllocateNewStep
<1>4. CASE ReleaseCall
  BY <1>4, ReleaseRawStep, ReleaseBlockStep DEF ReleaseCall
<1>5. CASE OutOfMemory \/ UNCHANGED vars
  BY <1>5 DEF OutOfMemory, poolVars, vars, config, IInv, Shape, Ledger
<1> QED BY <1>1, <1>2, <1>3, <1>4, <1>5 DEF Next

LEMMA Inductive == Spec => []IInv
BY InitIInv, NextIInv, PTL DEF Spec

-----------------------------------------------------------------------------
(***************************************************************************)
(* The books.                                                              *)
(***************************************************************************)

\* A block marked as cached is in the list.  With Ledger, the list is empty only
\* if no byte is kept, which is how the eviction loop ends.
Listed ==
  \A p \in Addresses : blocks[p] # Untracked /\ blocks[p].cached =>
    \E i \in 1..Len(cache) : cache[i].ptr = p

Counts ==
  /\ limit \in Nat /\ liveBytes \in Nat /\ cachedBytes \in Nat /\ peakLiveBytes \in Nat
  /\ liveBytes <= peakLiveBytes

Books == Listed /\ Counts /\ Accounting /\ Retention /\ aborted \in BOOLEAN

\* The bytes of one block.
LEMMA Weights ==
  ASSUME NEW bs \in [Addresses -> Block \cup {Untracked}]
  PROVE  /\ InUse(bs) \in [Addresses -> Nat] /\ Kept(bs) \in [Addresses -> Nat]
         /\ \A p \in Addresses :
              /\ InUse(bs)[p] = IF bs[p] # Untracked /\ ~bs[p].cached THEN bs[p].size ELSE 0
              /\ Kept(bs)[p] = IF bs[p] # Untracked /\ bs[p].cached THEN bs[p].size ELSE 0
<1>1. \A p \in Addresses : bs[p] # Untracked => bs[p].size \in Nat
  BY PoolAssumption DEF Block
<1> QED BY <1>1 DEF InUse, Kept

\* One block changes.
LEMMA BlockChange ==
  ASSUME Shape, Accounting, NEW p \in Addresses, NEW b \in Block \cup {Untracked},
         blocks' = [blocks EXCEPT ![p] = b]
  PROVE  /\ SumFunction(InUse(blocks')) \in Nat /\ SumFunction(Kept(blocks')) \in Nat
         /\ SumFunction(InUse(blocks')) = liveBytes - InUse(blocks)[p] + InUse(blocks')[p]
         /\ SumFunction(Kept(blocks')) = cachedBytes - Kept(blocks)[p] + Kept(blocks')[p]
<1>1. /\ blocks \in [Addresses -> Block \cup {Untracked}]
      /\ blocks' \in [Addresses -> Block \cup {Untracked}]
      /\ \A q \in Addresses \ {p} : blocks'[q] = blocks[q]
  BY DEF Shape
<1>2. \A q \in Addresses \ {p} :
        InUse(blocks')[q] = InUse(blocks)[q] /\ Kept(blocks')[q] = Kept(blocks)[q]
  BY <1>1 DEF InUse, Kept
<1>3. /\ InUse(blocks) \in [Addresses -> Nat] /\ Kept(blocks) \in [Addresses -> Nat]
      /\ InUse(blocks') \in [Addresses -> Nat] /\ Kept(blocks') \in [Addresses -> Nat]
  BY <1>1, Weights
<1> DEFINE used == InUse(blocks)
           usedNext == InUse(blocks')
           kept == Kept(blocks)
           keptNext == Kept(blocks')
<1>4. IsFiniteSet(Addresses)
  BY PoolAssumption
<1> HIDE DEF used, usedNext, kept, keptNext
<1>5. /\ SumFunction(usedNext) \in Nat
      /\ SumFunction(usedNext) = SumFunction(used) - used[p] + usedNext[p]
  <2>1. used \in [Addresses -> Nat] /\ usedNext \in [Addresses -> Nat]
    BY <1>3 DEF used, usedNext
  <2>2. \A q \in Addresses \ {p} : usedNext[q] = used[q]
    BY <1>2 DEF used, usedNext
  <2> QED BY <2>1, <2>2, <1>4, SumChange
<1>6. /\ SumFunction(keptNext) \in Nat
      /\ SumFunction(keptNext) = SumFunction(kept) - kept[p] + keptNext[p]
  <2>1. kept \in [Addresses -> Nat] /\ keptNext \in [Addresses -> Nat]
    BY <1>3 DEF kept, keptNext
  <2>2. \A q \in Addresses \ {p} : keptNext[q] = kept[q]
    BY <1>2 DEF kept, keptNext
  <2> QED BY <2>1, <2>2, <1>4, SumChange
<1> QED BY <1>5, <1>6 DEF Accounting, used, usedNext, kept, keptNext

\* A bound that takes the larger grows with what it is taken from.
LEMMA LargerGrows ==
  ASSUME NEW k \in Nat, NEW m \in Nat, NEW n \in Nat, m <= n
  PROVE  Larger(k, m) \in Nat /\ Larger(k, n) \in Nat /\ Larger(k, m) <= Larger(k, n)
BY DEF Larger

\* The empty pool.
LEMMA InitBooks == Init => Books
<1> SUFFICES ASSUME Init PROVE Books
  OBVIOUS
<1>1. blocks \in [Addresses -> Block \cup {Untracked}] /\ \A p \in Addresses : blocks[p] = Untracked
  BY DEF Init
<1>2. /\ InUse(blocks) \in [Addresses -> Nat] /\ Kept(blocks) \in [Addresses -> Nat]
      /\ \A p \in Addresses : InUse(blocks)[p] = 0 /\ Kept(blocks)[p] = 0
  BY <1>1, Weights
<1>3. SumFunction(InUse(blocks)) = 0 /\ SumFunction(Kept(blocks)) = 0
  BY <1>2, SumOfZeros, PoolAssumption
<1>4. Listed
  BY <1>1 DEF Listed
<1>5. limit \in Nat
  <2>1. limit = 0 \/ limit \in Limits
    BY DEF Init
  <2>2. CASE limit = 0
    BY <2>2
  <2>3. CASE limit \in Limits
    BY <2>3, PoolAssumption
  <2> QED BY <2>1, <2>2, <2>3
<1>6. liveBytes = 0 /\ cachedBytes = 0 /\ peakLiveBytes = 0
  BY DEF Init
<1>10. aborted \in BOOLEAN
  BY DEF Init
<1>7. Accounting
  BY <1>3, <1>6 DEF Accounting
<1>8. Counts
  <2>1. liveBytes <= peakLiveBytes
    BY <1>6
  <2>2. liveBytes \in Nat /\ cachedBytes \in Nat /\ peakLiveBytes \in Nat
    BY <1>6
  <2> QED BY <1>5, <2>1, <2>2 DEF Counts
<1>9. Retention
  <2>1. CASE limit = 0
    BY <2>1, <1>6 DEF Retention
  <2>2. CASE limit # 0
    BY <2>2, <1>5, <1>6 DEF Retention, Larger
  <2> QED BY <2>1, <2>2
<1> QED BY <1>4, <1>7, <1>8, <1>9, <1>10 DEF Books

\* A request answered from the cache moves its bytes from one count to the other.
LEMMA HitBooks ==
  ASSUME IInv, Books, NEW r \in Request, NEW i \in 1..Len(cache), Hit(r, i)
  PROVE  Books'
<1> DEFINE e == cache[i]
           b == [blocks[e.ptr] EXCEPT !.cached = FALSE]
<1>1. e \in Entry /\ e.ptr \in Addresses /\ cache \in Seq(Entry) /\ e.size \in Nat
  BY EntryType DEF IInv, Shape
<1>2. /\ blocks[e.ptr] \in Block /\ blocks[e.ptr].cached /\ blocks[e.ptr] # Untracked
      /\ blocks[e.ptr].size = e.size
  BY <1>1 DEF IInv, Shape, Ledger
<1>3. b \in Block /\ ~b.cached /\ b.size = e.size /\ b # Untracked
  BY <1>2, BlockAssumption DEF Block
<1>4. blocks' = [blocks EXCEPT ![e.ptr] = b] /\ r.size = e.size
  BY DEF Hit, Matches, Suits
<1>5. /\ blocks \in [Addresses -> Block \cup {Untracked}]
      /\ blocks' \in [Addresses -> Block \cup {Untracked}]
      /\ blocks'[e.ptr] = b /\ \A q \in Addresses : q # e.ptr => blocks'[q] = blocks[q]
  BY <1>1, <1>3, <1>4 DEF IInv, Shape
<1> HIDE DEF b
<1>6. /\ InUse(blocks)[e.ptr] = 0 /\ Kept(blocks)[e.ptr] = e.size
      /\ InUse(blocks')[e.ptr] = e.size /\ Kept(blocks')[e.ptr] = 0
  BY <1>1, <1>2, <1>3, <1>5, Weights
<1>7. /\ SumFunction(InUse(blocks')) \in Nat /\ SumFunction(Kept(blocks')) \in Nat
      /\ SumFunction(InUse(blocks')) = liveBytes + e.size
      /\ SumFunction(Kept(blocks')) = cachedBytes - e.size
  <2>1. /\ SumFunction(InUse(blocks')) \in Nat /\ SumFunction(Kept(blocks')) \in Nat
        /\ SumFunction(InUse(blocks')) = liveBytes - 0 + e.size
        /\ SumFunction(Kept(blocks')) = cachedBytes - e.size + 0
    BY <1>1, <1>3, <1>4, <1>6, BlockChange DEF IInv, Books
  <2> HIDE DEF e
  <2> QED BY <2>1, <1>1 DEF Books, Counts
<1>8. /\ liveBytes' = liveBytes + e.size /\ cachedBytes' = cachedBytes - e.size
      /\ peakLiveBytes' = Larger(peakLiveBytes, liveBytes') /\ limit' = limit
  BY <1>4 DEF Hit, Live, config
<1>12. limit \in Nat /\ liveBytes \in Nat /\ cachedBytes \in Nat
  BY DEF Books, Counts
<1>9. Accounting' /\ Counts' /\ Retention'
  <2> HIDE DEF e
  <2>1. liveBytes' \in Nat /\ cachedBytes' \in Nat
    BY <1>7, <1>8
  <2>7. Accounting'
    BY <1>7, <1>8 DEF Accounting
  <2>2. /\ limit \in Nat /\ liveBytes \in Nat /\ cachedBytes \in Nat /\ peakLiveBytes \in Nat
        /\ liveBytes + cachedBytes <= IF limit = 0 THEN peakLiveBytes ELSE Larger(limit, liveBytes)
    BY DEF Books, Counts, Retention
  <2>3. Counts'
    BY <1>8, <2>1, <2>2 DEF Counts, Larger
  <2>4. liveBytes' + cachedBytes' = liveBytes + cachedBytes
    BY <1>1, <1>8, <2>2
  <2>5. limit' = limit /\ peakLiveBytes' >= peakLiveBytes /\ liveBytes' >= liveBytes
    BY <1>1, <1>8, <2>1, <2>2 DEF Larger
  <2>6. Retention'
    <3>1. peakLiveBytes' \in Nat
      BY <2>3 DEF Counts
    <3>2. CASE limit = 0
      <4>1. liveBytes + cachedBytes <= peakLiveBytes
        BY <3>2, <2>2
      <4>2. liveBytes' + cachedBytes' <= peakLiveBytes'
        BY <4>1, <3>1, <2>4, <2>5, <2>2
      <4> QED BY <4>2, <3>2, <2>5 DEF Retention
    <3>3. CASE limit # 0
      <4>1. liveBytes + cachedBytes <= Larger(limit, liveBytes)
        BY <3>3, <2>2
      <4>2. liveBytes' + cachedBytes' <= Larger(limit, liveBytes')
        <5>1. /\ Larger(limit, liveBytes) \in Nat /\ Larger(limit, liveBytes') \in Nat
              /\ Larger(limit, liveBytes) <= Larger(limit, liveBytes')
          BY <1>12, <2>1, <2>5, LargerGrows
        <5> QED BY <5>1, <4>1, <2>4, <1>12
      <4> QED BY <4>2, <3>3, <2>5 DEF Retention
    <3> QED BY <3>2, <3>3
  <2> QED BY <2>3, <2>6, <2>7
<1>10. Listed'
  <2> SUFFICES ASSUME NEW q \in Addresses, blocks'[q] # Untracked, blocks'[q].cached
               PROVE  \E k \in 1..Len(cache') : cache'[k].ptr = q
    BY DEF Listed
  <2>1. q # e.ptr
    BY <1>3, <1>5
  <2>2. PICK k \in 1..Len(cache) : cache[k].ptr = q
    BY <2>1, <1>5 DEF Books, Listed
  <2>3. k # i
    BY <2>1, <2>2
  <2>4. /\ Len(cache') = Len(cache) - 1 /\ Len(cache) \in Nat
        /\ \A j \in 1..Len(cache') : cache'[j] = IF j = i THEN cache[Len(cache)] ELSE cache[j]
    BY <1>1, WithoutEntries DEF Hit
  <2>5. CASE k = Len(cache)
    BY <2>2, <2>3, <2>4, <2>5
  <2>6. CASE k # Len(cache)
    BY <2>2, <2>3, <2>4, <2>6
  <2> QED BY <2>5, <2>6
<1>11. aborted' \in BOOLEAN
  BY DEF Books, Hit
<1> QED BY <1>9, <1>10, <1>11 DEF Books

\* An evicted block was counted as kept.
LEMMA EvictBooks ==
  ASSUME IInv, Books, EvictBack
  PROVE  Books'
<1> DEFINE e == cache[Len(cache)]
<1>1. /\ cache \in Seq(Entry) /\ cache # <<>> /\ Len(cache) \in 1..Len(cache)
      /\ e \in Entry /\ e.ptr \in Addresses /\ e.size \in Nat
  BY PoppedEntries, EntryType DEF IInv, Shape, EvictBack
<1>2. /\ blocks[e.ptr] \in Block /\ blocks[e.ptr].cached /\ blocks[e.ptr] # Untracked
      /\ blocks[e.ptr].size = e.size
  BY <1>1 DEF IInv, Shape, Ledger
<1>3. /\ blocks' = [blocks EXCEPT ![e.ptr] = Untracked]
      /\ cachedBytes' = cachedBytes - e.size /\ liveBytes' = liveBytes
      /\ peakLiveBytes' = peakLiveBytes /\ limit' = limit
  BY DEF EvictBack, config
<1>4. /\ blocks \in [Addresses -> Block \cup {Untracked}]
      /\ blocks' \in [Addresses -> Block \cup {Untracked}]
      /\ blocks'[e.ptr] = Untracked /\ \A q \in Addresses : q # e.ptr => blocks'[q] = blocks[q]
  BY <1>1, <1>3 DEF IInv, Shape
<1>5. /\ InUse(blocks)[e.ptr] = 0 /\ Kept(blocks)[e.ptr] = e.size
      /\ InUse(blocks')[e.ptr] = 0 /\ Kept(blocks')[e.ptr] = 0
  BY <1>1, <1>2, <1>4, Weights
<1>6. /\ SumFunction(InUse(blocks')) \in Nat /\ SumFunction(Kept(blocks')) \in Nat
      /\ SumFunction(InUse(blocks')) = liveBytes /\ SumFunction(Kept(blocks')) = cachedBytes - e.size
  <2>1. /\ SumFunction(InUse(blocks')) \in Nat /\ SumFunction(Kept(blocks')) \in Nat
        /\ SumFunction(InUse(blocks')) = liveBytes - 0 + 0
        /\ SumFunction(Kept(blocks')) = cachedBytes - e.size + 0
    BY <1>1, <1>3, <1>5, BlockChange DEF IInv, Books
  <2> HIDE DEF e
  <2> QED BY <2>1, <1>1 DEF Books, Counts
<1>7. Accounting' /\ Counts' /\ Retention'
  <2> HIDE DEF e
  <2>1. Accounting' /\ cachedBytes' \in Nat
    BY <1>3, <1>6 DEF Accounting
  <2>2. Counts'
    BY <1>3, <2>1 DEF Books, Counts
  <2>3. Retention'
    BY <1>1, <1>3, <2>1 DEF Books, Counts, Retention, Larger
  <2> QED BY <2>1, <2>2, <2>3
<1>8. Listed'
  <2> SUFFICES ASSUME NEW q \in Addresses, blocks'[q] # Untracked, blocks'[q].cached
               PROVE  \E k \in 1..Len(cache') : cache'[k].ptr = q
    BY DEF Listed
  <2>1. q # e.ptr
    BY <1>4
  <2>2. PICK k \in 1..Len(cache) : cache[k].ptr = q
    BY <2>1, <1>4 DEF Books, Listed
  <2>3. k \in 1..(Len(cache) - 1)
    BY <2>1, <2>2, <1>1
  <2>4. Len(cache') = Len(cache) - 1 /\ \A j \in 1..(Len(cache) - 1) : cache'[j] = cache[j]
    BY <1>1, PoppedEntries DEF EvictBack
  <2> QED BY <2>2, <2>3, <2>4
<1>9. aborted' \in BOOLEAN
  BY DEF Books, EvictBack
<1> QED BY <1>7, <1>8, <1>9 DEF Books

\* Without a byte in the list, no byte is kept.
LEMMA EmptyCache ==
  ASSUME IInv, Books, cache = <<>>
  PROVE  cachedBytes = 0
<1>1. \A p \in Addresses : ~(blocks[p] # Untracked /\ blocks[p].cached)
  BY DEF Books, Listed
<1>2. Kept(blocks) \in [Addresses -> Nat] /\ \A p \in Addresses : Kept(blocks)[p] = 0
  BY <1>1, Weights DEF IInv, Shape
<1> QED BY <1>2, SumOfZeros, PoolAssumption DEF Books, Accounting

\* A block from libc comes to the bytes in use; the eviction has made room.
LEMMA AllocateNewBooks ==
  ASSUME IInv, Books, NEW p \in Addresses, AllocateNew(p)
  PROVE  Books'
<1> DEFINE b == [size |-> pending.size, alignment |-> pending.alignment, cached |-> FALSE]
           n == pending.size
<1>1. pending \in Request /\ n \in Nat
  BY RequestType DEF IInv, Shape, AllocateNew
<1>2. b \in Block /\ ~b.cached /\ b.size = n /\ b # Untracked
  <2>1. pending.size \in Sizes /\ pending.alignment \in Alignments
    BY <1>1 DEF Request
  <2>2. b \in Block
    BY <2>1 DEF Block
  <2>3. b # Untracked
    BY <2>2, BlockAssumption
  <2> QED BY <2>2, <2>3
<1>3. /\ blocks' = [blocks EXCEPT ![p] = b] /\ cache' = cache
      /\ liveBytes' = liveBytes + n /\ cachedBytes' = cachedBytes
      /\ peakLiveBytes' = Larger(peakLiveBytes, liveBytes') /\ limit' = limit
      /\ heap[p] = NoRequest /\ (cache = <<>> \/ Fits(n))
  BY DEF AllocateNew, Live, config
<1>4. blocks[p] = Untracked
  BY <1>3 DEF IInv, Ledger
<1> HIDE DEF b
<1>5. /\ blocks \in [Addresses -> Block \cup {Untracked}]
      /\ blocks' \in [Addresses -> Block \cup {Untracked}]
      /\ blocks'[p] = b /\ \A q \in Addresses : q # p => blocks'[q] = blocks[q]
  BY <1>2, <1>3 DEF IInv, Shape
<1>6. /\ InUse(blocks)[p] = 0 /\ Kept(blocks)[p] = 0
      /\ InUse(blocks')[p] = n /\ Kept(blocks')[p] = 0
  BY <1>2, <1>4, <1>5, Weights
<1> HIDE DEF n
<1>7. /\ SumFunction(InUse(blocks')) \in Nat /\ SumFunction(Kept(blocks')) \in Nat
      /\ SumFunction(InUse(blocks')) = liveBytes + n /\ SumFunction(Kept(blocks')) = cachedBytes
  <2>1. /\ SumFunction(InUse(blocks')) \in Nat /\ SumFunction(Kept(blocks')) \in Nat
        /\ SumFunction(InUse(blocks')) = liveBytes - 0 + n
        /\ SumFunction(Kept(blocks')) = cachedBytes - 0 + 0
    BY <1>2, <1>3, <1>6, BlockChange DEF IInv, Books
  <2> QED BY <2>1, <1>1 DEF Books, Counts
<1>8. /\ limit \in Nat /\ liveBytes \in Nat /\ cachedBytes \in Nat /\ peakLiveBytes \in Nat
      /\ liveBytes + cachedBytes <= IF limit = 0 THEN peakLiveBytes ELSE Larger(limit, liveBytes)
  BY DEF Books, Counts, Retention
<1>9. Accounting' /\ Counts'
  <2>1. Accounting' /\ liveBytes' \in Nat
    BY <1>3, <1>7 DEF Accounting
  <2> QED BY <1>3, <1>8, <2>1 DEF Counts, Larger
<1>10. Retention'
  <2>1. CASE cache = <<>>
    <3>1. cachedBytes = 0
      BY <2>1, EmptyCache
    <3> QED BY <3>1, <1>1, <1>3, <1>8 DEF Retention, Larger
  <2>2. CASE Fits(n)
    BY <2>2, <1>1, <1>3, <1>8 DEF Fits, Retention, Larger
  <2> QED BY <2>1, <2>2, <1>3
<1>11. Listed'
  BY <1>2, <1>3, <1>5 DEF Books, Listed
<1>12. aborted' \in BOOLEAN
  BY DEF Books, AllocateNew
<1> QED BY <1>9, <1>10, <1>11, <1>12 DEF Books

\* A block that comes back goes to the bytes kept, or out of the books.
LEMMA ReleaseBlockBooks ==
  ASSUME IInv, Books, NEW p \in Addresses, ReleaseBlock(p)
  PROVE  Books'
<1> DEFINE n == blocks[p].size
<1>1. /\ blocks[p] # Untracked /\ ~blocks[p].cached /\ blocks[p] \in Block /\ n \in Nat
  BY PoolAssumption DEF IInv, Shape, Ledger, ReleaseBlock, Block
<1>2. /\ liveBytes' = liveBytes - n /\ peakLiveBytes' = peakLiveBytes
      /\ limit' = limit
  BY <1>1 DEF ReleaseBlock, config
<1>8. aborted' \in BOOLEAN
  BY <1>1 DEF ReleaseBlock, Block
<1>3. blocks \in [Addresses -> Block \cup {Untracked}] /\ cache \in Seq(Entry)
  BY DEF IInv, Shape
<1>4. InUse(blocks)[p] = n /\ Kept(blocks)[p] = 0
  BY <1>1, <1>3, Weights
<1>5. /\ limit \in Nat /\ liveBytes \in Nat /\ cachedBytes \in Nat /\ peakLiveBytes \in Nat
      /\ liveBytes <= peakLiveBytes
      /\ liveBytes + cachedBytes <= IF limit = 0 THEN peakLiveBytes ELSE Larger(limit, liveBytes)
  BY DEF Books, Counts, Retention
<1>6. CASE Retains(n, liveBytes')
  <2> DEFINE e == [ptr |-> p, size |-> n, alignment |-> blocks[p].alignment]
             b == [blocks[p] EXCEPT !.cached = TRUE]
  <2>1. /\ blocks' = [blocks EXCEPT ![p] = b] /\ cache' = Append(cache, e)
        /\ cachedBytes' = cachedBytes + n
    BY <1>1, <1>6 DEF ReleaseBlock
  <2>2. b \in Block /\ b.cached /\ b.size = n /\ b # Untracked /\ e \in Entry /\ e.ptr = p
    BY <1>1, BlockAssumption DEF Block, Entry
  <2> HIDE DEF b, e
  <2>3. /\ blocks' \in [Addresses -> Block \cup {Untracked}]
        /\ blocks'[p] = b /\ \A q \in Addresses : q # p => blocks'[q] = blocks[q]
    BY <1>3, <2>1, <2>2
  <2>4. InUse(blocks')[p] = 0 /\ Kept(blocks')[p] = n
    BY <2>2, <2>3, Weights
  <2> HIDE DEF n
  <2>5. /\ SumFunction(InUse(blocks')) \in Nat /\ SumFunction(Kept(blocks')) \in Nat
        /\ SumFunction(InUse(blocks')) = liveBytes - n
        /\ SumFunction(Kept(blocks')) = cachedBytes + n
    <3>1. /\ SumFunction(InUse(blocks')) \in Nat /\ SumFunction(Kept(blocks')) \in Nat
          /\ SumFunction(InUse(blocks')) = liveBytes - n + 0
          /\ SumFunction(Kept(blocks')) = cachedBytes - 0 + n
      BY <1>4, <2>1, <2>2, <2>4, BlockChange DEF IInv, Books
    <3> QED BY <3>1, <1>1, <1>5
  <2>6. Accounting' /\ liveBytes' \in Nat /\ cachedBytes' \in Nat
    BY <1>2, <2>1, <2>5 DEF Accounting
  <2>7. Counts'
    BY <1>1, <1>2, <1>5, <2>6 DEF Counts
  <2>8. Retention'
    BY <1>1, <1>2, <1>5, <1>6, <2>1, <2>6 DEF Retains, Retention, Larger
  <2>9. Listed'
    <3>1. /\ Len(cache') = Len(cache) + 1 /\ Len(cache) \in Nat /\ cache'[Len(cache) + 1] = e
          /\ \A i \in 1..Len(cache) : cache'[i] = cache[i]
      BY <1>3, <2>1, <2>2
    <3> SUFFICES ASSUME NEW q \in Addresses, blocks'[q] # Untracked, blocks'[q].cached
                 PROVE  \E k \in 1..Len(cache') : cache'[k].ptr = q
      BY DEF Listed
    <3>2. CASE q = p
      <4>1. Len(cache) + 1 \in 1..Len(cache')
        BY <3>1
      <4> QED BY <4>1, <3>1, <3>2, <2>2
    <3>3. CASE q # p
      <4>1. PICK k \in 1..Len(cache) : cache[k].ptr = q
        BY <3>3, <2>3 DEF Books, Listed
      <4>2. k \in 1..Len(cache') /\ cache'[k] = cache[k]
        BY <3>1
      <4> QED BY <4>1, <4>2
    <3> QED BY <3>2, <3>3
  <2> QED BY <1>8, <2>6, <2>7, <2>8, <2>9 DEF Books
<1>7. CASE ~Retains(n, liveBytes')
  <2>1. /\ blocks' = [blocks EXCEPT ![p] = Untracked] /\ cache' = cache
        /\ cachedBytes' = cachedBytes
    BY <1>1, <1>7 DEF ReleaseBlock
  <2>2. /\ blocks' \in [Addresses -> Block \cup {Untracked}]
        /\ blocks'[p] = Untracked /\ \A q \in Addresses : q # p => blocks'[q] = blocks[q]
    BY <1>3, <2>1
  <2>3. InUse(blocks')[p] = 0 /\ Kept(blocks')[p] = 0
    BY <2>2, Weights
  <2> HIDE DEF n
  <2>4. /\ SumFunction(InUse(blocks')) \in Nat
        /\ SumFunction(InUse(blocks')) = liveBytes - n
        /\ SumFunction(Kept(blocks')) = cachedBytes
    <3>1. /\ SumFunction(InUse(blocks')) \in Nat
          /\ SumFunction(InUse(blocks')) = liveBytes - n + 0
          /\ SumFunction(Kept(blocks')) = cachedBytes - 0 + 0
      BY <1>4, <2>1, <2>3, BlockChange DEF IInv, Books
    <3> QED BY <3>1, <1>1, <1>5
  <2>5. Accounting' /\ liveBytes' \in Nat
    BY <1>2, <2>1, <2>4 DEF Accounting
  <2>6. Counts'
    BY <1>1, <1>2, <1>5, <2>1, <2>5 DEF Counts
  <2>7. Retention'
    BY <1>1, <1>2, <1>5, <2>1, <2>5 DEF Retention, Larger
  <2>8. Listed'
    BY <2>1, <2>2 DEF Books, Listed
  <2> QED BY <1>8, <2>5, <2>6, <2>7, <2>8 DEF Books
<1> QED BY <1>6, <1>7

\* What stays with libc is not in the books.
LEMMA NextBooks == IInv /\ Books /\ [Next]_vars => Books'
<1> SUFFICES ASSUME IInv, Books, [Next]_vars PROVE Books'
  OBVIOUS
<1> DEFINE same == /\ blocks' = blocks /\ cache' = cache /\ limit' = limit
                   /\ liveBytes' = liveBytes /\ cachedBytes' = cachedBytes
                   /\ peakLiveBytes' = peakLiveBytes
<1>1. ASSUME same, aborted' \in BOOLEAN PROVE Books'
  BY <1>1 DEF Books, Listed, Counts, Accounting, Retention
<1>2. aborted \in BOOLEAN
  BY DEF Books
<1>3. CASE AllocateCall
  <2>1. CASE \E r \in Request, p \in Addresses : AllocateRaw(r, p)
    BY <2>1, <1>1, <1>2 DEF AllocateRaw, poolVars, config
  <2>2. CASE \E r \in Request : \E i \in 1..Len(cache) : Hit(r, i)
    BY <2>2, HitBooks
  <2>3. CASE \E r \in Request : Miss(r)
    BY <2>3, <1>1, <1>2 DEF Miss, config
  <2> QED BY <1>3, <2>1, <2>2, <2>3 DEF AllocateCall
<1>4. CASE EvictBack
  BY <1>4, EvictBooks
<1>5. CASE \E p \in Addresses : AllocateNew(p)
  BY <1>5, AllocateNewBooks
<1>6. CASE ReleaseCall
  <2>1. CASE \E p \in Addresses : ReleaseRaw(p)
    BY <2>1, <1>1, <1>2 DEF ReleaseRaw, poolVars, config
  <2>2. CASE \E p \in Addresses : ReleaseBlock(p)
    BY <2>2, ReleaseBlockBooks
  <2> QED BY <1>6, <2>1, <2>2 DEF ReleaseCall
<1>7. CASE OutOfMemory
  BY <1>7, <1>1 DEF OutOfMemory, poolVars, config
<1>8. CASE UNCHANGED vars
  BY <1>8, <1>1, <1>2 DEF vars
<1> QED BY <1>3, <1>4, <1>5, <1>6, <1>7, <1>8 DEF Next

LEMMA InductiveBooks == Spec => []Books
BY InitBooks, NextBooks, Inductive, PTL DEF Spec

-----------------------------------------------------------------------------
(***************************************************************************)
(* What the pool promises.                                                 *)
(***************************************************************************)

\* No block has two owners: not two kernels, not a kernel and the cache, not a
\* kernel or the cache and libc; and a first release is never taken for a second.
THEOREM OneOwner == Spec => []Ownership
<1>1. IInv => Ownership
  <2> SUFFICES ASSUME IInv PROVE Ownership
    OBVIOUS
  <2>1. \A i \in 1..Len(cache) : cache[i].ptr \in Addresses
    BY EntryType DEF IInv, Shape
  <2> QED BY <2>1 DEF IInv, Ledger, Ownership
<1> QED BY <1>1, Inductive, PTL

\* A reused block is large enough and aligned for its new request.
THEOREM ReuseFits == Spec => []GoodFit
<1>1. IInv => GoodFit
  BY DEF IInv, Ledger, GoodFit
<1> QED BY <1>1, Inductive, PTL

\* Every variable has its shape.  The two byte counts are natural numbers: the
\* subtractions of allocate, evictCachedToFit and release (size_t) never wrap.
THEOREM CountsNeverWrap == Spec => []TypeOK
<1>1. IInv /\ Books => TypeOK
  BY DEF IInv, Shape, Books, Counts, TypeOK
<1> QED BY <1>1, Inductive, InductiveBooks, PTL

\* The two byte counts are the bytes of the blocks in use and kept, and what the
\* pool holds stays within its bound, whatever is allocated and released.
THEOREM BooksBalance == Spec => []Bookkeeping
<1>1. Books => Bookkeeping
  BY DEF Books, Bookkeeping
<1> QED BY <1>1, InductiveBooks, PTL

\* Seen from the kernels, reuse cannot be told from malloc and free.
THEOREM PoolImplementsAllocator == Spec => ImplementsAllocator
<1>1. Init => AL!Init
  BY DEF Init, AL!Init
<1>2. IInv /\ [Next]_vars => [AL!Next]_held
  <2> SUFFICES ASSUME IInv, [Next]_vars PROVE AL!Next \/ held' = held
    OBVIOUS
  <2>1. ASSUME NEW r \in Request, NEW p \in Addresses, AllocateRaw(r, p) PROVE AL!Next
    <3>1. held[p] = NoRequest
      BY <2>1 DEF IInv, Ledger, AllocateRaw
    <3> QED BY <2>1, <3>1 DEF AllocateRaw, AL!Next, AL!Allocate
  <2>2. ASSUME NEW r \in Request, NEW i \in 1..Len(cache), Hit(r, i) PROVE AL!Next
    <3>1. cache[i].ptr \in Addresses /\ held[cache[i].ptr] = NoRequest
      BY EntryType DEF IInv, Shape, Ledger
    <3> QED BY <2>2, <3>1 DEF Hit, AL!Next, AL!Allocate
  <2>3. ASSUME NEW p \in Addresses, AllocateNew(p) PROVE AL!Next
    <3>1. pending \in Request /\ held[p] = NoRequest
      BY <2>3 DEF IInv, Shape, Ledger, AllocateNew
    <3> QED BY <2>3, <3>1 DEF AllocateNew, AL!Next, AL!Allocate
  <2>4. ASSUME NEW p \in Addresses, ReleaseRaw(p) PROVE AL!Next
    BY <2>4 DEF ReleaseRaw, AL!Next, AL!Release
  <2>5. ASSUME NEW p \in Addresses, ReleaseBlock(p) PROVE AL!Next
    BY <2>5 DEF ReleaseBlock, IInv, Ledger, AL!Next, AL!Release
  <2>6. CASE (\E r \in Request : Miss(r)) \/ EvictBack \/ OutOfMemory \/ UNCHANGED vars
    BY <2>6 DEF Miss, EvictBack, OutOfMemory, vars
  <2> QED BY <2>1, <2>2, <2>3, <2>4, <2>5, <2>6 DEF Next, AllocateCall, ReleaseCall
<1> QED BY <1>1, <1>2, Inductive, PTL DEF Spec, ImplementsAllocator, AL!Spec
=============================================================================
