----------------------------- MODULE PlanePool -----------------------------
(***************************************************************************)
(* PlanePool of runtime/SARRuntime.cpp: the allocation hooks of compiled   *)
(* kernels keep large freed blocks for reuse, up to a bound.               *)
(*                                                                         *)
(* A call that takes the mutex is one action, except that a request the    *)
(* cache cannot answer evicts one block per step with the mutex held, and  *)
(* requests that stay with libc may come in between.  Sizes and alignments *)
(* are in small units; `heap` is libc's, an address carries what           *)
(* posix_memalign gave for it.                                             *)
(***************************************************************************)
EXTENDS Integers, Sequences, FiniteSets, Functions

CONSTANTS
  Addresses,
  Sizes,        \* the request sizes
  Alignments,   \* the request alignments, powers of two
  MinBytes,     \* kPoolMinBytes
  Limits,       \* values SAR_RT_POOL_MAX_BYTES may be set to
  NoRequest,    \* the address is not allocated, or the mutex is free
  Untracked     \* the address is not a pool block

ASSUME PoolAssumption ==
  /\ IsFiniteSet(Addresses)
  /\ Sizes \subseteq Nat \ {0}
  /\ Alignments \subseteq Nat \ {0}
  /\ MinBytes \in Nat
  /\ Limits \subseteq Nat

Request == [size : Sizes, alignment : Alignments]
ASSUME RequestAssumption == NoRequest \notin Request

Block == [size : Sizes, alignment : Alignments, cached : BOOLEAN]
ASSUME BlockAssumption == Untracked \notin Block

VARIABLES
  limit,          \* SAR_RT_POOL_MAX_BYTES, 0 when it is not set
  enabled,        \* it is not set to 0
  heap,           \* libc: the allocation at each address
  held,           \* the request each address handed to a kernel answers
  blocks,         \* pool-eligible blocks
  cache,          \* freed blocks kept for reuse
  liveBytes,
  cachedBytes,
  peakLiveBytes,
  pending,        \* the request inside evictCachedToFit, mutex held
  aborted

vars == <<limit, enabled, heap, held, blocks, cache, liveBytes, cachedBytes, peakLiveBytes, pending, aborted>>
config == <<limit, enabled>>
poolVars == <<blocks, cache, liveBytes, cachedBytes, peakLiveBytes, pending>>

Larger(m, n) == IF m >= n THEN m ELSE n

\* The constructor reads the environment.
Init ==
  /\ \/ limit = 0 /\ enabled = TRUE
     \/ limit \in Limits /\ enabled = (limit # 0)
  /\ heap = [p \in Addresses |-> NoRequest]
  /\ held = [p \in Addresses |-> NoRequest]
  /\ blocks = [p \in Addresses |-> Untracked]
  /\ cache = <<>>
  /\ liveBytes = 0
  /\ cachedBytes = 0
  /\ peakLiveBytes = 0
  /\ pending = NoRequest
  /\ aborted = FALSE

-----------------------------------------------------------------------------
(***************************************************************************)
(* allocate                                                                *)
(***************************************************************************)

Pooled(r) == enabled /\ r.size >= MinBytes

\* Small blocks, and everything when pooling is disabled, stay with libc.
AllocateRaw(r, p) ==
  /\ ~aborted
  /\ ~Pooled(r)
  /\ heap[p] = NoRequest
  /\ heap' = [heap EXCEPT ![p] = r]
  /\ held' = [held EXCEPT ![p] = r]
  /\ UNCHANGED <<config, poolVars, aborted>>

\* Mutated form: a block of the right size will do.
AnyAlignment(e, r) == e.size = r.size

Suits(e, r) == e.size = r.size /\ e.alignment >= r.alignment

Matches(r) == {i \in 1..Len(cache) : Suits(cache[i], r)}

Live(size) ==
  /\ liveBytes' = liveBytes + size
  /\ peakLiveBytes' = Larger(peakLiveBytes, liveBytes')

\* cache[i] = cache.back(); cache.pop_back()
Without(i) == SubSeq([cache EXCEPT ![i] = cache[Len(cache)]], 1, Len(cache) - 1)

\* Mutated form: the bytes stay counted as cached.
HitStaysCounted(r, i) ==
  /\ ~aborted /\ pending = NoRequest /\ Pooled(r)
  /\ i \in Matches(r) /\ \A j \in Matches(r) : i <= j
  /\ cache' = Without(i)
  /\ blocks' = [blocks EXCEPT ![cache[i].ptr].cached = FALSE]
  /\ Live(r.size)
  /\ held' = [held EXCEPT ![cache[i].ptr] = r]
  /\ UNCHANGED <<config, heap, cachedBytes, pending, aborted>>

\* Mutated form: the entry is left in the cache.
HitStaysListed(r, i) ==
  /\ ~aborted /\ pending = NoRequest /\ Pooled(r)
  /\ i \in Matches(r) /\ \A j \in Matches(r) : i <= j
  /\ cachedBytes' = cachedBytes - cache[i].size
  /\ blocks' = [blocks EXCEPT ![cache[i].ptr].cached = FALSE]
  /\ Live(r.size)
  /\ held' = [held EXCEPT ![cache[i].ptr] = r]
  /\ UNCHANGED <<config, heap, cache, pending, aborted>>

\* The first suitable block of the cache is handed out again.
Hit(r, i) ==
  /\ ~aborted /\ pending = NoRequest /\ Pooled(r)
  /\ i \in Matches(r) /\ \A j \in Matches(r) : i <= j
  /\ cachedBytes' = cachedBytes - cache[i].size
  /\ cache' = Without(i)
  /\ blocks' = [blocks EXCEPT ![cache[i].ptr].cached = FALSE]
  /\ Live(r.size)
  /\ held' = [held EXCEPT ![cache[i].ptr] = r]
  /\ UNCHANGED <<config, heap, pending, aborted>>

Miss(r) ==
  /\ ~aborted /\ pending = NoRequest /\ Pooled(r)
  /\ Matches(r) = {}
  /\ pending' = r
  /\ UNCHANGED <<config, heap, held, blocks, cache, liveBytes, cachedBytes, peakLiveBytes, aborted>>

Fits(size) ==
  LET required == liveBytes + size
      bound == IF limit # 0 THEN Larger(limit, required) ELSE Larger(peakLiveBytes, required)
  IN  liveBytes + cachedBytes + size <= bound

\* One iteration of evictCachedToFit.
EvictBack ==
  /\ ~aborted /\ pending # NoRequest
  /\ cache # <<>> /\ ~Fits(pending.size)
  /\ LET back == cache[Len(cache)]
     IN  /\ cachedBytes' = cachedBytes - back.size
         /\ blocks' = [blocks EXCEPT ![back.ptr] = Untracked]
         /\ heap' = [heap EXCEPT ![back.ptr] = NoRequest]
  /\ cache' = SubSeq(cache, 1, Len(cache) - 1)
  /\ UNCHANGED <<config, held, liveBytes, peakLiveBytes, pending, aborted>>

\* The loop has ended: the block comes from libc.
AllocateNew(p) ==
  /\ ~aborted /\ pending # NoRequest
  /\ cache = <<>> \/ Fits(pending.size)
  /\ heap[p] = NoRequest
  /\ heap' = [heap EXCEPT ![p] = pending]
  /\ held' = [held EXCEPT ![p] = pending]
  /\ blocks' = [blocks EXCEPT ![p] =
                  [size |-> pending.size, alignment |-> pending.alignment, cached |-> FALSE]]
  /\ Live(pending.size)
  /\ pending' = NoRequest
  /\ UNCHANGED <<config, cache, cachedBytes, aborted>>

\* posix_memalign fails: the process aborts.
OutOfMemory ==
  /\ ~aborted /\ pending # NoRequest
  /\ cache = <<>> \/ Fits(pending.size)
  /\ \A p \in Addresses : heap[p] # NoRequest
  /\ aborted' = TRUE
  /\ UNCHANGED <<config, heap, held, poolVars>>

-----------------------------------------------------------------------------
(***************************************************************************)
(* release: the kernel frees an address it holds.                          *)
(***************************************************************************)

\* Allocated straight from libc.
ReleaseRaw(p) ==
  /\ ~aborted /\ held[p] # NoRequest
  /\ enabled => pending = NoRequest
  /\ ~enabled \/ blocks[p] = Untracked
  /\ heap' = [heap EXCEPT ![p] = NoRequest]
  /\ held' = [held EXCEPT ![p] = NoRequest]
  /\ UNCHANGED <<config, poolVars, aborted>>

Retains(size, live) ==
  live + cachedBytes + size <= (IF limit # 0 THEN limit ELSE peakLiveBytes)

\* A block of the pool: kept while the bound allows it, else given back.  One
\* that is marked as cached already was "released twice".
ReleaseBlock(p) ==
  /\ ~aborted /\ held[p] # NoRequest
  /\ enabled /\ pending = NoRequest
  /\ blocks[p] # Untracked
  /\ aborted' = blocks[p].cached
  /\ IF blocks[p].cached
     THEN UNCHANGED <<heap, held, blocks, cache, liveBytes, cachedBytes>>
     ELSE /\ held' = [held EXCEPT ![p] = NoRequest]
          /\ liveBytes' = liveBytes - blocks[p].size
          /\ IF Retains(blocks[p].size, liveBytes')
             THEN /\ blocks' = [blocks EXCEPT ![p].cached = TRUE]
                  /\ cache' = Append(cache, [ptr |-> p, size |-> blocks[p].size,
                                             alignment |-> blocks[p].alignment])
                  /\ cachedBytes' = cachedBytes + blocks[p].size
                  /\ UNCHANGED heap
             ELSE /\ blocks' = [blocks EXCEPT ![p] = Untracked]
                  /\ heap' = [heap EXCEPT ![p] = NoRequest]
                  /\ UNCHANGED <<cache, cachedBytes>>
  /\ UNCHANGED <<config, peakLiveBytes, pending>>

-----------------------------------------------------------------------------
AllocateCall ==
  \E r \in Request : \/ \E p \in Addresses : AllocateRaw(r, p)
                     \/ \E i \in 1..Len(cache) : Hit(r, i)
                     \/ Miss(r)
ReleaseCall ==
  \E p \in Addresses : ReleaseRaw(p) \/ ReleaseBlock(p)

Next ==
  \/ AllocateCall
  \/ EvictBack
  \/ \E p \in Addresses : AllocateNew(p)
  \/ OutOfMemory
  \/ ReleaseCall

Spec == Init /\ [][Next]_vars

-----------------------------------------------------------------------------
(***************************************************************************)
(* Properties                                                              *)
(***************************************************************************)

Entry == [ptr : Addresses, size : Sizes, alignment : Alignments]

\* Every variable has the shape of the C++ field it stands for: the byte counts
\* are size_t, and a subtraction that went below zero would wrap.
TypeOK ==
  /\ heap \in [Addresses -> Request \cup {NoRequest}]
  /\ held \in [Addresses -> Request \cup {NoRequest}]
  /\ blocks \in [Addresses -> Block \cup {Untracked}]
  /\ cache \in Seq(Entry)
  /\ liveBytes \in Nat /\ cachedBytes \in Nat /\ peakLiveBytes \in Nat
  /\ pending \in Request \cup {NoRequest}
  /\ aborted \in BOOLEAN

\* The pool never gives a block to two kernels, never hands out or keeps one
\* that libc has taken back, and lists each cached block once (Hit, EvictBack
\* and ReleaseBlock agree on who has a block).  A block in a kernel's hands is not
\* marked as cached: its release is not taken for a second one, which aborts the
\* process.
Ownership ==
  /\ \A p \in Addresses : held[p] # NoRequest =>
       /\ heap[p] # NoRequest
       /\ blocks[p] # Untracked => ~blocks[p].cached
  /\ \A i \in 1..Len(cache) :
       /\ held[cache[i].ptr] = NoRequest
       /\ heap[cache[i].ptr] # NoRequest
       /\ \A j \in 1..Len(cache) : i # j => cache[i].ptr # cache[j].ptr

\* A kernel gets at least the size and the alignment it asked for, from a
\* block that another kernel may have asked for differently.
GoodFit ==
  \A p \in Addresses : held[p] # NoRequest =>
    heap[p].size >= held[p].size /\ heap[p].alignment >= held[p].alignment

\* Who has each address.  The invariant behind Ownership and GoodFit: every
\* step needs all of it, among others that `blocks` and `cache` agree.
Ledger ==
  /\ \A p \in Addresses : held[p] # NoRequest =>
       /\ heap[p] # NoRequest
       /\ heap[p].size >= held[p].size /\ heap[p].alignment >= held[p].alignment
       /\ blocks[p] # Untracked => ~blocks[p].cached
  /\ \A p \in Addresses : blocks[p] # Untracked =>
       /\ enabled /\ heap[p] # NoRequest
       /\ blocks[p].size = heap[p].size /\ blocks[p].alignment = heap[p].alignment
  /\ \A i \in 1..Len(cache) :
       /\ blocks[cache[i].ptr] # Untracked /\ blocks[cache[i].ptr].cached
       /\ cache[i].size = heap[cache[i].ptr].size
       /\ cache[i].alignment = heap[cache[i].ptr].alignment
       /\ \A j \in 1..Len(cache) : i # j => cache[i].ptr # cache[j].ptr
  /\ pending # NoRequest => enabled

\* The bytes of each block of bs in use, and of each block kept.
InUse(bs) == [p \in Addresses |-> IF bs[p] # Untracked /\ ~bs[p].cached THEN bs[p].size ELSE 0]
Kept(bs) == [p \in Addresses |-> IF bs[p] # Untracked /\ bs[p].cached THEN bs[p].size ELSE 0]

\* liveBytes and cachedBytes are the bytes of the blocks in use and kept.
Accounting == liveBytes = SumFunction(InUse(blocks)) /\ cachedBytes = SumFunction(Kept(blocks))

\* "Retention is bounded by the peak live allocation, or by SAR_RT_POOL_MAX_BYTES
\* when set": what the pool holds beyond the kernels' own blocks.
Retention ==
  liveBytes + cachedBytes <= IF limit = 0 THEN peakLiveBytes ELSE Larger(limit, liveBytes)

\* The pool's books are right: its two byte counts, and the bound kept with them
\* (allocate, release and evictCachedToFit update and compare them in turn).
Bookkeeping == Accounting /\ Retention

\* The pool implements an Allocator.
AL == INSTANCE Allocator WITH Requests <- Request

ImplementsAllocator == AL!Spec
=============================================================================
