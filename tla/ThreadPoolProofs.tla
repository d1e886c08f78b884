-------------------------- MODULE ThreadPoolProofs --------------------------
(***************************************************************************)
(* Proofs about ThreadPool, for any number of callers, pool threads, loop  *)
(* lengths and calls.                                                      *)
(***************************************************************************)
EXTENDS ThreadPool, TLAPS, FiniteSetTheorems

-----------------------------------------------------------------------------
(***************************************************************************)
(* The partition of a loop.                                                *)
(***************************************************************************)

\* The number of active participants is positive and never exceeds the pool
\* and the caller (the std::min in run()).
LEMMA ActiveType ==
  ASSUME NEW n \in 0..MaxTotal
  PROVE  /\ Active(n) \in 0..(PoolSize + 1)
         /\ n # 0 => Active(n) # 0
BY PoolAssumption DEF Active

\* The chunk length, the quotient rounded up, is a positive integer and enough
\* of them cover the loop.
LEMMA ChunkSizeBounds ==
  ASSUME NEW n \in Nat \ {0}, NEW active \in Nat \ {0}
  PROVE  /\ ChunkSize(n, active) \in Nat \ {0}
         /\ n <= active * ChunkSize(n, active)
<1> DEFINE m == n + active - 1
           q == m \div active
<1>1. m \in Nat /\ active \in Nat \ {0} /\ m >= active
  OBVIOUS
<1>2. q \in Int /\ m % active \in 0..(active - 1) /\ m = active * q + (m % active)
  BY <1>1
<1>3. q >= 1
  <2>1. ASSUME q <= 0 PROVE FALSE
    <3>1. active * q <= 0
      BY <2>1, <1>1, <1>2
    <3> QED BY <3>1, <1>1, <1>2
  <2> QED BY <2>1, <1>2
<1>4. n <= active * q
  BY <1>1, <1>2
<1> QED BY <1>2, <1>3, <1>4 DEF ChunkSize

\* Two participants never share an index (runChunk).
LEMMA ChunksDisjoint ==
  ASSUME NEW n \in Nat \ {0}, NEW active \in Nat \ {0},
         NEW id1 \in Nat, NEW id2 \in Nat, id1 # id2,
         NEW i \in Chunk(id1, n, active)
  PROVE  i \notin Chunk(id2, n, active)
<1> DEFINE s == ChunkSize(n, active)
<1>1. s \in Nat \ {0}
  BY ChunkSizeBounds
<1>2. i \in Int /\ id1 * s <= i /\ i < (id1 + 1) * s
  BY DEF Chunk
<1>3. SUFFICES ASSUME id2 * s <= i, i < (id2 + 1) * s PROVE FALSE
  BY DEF Chunk
<1> HIDE DEF s
<1>4. ASSUME NEW x \in Nat, NEW y \in Nat, x < y, i < (x + 1) * s, y * s <= i
      PROVE  FALSE
  <2>1. (x + 1) * s <= y * s
    BY <1>1, <1>4
  <2> QED BY <2>1, <1>1, <1>2, <1>4
<1>5. CASE id1 < id2
  BY <1>2, <1>3, <1>4, <1>5
<1>6. CASE id2 < id1
  BY <1>2, <1>3, <1>4, <1>6
<1> QED BY <1>5, <1>6

\* Every index of the loop belongs to the chunk of some active participant.
LEMMA ChunksCover ==
  ASSUME NEW n \in Nat \ {0}, NEW active \in Nat \ {0}, NEW i \in 0..(n - 1)
  PROVE  \E id \in 0..(active - 1) : i \in Chunk(id, n, active)
<1> DEFINE s == ChunkSize(n, active)
           q == i \div s
<1>1. s \in Nat \ {0} /\ n <= active * s
  BY ChunkSizeBounds
<1>2. i \in Nat /\ i < n
  OBVIOUS
<1> HIDE DEF s
<1>3. q \in Int /\ i % s \in 0..(s - 1) /\ i = s * q + (i % s)
  BY <1>1, <1>2
<1>4. q >= 0
  <2>1. ASSUME q <= -1 PROVE FALSE
    <3>1. s * q <= -s
      BY <2>1, <1>1, <1>3
    <3> QED BY <3>1, <1>1, <1>2, <1>3
  <2> QED BY <2>1, <1>3
<1>5. q < active
  <2>1. ASSUME q >= active PROVE FALSE
    <3>1. active * s <= s * q
      BY <2>1, <1>1, <1>3
    <3> QED BY <3>1, <1>1, <1>2, <1>3
  <2> QED BY <2>1, <1>3
<1> HIDE DEF q
<1>6. q * s <= i /\ i < (q + 1) * s
  <2>1. s * q = q * s /\ (q + 1) * s = q * s + s
    BY <1>1, <1>3
  <2> QED BY <2>1, <1>1, <1>2, <1>3
<1>7. i \in Chunk(q, n, active)
  BY <1>2, <1>4, <1>5, <1>6, <1>3 DEF Chunk, s
<1> QED BY <1>7, <1>4, <1>5, <1>3

-----------------------------------------------------------------------------
(***************************************************************************)
(* Facts about the state.                                                  *)
(***************************************************************************)

\* PoolSize is the number of pool threads, so a count of PoolSize reports
\* means that every one of them has reported.
LEMMA CountIsAll ==
  ASSUME NEW S \in SUBSET Workers
  PROVE  /\ IsFiniteSet(S)
         /\ Cardinality(S) \in 0..PoolSize
         /\ Cardinality(S) = PoolSize <=> S = Workers
<1>1. IsFiniteSet(Workers) /\ Cardinality(Workers) = PoolSize
  BY FS_Interval, PoolAssumption DEF Workers
<1> QED BY <1>1, FS_Subset, FS_CardinalityType, PoolAssumption

\* The caller that holds runMutex is the only one inside run().
LEMMA OneRunner ==
  ASSUME LockInv, TypeOK, NEW c \in Callers, HoldsRun(c), NEW d \in Callers, HoldsRun(d)
  PROVE  c = d
BY DEF LockInv

-----------------------------------------------------------------------------
(***************************************************************************)
(* IInv holds initially and every step preserves it.                       *)
(***************************************************************************)

LEMMA InitIInv == Init => IInv
<1> SUFFICES ASSUME Init PROVE IInv
  OBVIOUS
<1>1. TypeOK
  <2>1. /\ 0 \in 0..MaxTotal
        /\ 0 \in 0..(PoolSize + 1)
        /\ 0 \in 0..PoolSize
    BY PoolAssumption
  <2>2. wtask \in [Workers -> [caller : Callers \cup {Nobody}, total : 0..MaxTotal,
                               active : 0..(PoolSize + 1)]]
    BY <2>1 DEF Init
  <2> QED BY <2>1, <2>2 DEF Init, TypeOK, WorkerPC, CallerPC
<1>2. LockInv
  BY PoolAssumption DEF Init, LockInv, HoldsRun, InRun
<1>3. RunInv /\ WorkInv /\ QuietInv /\ StopInv
  BY DEF Init, RunInv, WorkInv, QuietInv, StopInv, InRun, Reported
<1>4. RanInv
  BY DEF Init, RanInv, RanOf, InRun, Indices
<1> QED BY <1>1, <1>2, <1>3, <1>4 DEF IInv

LEMMA TypeStep == IInv /\ [Next]_vars => TypeOK'
<1> SUFFICES ASSUME IInv, [Next]_vars PROVE TypeOK'
  OBVIOUS
<1> USE PoolAssumption DEF IInv, TypeOK, WorkerPC, CallerPC, poolVars, workerVars, callerVars
<1>1. ASSUME NEW c \in Callers, NEW S, Execute(c, S)
      PROVE  ran' \in [Callers -> [Indices -> Nat]]
  BY <1>1 DEF Execute
<1>2. WakeWorkers => wpc' \in [Workers -> WorkerPC]
  BY DEF WakeWorkers
<1>3. ASSUME NEW c \in Callers, NEW n \in 1..MaxTotal, Call(c, n) PROVE TypeOK'
  BY <1>3 DEF Call, Indices
<1>4. ASSUME NEW c \in Callers, RunStep(c) PROVE TypeOK'
  <2>1. CASE RunInline(c)
    BY <2>1, <1>1 DEF RunInline
  <2>2. CASE ReturnInline(c)
    BY <2>2 DEF ReturnInline
  <2>3. CASE LockRun(c)
    BY <2>3 DEF LockRun
  <2>4. CASE Publish(c)
    <3>1. Active(total[c]) \in 0..(PoolSize + 1)
      BY ActiveType
    <3> QED BY <2>4, <3>1 DEF Publish
  <2>5. CASE NotifyReady(c)
    BY <2>5, <1>2 DEF NotifyReady
  <2>6. CASE CallerChunk(c)
    BY <2>6, <1>1 DEF CallerChunk
  <2>7. CASE AwaitDone(c)
    BY <2>7 DEF AwaitDone
  <2> QED BY <1>4, <2>1, <2>2, <2>3, <2>4, <2>5, <2>6, <2>7 DEF RunStep
<1>5. ASSUME NEW w \in Workers, WorkerStep(w) PROVE TypeOK'
  <2>1. CASE WorkerExit(w)
    BY <2>1 DEF WorkerExit
  <2>2. CASE WorkerTake(w)
    BY <2>2 DEF WorkerTake
  <2>3. CASE WorkerWait(w)
    BY <2>3 DEF WorkerWait
  <2>4. CASE WorkerChunk(w)
    <3>1. wtask[w].caller \in Callers
      BY <2>4 DEF WorkerChunk, WorkInv
    <3> QED BY <2>4, <3>1, <1>1 DEF WorkerChunk
  <2>5. CASE WorkerReport(w)
    <3>1. completed = Cardinality(Reported)
      BY <2>5 DEF WorkerReport, WorkInv, RunInv
    <3>2. w \notin Reported /\ w \in Workers /\ Reported \in SUBSET Workers
      BY <2>5 DEF WorkerReport, Reported
    <3>3. completed # PoolSize
      BY <3>1, <3>2, CountIsAll
    <3>4. cpc' \in [Callers -> CallerPC]
      BY <2>5 DEF WorkerReport
    <3> QED BY <2>5, <3>3, <3>4 DEF WorkerReport
  <2> QED BY <1>5, <2>1, <2>2, <2>3, <2>4, <2>5 DEF WorkerStep
<1>6. CASE SpuriousWake
  BY <1>6 DEF SpuriousWake
<1>7. CASE BeginStop
  BY <1>7 DEF BeginStop
<1>8. CASE NotifyStop
  BY <1>8, <1>2 DEF NotifyStop
<1>9. CASE Join
  BY <1>9 DEF Join
<1>10. CASE UNCHANGED vars
  BY <1>10 DEF vars
<1> QED BY <1>3, <1>4, <1>5, <1>6, <1>7, <1>8, <1>9, <1>10 DEF Next


LEMMA LockStep == IInv /\ [Next]_vars => LockInv'
<1> SUFFICES ASSUME IInv, [Next]_vars PROVE LockInv'
  OBVIOUS
<1> USE PoolAssumption DEF IInv, TypeOK, LockInv, HoldsRun, InRun, poolVars, workerVars, callerVars
<1>1. ASSUME NEW c \in Callers, NEW n \in 1..MaxTotal, Call(c, n) PROVE LockInv'
  BY <1>1 DEF Call
<1>2. ASSUME NEW c \in Callers, RunStep(c) PROVE LockInv'
  BY <1>2 DEF RunStep, RunInline, ReturnInline, LockRun, Publish, NotifyReady, CallerChunk, AwaitDone
<1>3. ASSUME NEW w \in Workers, WorkerStep(w) PROVE LockInv'
  BY <1>3 DEF WorkerStep, WorkerExit, WorkerTake, WorkerWait, WorkerChunk, WorkerReport
<1>4. CASE SpuriousWake
  BY <1>4 DEF SpuriousWake
<1>5. CASE BeginStop \/ NotifyStop \/ Join \/ UNCHANGED vars
  BY <1>5 DEF BeginStop, NotifyStop, Join, vars
<1> QED BY <1>1, <1>2, <1>3, <1>4, <1>5 DEF Next

\* A step that keeps a caller inside run() or outside of it, and leaves the
\* published loop and the threads' progress on it alone, keeps RunInv.
LEMMA RunStepInv == IInv /\ [Next]_vars => RunInv'
<1> SUFFICES ASSUME IInv, [Next]_vars PROVE RunInv'
  OBVIOUS
<1> USE PoolAssumption DEF IInv, TypeOK, RunInv, HoldsRun, InRun, poolVars, workerVars, callerVars
<1>1. ASSUME NEW c \in Callers, NEW n \in 1..MaxTotal, Call(c, n) PROVE RunInv'
  BY <1>1 DEF Call, Reported
<1>2. ASSUME NEW c \in Callers, RunStep(c) PROVE RunInv'
  <2>1. CASE RunInline(c) \/ ReturnInline(c) \/ LockRun(c) \/ CallerChunk(c) \/ AwaitDone(c)
    BY <2>1 DEF RunInline, ReturnInline, LockRun, CallerChunk, AwaitDone, Reported
  <2>2. CASE Publish(c)
    <3>1. Reported = Workers
      BY <2>2, OneRunner DEF Publish, QuietInv, StopInv
    <3>2. Reported' = {}
      BY <2>2, <3>1 DEF Publish, Reported
    <3>3. Cardinality(Reported') = 0
      BY <3>2, FS_EmptySet
    <3>4. ASSUME NEW d \in Callers, InRun(d)' PROVE d = c
      BY <2>2, <3>4, OneRunner DEF Publish
    <3> QED BY <2>2, <3>3, <3>4 DEF Publish
  <2>3. CASE NotifyReady(c)
    <3>1. Reported' = Reported
      BY <2>3 DEF NotifyReady, WakeWorkers, Reported
    <3> QED BY <2>3, <3>1 DEF NotifyReady
  <2> QED BY <1>2, <2>1, <2>2, <2>3 DEF RunStep
<1>3. ASSUME NEW w \in Workers, WorkerStep(w) PROVE RunInv'
  <2>1. CASE WorkerExit(w)
    BY <2>1 DEF WorkerExit, StopInv
  <2>2. CASE WorkerTake(w)
    <3>1. Reported' = Reported
      BY <2>2 DEF WorkerTake, Reported
    <3> QED BY <2>2, <3>1 DEF WorkerTake
  <2>3. CASE WorkerWait(w)
    <3>1. Reported' = Reported
      BY <2>3 DEF WorkerWait, Reported
    <3> QED BY <2>3, <3>1 DEF WorkerWait
  <2>4. CASE WorkerChunk(w)
    <3>1. Reported' = Reported
      BY <2>4 DEF WorkerChunk, Reported
    <3> QED BY <2>4, <3>1 DEF WorkerChunk
  <2>5. CASE WorkerReport(w)
    <3>1. Reported' = Reported \cup {w} /\ w \notin Reported /\ Reported \in SUBSET Workers
      BY <2>5 DEF WorkerReport, Reported, WorkInv
    <3>2. Cardinality(Reported') = Cardinality(Reported) + 1
      BY <3>1, CountIsAll, FS_AddElement
    <3>3. ASSUME NEW d \in Callers, InRun(d)' PROVE InRun(d)
      BY <2>5, <3>3 DEF WorkerReport
    <3> QED BY <2>5, <3>2, <3>3 DEF WorkerReport
  <2> QED BY <1>3, <2>1, <2>2, <2>3, <2>4, <2>5 DEF WorkerStep
<1>4. CASE SpuriousWake
  <2>1. Reported' = Reported
    BY <1>4 DEF SpuriousWake, Reported
  <2>2. ASSUME NEW d \in Callers, InRun(d)' PROVE InRun(d)
    BY <1>4, <2>2 DEF SpuriousWake
  <2> QED BY <1>4, <2>1, <2>2 DEF SpuriousWake
<1>5. CASE BeginStop \/ NotifyStop \/ Join
  BY <1>5 DEF BeginStop, NotifyStop, Join, StopInv
<1>6. CASE UNCHANGED vars
  BY <1>6 DEF vars, Reported
<1> QED BY <1>1, <1>2, <1>3, <1>4, <1>5, <1>6 DEF Next

LEMMA WorkStep == IInv /\ [Next]_vars => WorkInv'
<1> SUFFICES ASSUME IInv, [Next]_vars PROVE WorkInv'
  OBVIOUS
<1> USE PoolAssumption DEF IInv, TypeOK, WorkInv, InRun, poolVars, workerVars, callerVars
<1>1. ASSUME NEW c \in Callers, NEW n \in 1..MaxTotal, Call(c, n) PROVE WorkInv'
  BY <1>1 DEF Call
<1>2. ASSUME NEW c \in Callers, RunStep(c) PROVE WorkInv'
  <2>1. CASE RunInline(c)
    BY <2>1 DEF RunInline
  <2>5. CASE ReturnInline(c)
    BY <2>5 DEF ReturnInline
  <2>6. CASE LockRun(c)
    BY <2>6 DEF LockRun
  <2>7. CASE CallerChunk(c)
    BY <2>7 DEF CallerChunk
  <2>2. CASE Publish(c)
    <3>1. ASSUME NEW w \in Workers, wpc[w] \in {"chunk", "report"} PROVE FALSE
      <4>1. task = c
        BY <2>2, <3>1, OneRunner DEF Publish, HoldsRun
      <4> QED BY <2>2, <3>1, <4>1 DEF Publish
    <3> QED BY <2>2, <3>1 DEF Publish
  <2>3. CASE NotifyReady(c)
    BY <2>3 DEF NotifyReady, WakeWorkers
  <2>4. CASE AwaitDone(c)
    <3>1. ASSUME NEW w \in Workers, wpc[w] \in {"chunk", "report"}, completed = PoolSize
          PROVE  FALSE
      <4>1. completed = Cardinality(Reported) /\ Reported \in SUBSET Workers
        BY <3>1 DEF RunInv, Reported
      <4>2. w \notin Reported
        BY <3>1 DEF Reported
      <4> QED BY <3>1, <4>1, <4>2, CountIsAll
    <3> QED BY <2>4, <3>1 DEF AwaitDone, AllCompleted
  <2> QED BY <1>2, <2>1, <2>2, <2>3, <2>4, <2>5, <2>6, <2>7 DEF RunStep
<1>3. ASSUME NEW w \in Workers, WorkerStep(w) PROVE WorkInv'
  <2>1. CASE WorkerExit(w) \/ WorkerWait(w) \/ WorkerChunk(w)
    BY <2>1 DEF WorkerExit, WorkerWait, WorkerChunk
  <2>2. CASE WorkerTake(w)
    <3>1. \E c \in Callers : InRun(c)
      BY <2>2 DEF WorkerTake, QuietInv, StopInv, Reported
    <3>2. task \in Callers /\ InRun(task)
      BY <3>1 DEF RunInv
    <3> QED BY <2>2, <3>2 DEF WorkerTake
  <2>3. CASE WorkerReport(w)
    BY <2>3 DEF WorkerReport
  <2> QED BY <1>3, <2>1, <2>2, <2>3 DEF WorkerStep
<1>4. CASE SpuriousWake
  BY <1>4 DEF SpuriousWake
<1>5. CASE BeginStop
  BY <1>5 DEF BeginStop
<1>6. CASE NotifyStop
  BY <1>6 DEF NotifyStop, WakeWorkers
<1>7. CASE Join \/ UNCHANGED vars
  BY <1>7 DEF Join, vars
<1> QED BY <1>1, <1>2, <1>3, <1>4, <1>5, <1>6, <1>7 DEF Next

LEMMA QuietStep == IInv /\ [Next]_vars => QuietInv'
<1> SUFFICES ASSUME IInv, [Next]_vars PROVE QuietInv'
  OBVIOUS
<1> USE PoolAssumption DEF IInv, TypeOK, QuietInv, InRun, Reported, poolVars, workerVars, callerVars
<1>1. ASSUME NEW c \in Callers, NEW n \in 1..MaxTotal, Call(c, n) PROVE QuietInv'
  BY <1>1 DEF Call
<1>2. ASSUME NEW c \in Callers, RunStep(c) PROVE QuietInv'
  <2>1. CASE RunInline(c) \/ ReturnInline(c) \/ LockRun(c)
    BY <2>1 DEF RunInline, ReturnInline, LockRun
  <2>2. CASE Publish(c) \/ NotifyReady(c) \/ CallerChunk(c)
    BY <2>2 DEF Publish, NotifyReady, CallerChunk
  <2>3. CASE AwaitDone(c)
    <3>1. CASE AllCompleted
      <4>1. Reported = Workers
        BY <2>3, <3>1, CountIsAll DEF AwaitDone, AllCompleted, RunInv
      <4> QED BY <2>3, <4>1 DEF AwaitDone
    <3>2. CASE ~AllCompleted
      BY <2>3, <3>2 DEF AwaitDone
    <3> QED BY <3>1, <3>2
  <2> QED BY <1>2, <2>1, <2>2, <2>3 DEF RunStep
<1>3. ASSUME NEW w \in Workers, WorkerStep(w) PROVE QuietInv'
  <2>1. CASE WorkerExit(w)
    BY <2>1 DEF WorkerExit, StopInv
  <2>2. CASE WorkerTake(w)
    BY <2>2 DEF WorkerTake, StopInv
  <2>3. CASE WorkerWait(w)
    BY <2>3 DEF WorkerWait
  <2>4. CASE WorkerChunk(w)
    BY <2>4 DEF WorkerChunk
  <2>5. CASE WorkerReport(w)
    BY <2>5 DEF WorkerReport, WorkInv
  <2> QED BY <1>3, <2>1, <2>2, <2>3, <2>4, <2>5 DEF WorkerStep
<1>4. CASE SpuriousWake
  BY <1>4 DEF SpuriousWake
<1>5. CASE BeginStop \/ NotifyStop \/ Join
  BY <1>5 DEF BeginStop, NotifyStop, Join, StopInv
<1>6. CASE UNCHANGED vars
  BY <1>6 DEF vars
<1> QED BY <1>1, <1>2, <1>3, <1>4, <1>5, <1>6 DEF Next

LEMMA StopStep == IInv /\ [Next]_vars => StopInv'
<1> SUFFICES ASSUME IInv, [Next]_vars PROVE StopInv'
  OBVIOUS
<1> USE PoolAssumption DEF IInv, TypeOK, StopInv, poolVars, workerVars, callerVars
<1>1. ASSUME NEW c \in Callers, NEW n \in 1..MaxTotal, Call(c, n) PROVE StopInv'
  BY <1>1 DEF Call
<1>2. ASSUME NEW c \in Callers, RunStep(c) PROVE StopInv'
  BY <1>2 DEF RunStep, RunInline, ReturnInline, LockRun, Publish, NotifyReady, CallerChunk,
              AwaitDone, WakeWorkers
<1>3. ASSUME NEW w \in Workers, WorkerStep(w) PROVE StopInv'
  BY <1>3 DEF WorkerStep, WorkerExit, WorkerTake, WorkerWait, WorkerChunk, WorkerReport
<1>4. CASE SpuriousWake
  BY <1>4 DEF SpuriousWake
<1>5. CASE BeginStop
  BY <1>5 DEF BeginStop, WorkInv, InRun
<1>6. CASE NotifyStop \/ Join \/ UNCHANGED vars
  BY <1>6 DEF NotifyStop, Join, vars, WakeWorkers
<1> QED BY <1>1, <1>2, <1>3, <1>4, <1>5, <1>6 DEF Next

\* A step that executes nothing of a caller's loop, and takes nobody out of or
\* into the set of those that finished their chunk, keeps its history right.
LEMMA RanSame ==
  ASSUME NEW c \in Callers, RanOf(c),
         ran'[c] = ran[c], total'[c] = total[c],
         \/ cpc'[c] = cpc[c]
         \/ InRun(c) /\ InRun(c)'
         \/ cpc[c] = "return" /\ cpc'[c] = "idle"
         \/ cpc[c] = "lock" /\ cpc'[c] = "publish",
         InRun(c) => Finished(c)' = Finished(c)
  PROVE  RanOf(c)'
BY DEF RanOf, InRun, Active, ChunkSize, Chunk, Indices

\* A participant that executes its chunk executes indices nobody executed.
LEMMA RanChunk ==
  ASSUME IInv, NEW c \in Callers, InRun(c), InRun(c)',
         NEW id \in 0..PoolSize, id \notin Finished(c),
         Execute(c, Chunk(id, total[c], Active(total[c]))),
         total'[c] = total[c],
         Finished(c)' = Finished(c) \cup {id}
  PROVE  RanOf(c)'
<1> DEFINE n == total[c]
           active == Active(n)
<1>1. n \in Nat \ {0} /\ active \in Nat \ {0}
  <2>1. n \in 0..MaxTotal /\ 0 \in Indices
    BY PoolAssumption DEF IInv, TypeOK, Indices
  <2>2. n # 0
    BY <2>1 DEF IInv, RanInv, RanOf, InRun
  <2> QED BY <2>1, <2>2, ActiveType, PoolAssumption
<1>2. SUFFICES ASSUME NEW i \in Indices
      PROVE  ran'[c][i] = IF \E k \in Finished(c)' : i \in Chunk(k, n, active) THEN 1 ELSE 0
  BY <1>1, <1>2 DEF RanOf, InRun, Active, ChunkSize, Chunk, Indices
<1>3. ran[c][i] = IF \E k \in Finished(c) : i \in Chunk(k, n, active) THEN 1 ELSE 0
  BY DEF IInv, RanInv, RanOf
<1>4. ran'[c][i] = IF i \in Chunk(id, n, active) THEN ran[c][i] + 1 ELSE ran[c][i]
  BY DEF Execute, IInv, TypeOK
<1>5. Finished(c) \in SUBSET Nat /\ id \in Nat
  BY PoolAssumption DEF Finished, Workers
<1> HIDE DEF n, active
<1>6. CASE i \in Chunk(id, n, active)
  <2>1. ASSUME NEW k \in Finished(c) PROVE i \notin Chunk(k, n, active)
    BY <1>1, <1>5, <1>6, ChunksDisjoint
  <2> QED BY <1>3, <1>4, <1>6, <2>1
<1>7. CASE i \notin Chunk(id, n, active)
  BY <1>3, <1>4, <1>7
<1> QED BY <1>6, <1>7

LEMMA RanStep == IInv /\ [Next]_vars => RanInv'
<1> SUFFICES ASSUME IInv, [Next]_vars PROVE RanInv'
  OBVIOUS
<1>0. /\ \A c \in Callers : RanOf(c)
      /\ (\A c \in Callers : RanOf(c)') => RanInv'
  BY DEF IInv, RanInv
<1> SUFFICES ASSUME NEW d \in Callers PROVE RanOf(d)'
  BY <1>0
<1>00. RanOf(d)
  BY <1>0
<1> USE PoolAssumption DEF IInv, TypeOK, poolVars, workerVars, callerVars
<1>1. ASSUME NEW c \in Callers, NEW n \in 1..MaxTotal, Call(c, n) PROVE RanOf(d)'
  <2>1. CASE d = c
    BY <1>1, <2>1 DEF Call, RanOf, InRun
  <2>2. CASE d # c
    <3>1. Finished(d)' = Finished(d) /\ cpc'[d] = cpc[d] /\ ran'[d] = ran[d] /\ total'[d] = total[d]
      BY <1>1, <2>2 DEF Call, Finished
    <3> QED BY <3>1, <1>00, RanSame
  <2> QED BY <2>1, <2>2
<1>2. ASSUME NEW c \in Callers, RunStep(c) PROVE RanOf(d)'
  <2>1. CASE RunInline(c)
    <3>1. CASE d = c
      <4>1. cpc[c] = "inline" /\ cpc'[c] = "return" /\ total' = total /\ total[c] \in Nat
        BY <2>1 DEF RunInline
      <4>2. ASSUME NEW i \in Indices PROVE ran'[c][i] = IF i < total[c] THEN 1 ELSE 0
        <5>1. ran[c][i] = 0 /\ i \in Nat
          BY <4>1, <3>1, <1>00 DEF RanOf, Indices
        <5> QED BY <5>1, <4>1, <2>1 DEF RunInline, Execute
      <4> QED BY <3>1, <4>1, <4>2, <1>00 DEF RanOf, InRun
    <3>2. CASE d # c
      <4>1. Finished(d)' = Finished(d) /\ cpc'[d] = cpc[d] /\ ran'[d] = ran[d] /\ total'[d] = total[d]
        BY <2>1, <3>2 DEF RunInline, Finished, Execute
      <4> QED BY <4>1, <1>00, RanSame
    <3> QED BY <3>1, <3>2
  <2>2. CASE ReturnInline(c)
    <3>1. /\ Finished(d)' = Finished(d) /\ ran'[d] = ran[d] /\ total'[d] = total[d]
          /\ cpc'[d] = cpc[d] \/ (cpc[d] = "return" /\ cpc'[d] = "idle")
      BY <2>2 DEF ReturnInline, Finished
    <3> QED BY <3>1, <1>00, RanSame
  <2>3. CASE LockRun(c)
    <3>1. /\ Finished(d)' = Finished(d) /\ ran'[d] = ran[d] /\ total'[d] = total[d]
          /\ cpc'[d] = cpc[d] \/ (cpc[d] = "lock" /\ cpc'[d] = "publish")
      BY <2>3 DEF LockRun, Finished
    <3> QED BY <3>1, <1>00, RanSame
  <2>4. CASE Publish(c)
    <3>1. CASE d = c
      <4>1. Reported = Workers
        BY <2>4, OneRunner DEF Publish, QuietInv, StopInv, HoldsRun, InRun
      <4>2. Finished(c)' = {}
        BY <2>4, <4>1 DEF Publish, Reported, Finished
      <4>3. cpc'[c] = "notify" /\ ran' = ran /\ total' = total /\ cpc[c] = "publish"
        BY <2>4 DEF Publish
      <4> QED BY <3>1, <4>2, <4>3, <1>00 DEF RanOf, InRun
    <3>2. CASE d # c
      <4>1. ~InRun(d)
        BY <2>4, <3>2, OneRunner DEF Publish, HoldsRun
      <4>2. cpc'[d] = cpc[d] /\ ran' = ran /\ total' = total
        BY <2>4, <3>2 DEF Publish
      <4> QED BY <4>1, <4>2, <1>00, RanSame
    <3> QED BY <3>1, <3>2
  <2>5. CASE NotifyReady(c)
    <3>1. /\ Finished(d)' = Finished(d) /\ ran'[d] = ran[d] /\ total'[d] = total[d]
          /\ cpc'[d] = cpc[d] \/ (InRun(d) /\ InRun(d)')
      BY <2>5 DEF NotifyReady, Finished, WakeWorkers, InRun
    <3> QED BY <3>1, <1>00, RanSame
  <2>6. CASE CallerChunk(c)
    <3>1. CASE d = c
      <4>1. InRun(c) /\ InRun(c)' /\ total' = total
        BY <2>6 DEF CallerChunk, InRun
      <4>2. 0 \notin Finished(c) /\ 0 \in 0..PoolSize
        BY <2>6 DEF CallerChunk, Finished, Workers
      <4>3. Finished(c)' = Finished(c) \cup {0}
        BY <2>6 DEF CallerChunk, Finished
      <4> QED BY <2>6, <3>1, <4>1, <4>2, <4>3, RanChunk DEF CallerChunk
    <3>2. CASE d # c
      <4>1. Finished(d)' = Finished(d) /\ cpc'[d] = cpc[d] /\ ran'[d] = ran[d] /\ total'[d] = total[d]
        BY <2>6, <3>2 DEF CallerChunk, Finished, Execute
      <4> QED BY <4>1, <1>00, RanSame
    <3> QED BY <3>1, <3>2
  <2>7. CASE AwaitDone(c)
    <3>1. /\ Finished(d)' = Finished(d) \/ d = c
          /\ ran'[d] = ran[d] /\ total'[d] = total[d]
      BY <2>7 DEF AwaitDone, Finished
    <3>2. CASE d = c /\ AllCompleted
      <4>1. Reported = Workers
        BY <2>7, <3>2, CountIsAll DEF AwaitDone, AllCompleted, RunInv, InRun, Reported
      <4>2. Finished(c) = 0..PoolSize
        BY <2>7, <4>1 DEF AwaitDone, Finished, Reported, Workers
      <4> DEFINE n == total[c]
                 active == Active(n)
      <4>3. n \in 0..MaxTotal /\ n # 0 /\ active \in 0..(PoolSize + 1) /\ active # 0
        <5>1. n \in 0..MaxTotal /\ 0 \in Indices
          BY DEF Indices
        <5>2. n # 0
          BY <2>7, <3>2, <5>1, <1>00 DEF AwaitDone, RanOf
        <5> QED BY <5>1, <5>2, ActiveType
      <4>4. ASSUME NEW i \in Indices
            PROVE  (\E id \in Finished(c) : i \in Chunk(id, n, active)) <=> i < n
        <5> HIDE DEF active, n
        <5>1. i \in Nat
          BY DEF Indices
        <5>2. CASE i < n
          <6>1. PICK id \in 0..(active - 1) : i \in Chunk(id, n, active)
            BY <4>3, <5>1, <5>2, ChunksCover
          <6>2. id \in 0..PoolSize
            BY <4>3, <6>1
          <6> QED BY <5>2, <6>1, <6>2, <4>2
        <5>3. CASE ~(i < n)
          BY <4>3, <5>1, <5>3 DEF Chunk
        <5> QED BY <5>2, <5>3
      <4>5. cpc[c] = "await" /\ cpc'[c] = "idle" /\ ran'[c] = ran[c] /\ total'[c] = total[c]
        BY <2>7, <3>2 DEF AwaitDone
      <4>6. ASSUME NEW i \in Indices
            PROVE  ran[c][i] = IF i < n THEN 1 ELSE 0
        <5>1. ran[c][i] = IF \E id \in Finished(c) : i \in Chunk(id, n, active) THEN 1 ELSE 0
          BY <4>5, <3>2, <1>00 DEF RanOf, InRun
        <5> QED BY <5>1, <4>4
      <4>7. ~InRun(c)'
        BY <4>5 DEF InRun
      <4> QED BY <3>2, <4>5, <4>6, <4>7, <1>00 DEF RanOf
    <3>3. CASE d = c /\ ~AllCompleted
      <4>1. Finished(d)' = Finished(d) /\ InRun(d) /\ InRun(d)'
        BY <2>7, <3>3 DEF AwaitDone, Finished, InRun
      <4> QED BY <3>1, <4>1, <1>00, RanSame
    <3>4. CASE d # c
      <4>1. cpc'[d] = cpc[d]
        BY <2>7, <3>4 DEF AwaitDone
      <4> QED BY <3>1, <3>4, <4>1, <1>00, RanSame
    <3> QED BY <3>2, <3>3, <3>4
  <2> QED BY <1>2, <2>1, <2>2, <2>3, <2>4, <2>5, <2>6, <2>7 DEF RunStep
<1>3. ASSUME NEW w \in Workers, WorkerStep(w) PROVE RanOf(d)'
  <2>1. CASE WorkerExit(w)
    <3>1. ~InRun(d) /\ cpc' = cpc /\ ran' = ran /\ total' = total
      BY <2>1 DEF WorkerExit, StopInv, InRun
    <3> QED BY <3>1, <1>00, RanSame
  <2>2. CASE WorkerTake(w)
    <3>1. Finished(d)' = Finished(d) /\ cpc' = cpc /\ ran' = ran /\ total' = total
      BY <2>2 DEF WorkerTake, Finished
    <3> QED BY <3>1, <1>00, RanSame
  <2>3. CASE WorkerWait(w)
    <3>1. Finished(d)' = Finished(d) /\ cpc' = cpc /\ ran' = ran /\ total' = total
      BY <2>3 DEF WorkerWait, Finished
    <3> QED BY <3>1, <1>00, RanSame
  <2>4. CASE WorkerChunk(w)
    <3>1. /\ task \in Callers /\ InRun(task)
          /\ wtask[w] = [caller |-> task, total |-> total[task], active |-> Active(total[task])]
          /\ observed[w] = generation
      BY <2>4 DEF WorkerChunk, WorkInv, RunInv
    <3>2. CASE d = task
      <4>1. InRun(d) /\ InRun(d)' /\ total' = total
        BY <2>4, <3>1, <3>2 DEF WorkerChunk, InRun
      <4>2. w \notin Finished(d) /\ w \in 0..PoolSize
        BY <2>4 DEF WorkerChunk, Finished, Workers
      <4>3. Finished(d)' = Finished(d) \cup {w}
        BY <2>4, <3>1 DEF WorkerChunk, Finished
      <4>4. Execute(d, Chunk(w, total[d], Active(total[d])))
        BY <2>4, <3>1, <3>2 DEF WorkerChunk
      <4> QED BY <4>1, <4>2, <4>3, <4>4, RanChunk
    <3>3. CASE d # task
      <4>1. ~InRun(d)
        BY <3>1, <3>3, OneRunner DEF HoldsRun
      <4>2. cpc' = cpc /\ total' = total /\ ran'[d] = ran[d]
        BY <2>4, <3>1, <3>3 DEF WorkerChunk, Execute
      <4> QED BY <4>1, <4>2, <1>00, RanSame
    <3> QED BY <3>2, <3>3
  <2>5. CASE WorkerReport(w)
    <3>1. Finished(d)' = Finished(d)
      BY <2>5 DEF WorkerReport, Finished
    <3>2. /\ ran' = ran /\ total' = total
          /\ cpc'[d] = cpc[d] \/ (InRun(d) /\ InRun(d)')
      BY <2>5 DEF WorkerReport, InRun
    <3> QED BY <3>1, <3>2, <1>00, RanSame
  <2> QED BY <1>3, <2>1, <2>2, <2>3, <2>4, <2>5 DEF WorkerStep
<1>4. CASE SpuriousWake
  <2>1. Finished(d)' = Finished(d)
    BY <1>4 DEF SpuriousWake, Finished
  <2>2. /\ ran' = ran /\ total' = total
        /\ cpc'[d] = cpc[d] \/ (InRun(d) /\ InRun(d)')
    BY <1>4 DEF SpuriousWake, InRun
  <2> QED BY <2>1, <2>2, <1>00, RanSame
<1>5. CASE BeginStop \/ NotifyStop \/ Join
  <2>1. ~InRun(d) /\ cpc' = cpc /\ ran' = ran /\ total' = total
    BY <1>5 DEF BeginStop, NotifyStop, Join, StopInv, InRun
  <2> QED BY <2>1, <1>00, RanSame
<1>6. CASE UNCHANGED vars
  <2>1. Finished(d)' = Finished(d) /\ cpc' = cpc /\ ran' = ran /\ total' = total
    BY <1>6 DEF vars, Finished
  <2> QED BY <2>1, <1>00, RanSame
<1> QED BY <1>1, <1>2, <1>3, <1>4, <1>5, <1>6 DEF Next

LEMMA NextIInv == IInv /\ [Next]_vars => IInv'
BY TypeStep, LockStep, RunStepInv, WorkStep, QuietStep, StopStep, RanStep DEF IInv

\* IInv is an inductive invariant of the pool.
LEMMA Inductive == Spec => []IInv
<1>1. Init => IInv
  BY InitIInv
<1>2. IInv /\ [Next]_vars => IInv'
  BY NextIInv
<1> QED BY <1>1, <1>2, PTL DEF Spec

-----------------------------------------------------------------------------
(***************************************************************************)
(* The safety properties.                                                  *)
(***************************************************************************)

\* Type correctness: in particular `completed` never passes threads.size(), so
\* that the equality the caller waits for cannot be jumped over.
THEOREM TypeCorrect == Spec => []TypeOK
<1>1. IInv => TypeOK
  BY DEF IInv
<1> QED BY <1>1, Inductive, PTL

\* A pool thread never runs a function whose caller has left run().
THEOREM NoUseAfterReturn == Spec => []NoRunAfterReturn
<1>1. IInv => NoRunAfterReturn
  BY OneRunner DEF IInv, NoRunAfterReturn, WorkInv, RunInv, LockInv, HoldsRun, TypeOK
<1> QED BY <1>1, Inductive, PTL

\* run() returns when every index was executed, exactly once, whatever the
\* number of callers and pool threads and the extent of the loop.
THEOREM ExactlyOnce == Spec => []ReturnMeansDone
<1>1. IInv => ReturnMeansDone
  BY DEF IInv, ReturnMeansDone, RanInv, RanOf
<1> QED BY <1>1, Inductive, PTL

\* No pool thread misses a loop: all of them are up to date when a new
\* generation is published.
THEOREM GenerationsSeen == Spec => NoMissedGeneration
<1>1. IInv /\ [Next]_vars =>
        [\A c \in Callers : Publish(c) => \A w \in Workers : observed[w] = generation]_vars
  <2> SUFFICES ASSUME IInv, NEW c \in Callers, Publish(c), NEW w \in Workers
               PROVE  observed[w] = generation
    OBVIOUS
  <2>1. Reported = Workers
    BY OneRunner DEF Publish, IInv, QuietInv, StopInv, HoldsRun, InRun
  <2> QED BY <2>1 DEF Reported
<1> QED BY <1>1, Inductive, PTL DEF Spec, NoMissedGeneration

-----------------------------------------------------------------------------
(***************************************************************************)
(* The pool implements ForkJoin.                                           *)
(***************************************************************************)

\* A participant's chunk is a part of what nobody has executed yet of a call
\* that has its turn, or is no work at all.
LEMMA ChunkIsWork ==
  ASSUME IInv, IInv', NEW c \in Callers, StatusOf(c) \in {"running", "alone"},
         \A d \in Callers : StatusOf(d)' = StatusOf(d),
         NEW S \in SUBSET (0..(total[c] - 1)), Execute(c, S), total' = total
  PROVE  [FJ!Next]_(FJ!vars)
<1> DEFINE handed == [i \in Indices |-> IF i \in S THEN 1 ELSE ran[c][i]]
<1>1. total[c] \in 0..MaxTotal /\ 0..(total[c] - 1) \subseteq Indices
  BY PoolAssumption DEF IInv, TypeOK, Indices
<1>2. [d \in Callers |-> StatusOf(d)]' = [d \in Callers |-> StatusOf(d)]
  OBVIOUS
<1>3. ASSUME NEW i \in Indices
      PROVE  /\ ran[c][i] \in Nat
             /\ ran'[c][i] = IF i \in S THEN ran[c][i] + 1 ELSE ran[c][i]
             /\ ran'[c][i] \in {0, 1}
  <2>1. ran[c][i] \in Nat /\ ran'[c][i] = IF i \in S THEN ran[c][i] + 1 ELSE ran[c][i]
    BY DEF IInv, TypeOK, Execute
  <2>2. RanOf(c)' /\ TypeOK'
    BY DEF IInv, RanInv
  <2>3. cpc'[c] \in CallerPC
    BY <2>2 DEF TypeOK
  <2>4. ran'[c][i] \in {0, 1}
    BY <2>2, <2>3 DEF RanOf, InRun, CallerPC
  <2> QED BY <2>1, <2>4
<1>4. \A i \in S : i \in Indices /\ ran[c][i] = 0
  BY <1>1, <1>3
<1>5. S \subseteq FJ!ToDo(c)
  BY <1>4 DEF FJ!ToDo
<1>6. ran' = [ran EXCEPT ![c] = handed]
  <2>1. ran' = [ran EXCEPT ![c] = [i \in Indices |-> IF i \in S THEN ran[c][i] + 1 ELSE ran[c][i]]]
    BY DEF Execute, IInv, TypeOK
  <2>2. [i \in Indices |-> IF i \in S THEN ran[c][i] + 1 ELSE ran[c][i]] = handed
    <3>1. \A i \in Indices : i \in S => ran[c][i] + 1 = 1
      BY <1>4
    <3> QED BY <3>1
  <2> QED BY <2>1, <2>2
<1>7. CASE S = {}
  <2>1. handed = ran[c] /\ ran \in [Callers -> [Indices -> Nat]]
    BY <1>7 DEF IInv, TypeOK
  <2> HIDE DEF handed
  <2>2. ran' = ran
    BY <1>6, <2>1
  <2> QED BY <2>2, <1>2 DEF FJ!vars
<1>8. CASE S # {}
  <2>1. ran' = [ran EXCEPT ![c] = [i \in FJ!Indices |-> IF i \in S THEN 1 ELSE ran[c][i]]]
    BY <1>6 DEF Indices, FJ!Indices
  <2>2. FJ!Work(c, S)
    BY <1>2, <1>5, <1>8, <2>1 DEF FJ!Work
  <2>3. S \in SUBSET FJ!Indices
    BY <1>1 DEF Indices, FJ!Indices
  <2> QED BY <2>2, <2>3 DEF FJ!Next
<1> QED BY <1>7, <1>8

LEMMA StepImplements == IInv /\ IInv' /\ [Next]_vars => [FJ!Next]_(FJ!vars)
<1> SUFFICES ASSUME IInv, IInv', [Next]_vars PROVE [FJ!Next]_(FJ!vars)
  OBVIOUS
<1> USE PoolAssumption DEF IInv, TypeOK, poolVars, workerVars, callerVars
<1>0. ASSUME total' = total, ran' = ran, \A d \in Callers : StatusOf(d)' = StatusOf(d)
      PROVE  UNCHANGED FJ!vars
  BY <1>0 DEF FJ!vars
<1>00. ASSUME NEW c \in Callers, NEW to, StatusOf(c)' = to,
              \A d \in Callers : d # c => cpc'[d] = cpc[d]
       PROVE  [d \in Callers |-> StatusOf(d)]' = [[d \in Callers |-> StatusOf(d)] EXCEPT ![c] = to]
  <2>1. \A d \in Callers : d # c => StatusOf(d)' = StatusOf(d)
    BY <1>00 DEF StatusOf
  <2> QED BY <1>00, <2>1
<1>1. ASSUME NEW c \in Callers, NEW n \in 1..MaxTotal, Call(c, n) PROVE FJ!Next
  <2>1. (Active(n) <= 1) <=> (n = 1)
    BY DEF Active
  <2>2. StatusOf(c)' = (IF n = 1 THEN "alone" ELSE "waiting") /\ StatusOf(c) = "idle"
    BY <1>1, <2>1 DEF Call, StatusOf
  <2>3. \A d \in Callers : d # c => cpc'[d] = cpc[d]
    BY <1>1 DEF Call
  <2>4. /\ total' = [total EXCEPT ![c] = n]
        /\ ran' = [ran EXCEPT ![c] = [i \in FJ!Indices |-> 0]]
    BY <1>1 DEF Call, Indices, FJ!Indices
  <2>5. FJ!Begin(c, n)
    BY <2>2, <2>3, <2>4, <1>00 DEF FJ!Begin
  <2> QED BY <2>5 DEF FJ!Next
<1>2. ASSUME NEW c \in Callers, StatusOf(c) \in {"running", "alone"},
             cpc' = [cpc EXCEPT ![c] = "idle"], total' = total, ran' = ran
      PROVE  FJ!Next
  <2>1. \A i \in Indices : ran[c][i] = IF i < total[c] THEN 1 ELSE 0
    BY <1>2 DEF RanInv, RanOf
  <2>2. FJ!ToDo(c) = {}
    <3>1. total[c] \in 0..MaxTotal
      OBVIOUS
    <3>2. ASSUME NEW n \in 0..MaxTotal, NEW i \in 0..(n - 1) PROVE i \in Indices /\ i < n
      BY DEF Indices
    <3> DEFINE n == total[c]
    <3> HIDE DEF n
    <3>3. \A i \in 0..(n - 1) : i \in Indices /\ i < n
      <4>1. n \in 0..MaxTotal
        BY <3>1 DEF n
      <4> QED BY <4>1, <3>2
    <3>4. ASSUME NEW i \in 0..(total[c] - 1) PROVE ran[c][i] # 0
      BY <3>3, <2>1 DEF n
    <3> QED BY <3>4 DEF FJ!ToDo
  <2>3. StatusOf(c)' = "idle" /\ \A d \in Callers : d # c => cpc'[d] = cpc[d]
    BY <1>2 DEF StatusOf
  <2>4. FJ!Return(c)
    BY <1>2, <2>2, <2>3, <1>00 DEF FJ!Return
  <2> QED BY <2>4 DEF FJ!Next
<1>3. ASSUME NEW c \in Callers, RunStep(c) PROVE [FJ!Next]_(FJ!vars)
  <2>1. CASE RunInline(c)
    <3>1. /\ StatusOf(c) \in {"running", "alone"} /\ total' = total
          /\ \A d \in Callers : StatusOf(d)' = StatusOf(d)
      BY <2>1 DEF RunInline, StatusOf
    <3> QED BY <2>1, <3>1, ChunkIsWork DEF RunInline
  <2>2. CASE ReturnInline(c)
    <3>1. StatusOf(c) \in {"running", "alone"}
      BY <2>2 DEF ReturnInline, StatusOf
    <3> QED BY <2>2, <3>1, <1>2 DEF ReturnInline
  <2>3. CASE LockRun(c)
    BY <2>3, <1>0 DEF LockRun, StatusOf
  <2>4. CASE Publish(c)
    <3>1. ASSUME NEW d \in Callers PROVE StatusOf(d) # "running"
      <4>1. InRun(d) => d = c
        BY <2>4, OneRunner DEF Publish, HoldsRun
      <4>2. ~InRun(c)
        BY <2>4 DEF Publish, InRun
      <4> QED BY <4>1, <4>2 DEF StatusOf, InRun, CallerPC
    <3>2. /\ StatusOf(c) = "waiting" /\ StatusOf(c)' = "running"
          /\ \A d \in Callers : d # c => cpc'[d] = cpc[d]
          /\ total' = total /\ ran' = ran
      BY <2>4 DEF Publish, StatusOf
    <3>3. FJ!Start(c)
      BY <3>1, <3>2, <1>00 DEF FJ!Start
    <3> QED BY <3>3 DEF FJ!Next
  <2>5. CASE NotifyReady(c)
    BY <2>5, <1>0 DEF NotifyReady, StatusOf
  <2>6. CASE CallerChunk(c)
    <3>1. /\ StatusOf(c) \in {"running", "alone"} /\ total' = total
          /\ \A d \in Callers : StatusOf(d)' = StatusOf(d)
      BY <2>6 DEF CallerChunk, StatusOf
    <3>2. Chunk(0, total[c], Active(total[c])) \in SUBSET (0..(total[c] - 1))
      BY DEF Chunk
    <3> QED BY <2>6, <3>1, <3>2, ChunkIsWork DEF CallerChunk
  <2>7. CASE AwaitDone(c) /\ AllCompleted
    <3>1. StatusOf(c) \in {"running", "alone"}
      BY <2>7 DEF AwaitDone, StatusOf
    <3> QED BY <2>7, <3>1, <1>2 DEF AwaitDone
  <2>8. CASE AwaitDone(c) /\ ~AllCompleted
    BY <2>8, <1>0 DEF AwaitDone, StatusOf
  <2> QED BY <1>3, <2>1, <2>2, <2>3, <2>4, <2>5, <2>6, <2>7, <2>8 DEF RunStep
<1>4. ASSUME NEW w \in Workers, WorkerStep(w) PROVE [FJ!Next]_(FJ!vars)
  <2>1. CASE WorkerChunk(w)
    <3>1. /\ task \in Callers /\ InRun(task) /\ taskTotal = total[task]
          /\ wtask[w] = [caller |-> task, total |-> taskTotal, active |-> activeWorkers]
      BY <2>1 DEF WorkerChunk, WorkInv, RunInv
    <3>2. Chunk(w, total[task], activeWorkers) \in SUBSET (0..(total[task] - 1))
      BY DEF Chunk
    <3>3. Execute(task, Chunk(w, total[task], activeWorkers)) /\ total' = total /\ cpc' = cpc
      BY <2>1, <3>1 DEF WorkerChunk
    <3>4. /\ StatusOf(task) \in {"running", "alone"}
          /\ \A d \in Callers : StatusOf(d)' = StatusOf(d)
      BY <3>1, <3>3 DEF InRun, StatusOf
    <3> QED BY <3>1, <3>2, <3>3, <3>4, ChunkIsWork
  <2>2. CASE WorkerExit(w) \/ WorkerTake(w) \/ WorkerWait(w)
    BY <2>2, <1>0 DEF WorkerExit, WorkerTake, WorkerWait, StatusOf
  <2>3. CASE WorkerReport(w)
    BY <2>3, <1>0 DEF WorkerReport, StatusOf
  <2> QED BY <1>4, <2>1, <2>2, <2>3 DEF WorkerStep
<1>5. CASE SpuriousWake
  BY <1>5, <1>0 DEF SpuriousWake, StatusOf
<1>6. CASE BeginStop \/ NotifyStop \/ Join \/ UNCHANGED vars
  BY <1>6, <1>0 DEF BeginStop, NotifyStop, Join, vars, StatusOf
<1> QED BY <1>1, <1>3, <1>4, <1>5, <1>6 DEF Next

\* Behind parallelFor is a fork/join: a function is handed an index of its loop
\* only between the publication of that loop and the return of its call, never
\* the same index again, all of them by then, and only one caller's loop is
\* published at a time.
THEOREM PoolImplementsForkJoin == Spec => ImplementsForkJoin
<1>1. Init => FJ!Init
  <2> SUFFICES ASSUME Init PROVE FJ!Init
    OBVIOUS
  <2>1. \A c \in Callers : StatusOf(c) = "idle"
    BY DEF Init, StatusOf
  <2> QED BY <2>1 DEF Init, FJ!Init, Indices, FJ!Indices
<1>2. IInv /\ IInv' /\ [Next]_vars => [FJ!Next]_(FJ!vars)
  BY StepImplements
<1> QED BY <1>1, <1>2, Inductive, PTL DEF Spec, ImplementsForkJoin, FJ!Spec

=============================================================================
