----------------------------- MODULE ThreadPool -----------------------------
(***************************************************************************)
(* The reusable fork/join pool of the CPU runtime: RuntimeThreadPool in    *)
(* runtime/SARRuntime.cpp.  Application threads (Callers) hand it a loop   *)
(* over [0, total); each call is cut in contiguous chunks, the caller runs *)
(* chunk 0 and the pool's threads the others.                              *)
(*                                                                         *)
(* Every critical section of `mutex` is one action.  A condition-variable  *)
(* wait tests its predicate and blocks in one action, as the C++ wait      *)
(* does; a blocked thread is at "asleep" until a notification (or a        *)
(* spurious wake-up) sends it back to its test.                            *)
(***************************************************************************)
EXTENDS Integers, FiniteSets

CONSTANTS
  Callers,      \* application threads that call parallelFor
  PoolSize,     \* threads.size(): workerCount - 1 pool threads, ids 1..PoolSize
  MaxTotal,     \* bound: the longest loop a caller submits
  MaxCalls,     \* bound: calls made in one behaviour
  Nobody        \* runMutex is free; no task published yet

ASSUME PoolAssumption ==
  /\ PoolSize \in Nat \ {0}
  /\ MaxTotal \in Nat \ {0}
  /\ MaxCalls \in Nat
  /\ IsFiniteSet(Callers)
  /\ Nobody \notin Callers

Workers == 1..PoolSize
Indices == 0..(MaxTotal - 1)

VARIABLES
  runMutex,       \* the caller inside run(), or Nobody
  task,           \* the caller whose function is published
  taskTotal,
  activeWorkers,
  completed,
  generation,
  stopping,
  wpc,            \* where each pool thread is in workerLoop
  observed,
  wtask,          \* each pool thread's local copy of task/total/active
  cpc,            \* where each caller is in run()
  total,          \* the argument of each caller's last call
  ran,            \* history: how often each index of that call was executed
  dpc             \* the destructor

poolVars == <<task, taskTotal, activeWorkers, completed, generation, stopping>>
workerVars == <<wpc, observed, wtask>>
callerVars == <<cpc, total, runMutex>>
vars == <<poolVars, workerVars, callerVars, ran, dpc>>

WorkerPC == {"check", "asleep", "chunk", "report", "exited"}
CallerPC == {"idle", "inline", "return", "lock", "publish", "notify", "chunk",
             "await", "asleep"}

-----------------------------------------------------------------------------
(***************************************************************************)
(* The partition of a loop (runChunk).                                     *)
(***************************************************************************)

Active(n) == IF n <= PoolSize + 1 THEN n ELSE PoolSize + 1

\* Mutated form: the division rounded down.
ChunkSizeFloor(n, active) == n \div active

ChunkSize(n, active) == (n + active - 1) \div active

Chunk(id, n, active) ==
  IF id >= active
  THEN {}
  ELSE {i \in 0..(n - 1) : /\ id * ChunkSize(n, active) <= i
                           /\ i < (id + 1) * ChunkSize(n, active)}

Execute(c, S) ==
  ran' = [ran EXCEPT ![c] = [i \in Indices |-> IF i \in S THEN @[i] + 1 ELSE @[i]]]

-----------------------------------------------------------------------------
Init ==
  /\ runMutex = Nobody
  /\ task = Nobody
  /\ taskTotal = 0
  /\ activeWorkers = 0
  /\ completed = 0
  /\ generation = 0
  /\ stopping = FALSE
  /\ wpc = [w \in Workers |-> "check"]
  /\ observed = [w \in Workers |-> 0]
  /\ wtask = [w \in Workers |-> [caller |-> Nobody, total |-> 0, active |-> 0]]
  /\ cpc = [c \in Callers |-> "idle"]
  /\ total = [c \in Callers |-> 0]
  /\ ran = [c \in Callers |-> [i \in Indices |-> 0]]
  /\ dpc = "alive"

-----------------------------------------------------------------------------
(***************************************************************************)
(* run(total, function)                                                    *)
(***************************************************************************)

\* A caller enters run(): a loop with at most one active participant never
\* touches the pool.  The extents a caller passes are positive: the exported
\* entry points refuse the others.
Call(c, n) ==
  /\ cpc[c] = "idle"
  /\ dpc = "alive"
  /\ generation < MaxCalls
  /\ total' = [total EXCEPT ![c] = n]
  /\ ran' = [ran EXCEPT ![c] = [i \in Indices |-> 0]]
  /\ cpc' = [cpc EXCEPT ![c] = IF Active(n) <= 1 THEN "inline" ELSE "lock"]
  /\ UNCHANGED <<runMutex, poolVars, workerVars, dpc>>

RunInline(c) ==
  /\ cpc[c] = "inline"
  /\ Execute(c, 0..(total[c] - 1))
  /\ cpc' = [cpc EXCEPT ![c] = "return"]
  /\ UNCHANGED <<runMutex, total, poolVars, workerVars, dpc>>

ReturnInline(c) ==
  /\ cpc[c] = "return"
  /\ cpc' = [cpc EXCEPT ![c] = "idle"]
  /\ UNCHANGED <<runMutex, total, poolVars, workerVars, ran, dpc>>

LockRun(c) ==
  /\ cpc[c] = "lock"
  /\ runMutex = Nobody
  /\ runMutex' = c
  /\ cpc' = [cpc EXCEPT ![c] = "publish"]
  /\ UNCHANGED <<total, poolVars, workerVars, ran, dpc>>

\* Mutated form: the count of the previous loop is kept.
PublishKeepsCompleted(c) ==
  /\ cpc[c] = "publish"
  /\ task' = c
  /\ taskTotal' = total[c]
  /\ activeWorkers' = Active(total[c])
  /\ generation' = generation + 1
  /\ cpc' = [cpc EXCEPT ![c] = "notify"]
  /\ UNCHANGED <<completed, stopping, runMutex, total, workerVars, ran, dpc>>

Publish(c) ==
  /\ cpc[c] = "publish"
  /\ task' = c
  /\ taskTotal' = total[c]
  /\ activeWorkers' = Active(total[c])
  /\ completed' = 0
  /\ generation' = generation + 1
  /\ cpc' = [cpc EXCEPT ![c] = "notify"]
  /\ UNCHANGED <<stopping, runMutex, total, workerVars, ran, dpc>>

\* Mutated form: notify_one for notify_all.
WakeOneWorker ==
  LET asleep == {w \in Workers : wpc[w] = "asleep"}
  IN  IF asleep = {}
      THEN wpc' = wpc
      ELSE \E w \in asleep : wpc' = [wpc EXCEPT ![w] = "check"]

WakeWorkers == wpc' = [w \in Workers |-> IF wpc[w] = "asleep" THEN "check" ELSE wpc[w]]

\* ready.notify_all(), after the lock is released.
NotifyReady(c) ==
  /\ cpc[c] = "notify"
  /\ WakeWorkers
  /\ cpc' = [cpc EXCEPT ![c] = "chunk"]
  /\ UNCHANGED <<runMutex, total, poolVars, observed, wtask, ran, dpc>>

\* Mutated form: runMutex guards the publication and the chunk, not the wait.
CallerChunkUnlocks(c) ==
  /\ cpc[c] = "chunk"
  /\ Execute(c, Chunk(0, total[c], Active(total[c])))
  /\ cpc' = [cpc EXCEPT ![c] = "await"]
  /\ runMutex' = Nobody
  /\ UNCHANGED <<total, poolVars, workerVars, dpc>>

CallerChunk(c) ==
  /\ cpc[c] = "chunk"
  /\ Execute(c, Chunk(0, total[c], Active(total[c])))
  /\ cpc' = [cpc EXCEPT ![c] = "await"]
  /\ UNCHANGED <<runMutex, total, poolVars, workerVars, dpc>>

\* Mutated form: wait for the threads that were given a chunk, not for all.
ActiveCompleted == completed >= activeWorkers - 1

AllCompleted == completed = PoolSize

\* done.wait(lock, ...): returns, releasing runMutex, or blocks.
AwaitDone(c) ==
  /\ cpc[c] = "await"
  /\ IF AllCompleted
     THEN /\ cpc' = [cpc EXCEPT ![c] = "idle"]
          /\ runMutex' = Nobody
     ELSE /\ cpc' = [cpc EXCEPT ![c] = "asleep"]
          /\ UNCHANGED runMutex
  /\ UNCHANGED <<total, poolVars, workerVars, ran, dpc>>

-----------------------------------------------------------------------------
(***************************************************************************)
(* workerLoop(id)                                                          *)
(***************************************************************************)

\* ready.wait(lock, stopping || generation != observed), then the copy of the
\* task made under the same lock.
WorkerExit(w) ==
  /\ wpc[w] = "check"
  /\ stopping
  /\ wpc' = [wpc EXCEPT ![w] = "exited"]
  /\ UNCHANGED <<poolVars, observed, wtask, callerVars, ran, dpc>>

WorkerTake(w) ==
  /\ wpc[w] = "check"
  /\ ~stopping
  /\ generation # observed[w]
  /\ observed' = [observed EXCEPT ![w] = generation]
  /\ wtask' = [wtask EXCEPT ![w] =
                 [caller |-> task, total |-> taskTotal, active |-> activeWorkers]]
  /\ wpc' = [wpc EXCEPT ![w] = "chunk"]
  /\ UNCHANGED <<poolVars, callerVars, ran, dpc>>

WorkerWait(w) ==
  /\ wpc[w] = "check"
  /\ ~stopping
  /\ generation = observed[w]
  /\ wpc' = [wpc EXCEPT ![w] = "asleep"]
  /\ UNCHANGED <<poolVars, observed, wtask, callerVars, ran, dpc>>

WorkerChunk(w) ==
  /\ wpc[w] = "chunk"
  /\ Execute(wtask[w].caller, Chunk(w, wtask[w].total, wtask[w].active))
  /\ wpc' = [wpc EXCEPT ![w] = "report"]
  /\ UNCHANGED <<poolVars, observed, wtask, callerVars, dpc>>

\* ++completed; the last worker notifies the one caller waiting on `done`.
WorkerReport(w) ==
  /\ wpc[w] = "report"
  /\ completed' = completed + 1
  /\ wpc' = [wpc EXCEPT ![w] = "check"]
  /\ IF completed + 1 = PoolSize
     THEN cpc' = [c \in Callers |-> IF cpc[c] = "asleep" THEN "await" ELSE cpc[c]]
     ELSE UNCHANGED cpc
  /\ UNCHANGED <<task, taskTotal, activeWorkers, generation, stopping,
                 observed, wtask, total, runMutex, ran, dpc>>

\* C++ allows a wait to wake with nobody notifying it.
SpuriousWake ==
  /\ \/ \E w \in Workers : /\ wpc[w] = "asleep"
                           /\ wpc' = [wpc EXCEPT ![w] = "check"]
                           /\ UNCHANGED cpc
     \/ \E c \in Callers : /\ cpc[c] = "asleep"
                           /\ cpc' = [cpc EXCEPT ![c] = "await"]
                           /\ UNCHANGED wpc
  /\ UNCHANGED <<poolVars, observed, wtask, total, runMutex, ran, dpc>>

-----------------------------------------------------------------------------
(***************************************************************************)
(* ~RuntimeThreadPool: the pool is a function-local static, destroyed when *)
(* the process exits, after the calls on it.                               *)
(***************************************************************************)

BeginStop ==
  /\ dpc = "alive"
  /\ \A c \in Callers : cpc[c] = "idle"
  /\ stopping' = TRUE
  /\ generation' = generation + 1
  /\ dpc' = "notify"
  /\ UNCHANGED <<task, taskTotal, activeWorkers, completed, workerVars, callerVars, ran>>

NotifyStop ==
  /\ dpc = "notify"
  /\ WakeWorkers
  /\ dpc' = "join"
  /\ UNCHANGED <<poolVars, observed, wtask, callerVars, ran>>

Join ==
  /\ dpc = "join"
  /\ \A w \in Workers : wpc[w] = "exited"
  /\ dpc' = "destroyed"
  /\ UNCHANGED <<poolVars, workerVars, callerVars, ran>>

-----------------------------------------------------------------------------
RunStep(c) == \/ RunInline(c) \/ ReturnInline(c)
              \/ LockRun(c) \/ Publish(c) \/ NotifyReady(c)
              \/ CallerChunk(c) \/ AwaitDone(c)

WorkerStep(w) == \/ WorkerExit(w) \/ WorkerTake(w) \/ WorkerWait(w)
                 \/ WorkerChunk(w) \/ WorkerReport(w)

Next ==
  \/ \E c \in Callers : RunStep(c)
  \/ \E c \in Callers, n \in 1..MaxTotal : Call(c, n)
  \/ \E w \in Workers : WorkerStep(w)
  \/ SpuriousWake
  \/ BeginStop \/ NotifyStop \/ Join

\* The operating system runs every runnable thread and the destructor, once
\* begun, finishes its own steps; nobody is obliged to call, to stop the pool
\* or to wake spuriously, and a contended runMutex may be granted unfairly.
Fairness ==
  /\ \A c \in Callers : WF_vars(RunStep(c))
  /\ \A w \in Workers : WF_vars(WorkerStep(w))
  /\ WF_vars(NotifyStop \/ Join)

Spec == Init /\ [][Next]_vars
FairSpec == Spec /\ Fairness

-----------------------------------------------------------------------------
(***************************************************************************)
(* Properties                                                              *)
(***************************************************************************)

\* Every variable has the shape of the C++ field it stands for (RuntimeThreadPool).
TypeOK ==
  /\ runMutex \in Callers \cup {Nobody}
  /\ task \in Callers \cup {Nobody}
  /\ taskTotal \in 0..MaxTotal
  /\ activeWorkers \in 0..(PoolSize + 1)
  /\ completed \in 0..PoolSize
  /\ generation \in Nat
  /\ stopping \in BOOLEAN
  /\ wpc \in [Workers -> WorkerPC]
  /\ observed \in [Workers -> Nat]
  /\ wtask \in [Workers -> [caller : Callers \cup {Nobody}, total : 0..MaxTotal,
                            active : 0..(PoolSize + 1)]]
  /\ cpc \in [Callers -> CallerPC]
  /\ total \in [Callers -> 0..MaxTotal]
  /\ ran \in [Callers -> [Indices -> Nat]]
  /\ dpc \in {"alive", "notify", "join", "destroyed"}

InRun(c) == cpc[c] \in {"chunk", "notify", "await", "asleep"}

\* The function a pool thread copied captures the caller's stack by reference
\* (fft2d and interp1d2d pass [&] lambdas): a thread that holds a copy it has
\* still to run or to report finds its caller inside run(), on that very call.
NoRunAfterReturn ==
  \A w \in Workers : wpc[w] \in {"chunk", "report"} =>
    /\ runMutex = wtask[w].caller
    /\ InRun(wtask[w].caller)
    /\ wtask[w].total = total[wtask[w].caller]
    /\ observed[w] = generation

\* When run() returns, every index of the loop has been executed exactly once.
ReturnMeansDone ==
  \A c \in Callers : cpc[c] = "idle" =>
    \A i \in Indices : ran[c][i] = IF i < total[c] THEN 1 ELSE 0

\* A pool thread never skips a published loop: run() waits for all of them, so
\* at every publication each one has seen the generation before it.
NoMissedGeneration ==
  [][ \A c \in Callers : Publish(c) => \A w \in Workers : observed[w] = generation ]_vars

\* What a caller sees of its call: it waits until its loop is published.
StatusOf(c) ==
  CASE cpc[c] = "idle" -> "idle"
    [] cpc[c] \in {"lock", "publish"} -> "waiting"
    [] cpc[c] \in {"inline", "return"} -> "alone"
    [] OTHER -> "running"

\* The pool implements ForkJoin.  The counts of executions are mapped as they are,
\* so that every chunk has to be a part of what is still to be executed, of a call
\* that has its turn: an index executed again, or outside of the loop, or before
\* the loop is published, or after run() has returned, is no step of ForkJoin, nor
\* is a loop published while another caller is in its own (runMutex).
FJ == INSTANCE ForkJoin WITH
        status <- [c \in Callers |-> StatusOf(c)],
        length <- total,
        count <- ran

ImplementsForkJoin == FJ!Spec

\* A call that holds runMutex returns: no wake-up on `ready` or `done` is lost.
RunTerminates == \A c \in Callers : cpc[c] = "publish" ~> cpc[c] = "idle"

\* The destructor's join terminates: every pool thread sees `stopping`.
StopTerminates == dpc = "notify" ~> dpc = "destroyed"

\* Nobody waits for ever on either condition variable, before or after stopping.
NoLostWakeup == RunTerminates /\ StopTerminates

-----------------------------------------------------------------------------
(***************************************************************************)
(* The inductive invariant behind the safety properties.                   *)
(***************************************************************************)

HoldsRun(c) == cpc[c] = "publish" \/ InRun(c)

\* The pool threads that are done with the current generation.
Reported == {w \in Workers : observed[w] = generation /\ wpc[w] \in {"check", "asleep"}}

\* The participants of c's published loop that have executed their chunk.
Finished(c) ==
  (IF cpc[c] \in {"await", "asleep"} THEN {0} ELSE {})
    \cup {w \in Workers : /\ observed[w] = generation
                          /\ wpc[w] \in {"report", "check", "asleep"}}

LockInv == \A c \in Callers : HoldsRun(c) <=> runMutex = c

RunInv ==
  \A c \in Callers : InRun(c) =>
    /\ task = c
    /\ taskTotal = total[c]
    /\ activeWorkers = Active(total[c])
    /\ completed = Cardinality(Reported)

WorkInv ==
  \A w \in Workers : wpc[w] \in {"chunk", "report"} =>
    /\ task \in Callers
    /\ InRun(task)
    /\ observed[w] = generation
    /\ wtask[w] = [caller |-> task, total |-> taskTotal, active |-> activeWorkers]

\* Outside a run every pool thread has caught up: no generation can be missed.
QuietInv == (dpc = "alive" /\ \A c \in Callers : ~InRun(c)) => Reported = Workers

StopInv ==
  /\ stopping <=> dpc # "alive"
  /\ dpc # "alive" => /\ \A c \in Callers : cpc[c] = "idle"
                      /\ \A w \in Workers : wpc[w] \notin {"chunk", "report"}
  /\ \A w \in Workers : wpc[w] = "exited" => stopping

\* What is executed of a caller's loop: all of it before it returns, exactly the
\* chunks of the participants that are done with theirs while it is published.
RanOf(c) ==
  \A i \in Indices :
    /\ cpc[c] \in {"idle", "return"} => ran[c][i] = IF i < total[c] THEN 1 ELSE 0
    /\ cpc[c] \in {"inline", "lock", "publish"} => ran[c][i] = 0
    /\ InRun(c) => ran[c][i] =
         IF \E id \in Finished(c) : i \in Chunk(id, total[c], Active(total[c])) THEN 1 ELSE 0
    /\ cpc[c] # "idle" => total[c] # 0

RanInv == \A c \in Callers : RanOf(c)

IInv == TypeOK /\ LockInv /\ RunInv /\ WorkInv /\ QuietInv /\ StopInv /\ RanInv

=============================================================================
