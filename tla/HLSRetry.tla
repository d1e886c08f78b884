------------------------------ MODULE HLSRetry ------------------------------
(***************************************************************************)
(* The HLS backend's compilation of one kernel (backends/hls/compiler.py,  *)
(* with adopt and repin of config.py, the cached facts and plans of        *)
(* autotune.py and the trace of retry.py): lowering, the ladder of retries *)
(* when a schedule exceeds the device, and the files of the cache entry    *)
(* that a later compilation reads.                                         *)
(*                                                                         *)
(* Processes share one entry.  Each write or removal of a file is a step,  *)
(* a process may be interrupted between any two, and its files stay.  The  *)
(* tools are deterministic: Verdicts says what sar-opt answers for each    *)
(* design.  What a file holds is modelled by what it describes: affine IR  *)
(* is the parameters it was lowered with, measured facts are the IR they   *)
(* were measured from.                                                     *)
(***************************************************************************)
EXTENDS Naturals, Sequences

CONSTANTS
  Procs,
  Starts,        \* strategies: what the planner, or the user, decides at first
  Pinnable,      \* sets of keys the compiler derives, the others being pinned
  Devices,       \* resource caps
  Verdicts,      \* what the scheduler answers for a device and a design
  Streamed,      \* the threshold that streams every full-size plane
  MaxCompiles,   \* bound: compilations begun
  MaxCrashes,    \* bound: interruptions
  None

Keys == {"threshold", "factor", "io", "rows", "reuse"}

\* The parameters a design is lowered with, and those it is scheduled with.
IRs == [io : Nat, rows : Nat, reuse : Nat]
Designs == [ir : IRs, threshold : Nat, factor : Nat]
\* RetryTrace, and the decisions kept beside the C++.
Traces == Seq([action : {"bank", "stream", "narrow", "lanes"}, after : Nat])
Decisions == [values : [Keys -> Nat], trace : Traces]

ASSUME RetryAssumption ==
  /\ Starts \subseteq [Keys -> Nat]
  /\ Pinnable \subseteq SUBSET Keys
  /\ \A v \in Devices : \A d \in DOMAIN Verdicts[v] : Verdicts[v][d] \in {"fits", "memory", "partition"}
  /\ Streamed \in Nat \ {0}
  /\ MaxCompiles \in Nat /\ MaxCrashes \in Nat
  /\ None \notin Nat \cup IRs \cup Designs \cup [Keys -> Nat] \cup Decisions

VARIABLES
  initial,     \* the first strategy of this kernel and these options
  derived,     \* the keys whose provenance is "derived"
  share,       \* should_share_buffers, for the unshared IR of this kernel
  device,
  files,       \* the cache entry
  pc,
  config,      \* HLSConfig of each compilation, threshold 0 while null
  module,      \* the affine IR it holds
  threshold,   \* locals of build(): the threshold tried
  io,          \*   and the transfer width lowered
  relowered,   \* module is not lowered
  scheduled,   \* the design the scheduler accepted
  trace,       \* RetryTrace.items
  compiles, crashes,
  disturbed    \* history: "interrupt" and "overlap", once either happened

kernel == <<initial, derived, share, device>>
session == <<pc, config, module, threshold, io, relowered, scheduled, trace>>
counts == <<compiles, crashes, disturbed>>
vars == <<kernel, files, session, counts>>

Init ==
  /\ initial \in Starts
  /\ derived \in Pinnable
  /\ share \in BOOLEAN
  /\ device \in Devices
  /\ files = [reuse |-> None, affine |-> None, facts |-> None, plan |-> None,
              hls |-> None, decisions |-> None, cpp |-> None]
  /\ pc = [p \in Procs |-> "idle"]
  /\ config = [p \in Procs |-> initial]
  /\ module = [p \in Procs |-> None]
  /\ threshold = [p \in Procs |-> 0]
  /\ io = [p \in Procs |-> 0]
  /\ relowered = [p \in Procs |-> FALSE]
  /\ scheduled = [p \in Procs |-> None]
  /\ trace = [p \in Procs |-> <<>>]
  /\ compiles = 0 /\ crashes = 0 /\ disturbed = {}

-----------------------------------------------------------------------------
Go(p, step) == pc' = [pc EXCEPT ![p] = step]

Write(name, content) == files' = [files EXCEPT ![name] = content]

\* sar-opt --sar-to-affine-pipeline with a configuration and a transfer width.
Lower(c, width) == [io |-> width, rows |-> c.rows, reuse |-> c.reuse]

\* autotune.plan, second call: threshold and banking come from the kernel (the
\* same ones, for any IR of it), the other values from the configuration.
Plan(c) == [c EXCEPT !.threshold = initial.threshold, !.factor = initial.factor]

\* HLSConfig.adopt, then repin of each derived key: a pinned value stands, and
\* the sharing is the one the entry was lowered with.
Adopt(c, values) == [k \in Keys |-> IF k \in derived /\ k # "reuse" THEN values[k] ELSE c[k]]

Record(p, action, after) ==
  trace' = [trace EXCEPT ![p] = Append(@, [action |-> action, after |-> after])]

\* compile(): a fresh configuration takes what the planner decides for the
\* traced kernel; the threshold waits for the lowered one.
Resolve(p) ==
  /\ pc[p] = "idle"
  /\ compiles < MaxCompiles
  /\ compiles' = compiles + 1
  /\ disturbed' = IF \E q \in Procs : pc[q] # "idle" THEN disturbed \cup {"overlap"} ELSE disturbed
  /\ config' = [config EXCEPT ![p] =
                  [k \in Keys |-> IF k = "threshold" /\ k \in derived THEN 0 ELSE initial[k]]]
  /\ relowered' = [relowered EXCEPT ![p] = FALSE]
  /\ scheduled' = [scheduled EXCEPT ![p] = None]
  /\ trace' = [trace EXCEPT ![p] = <<>>]
  /\ Go(p, "lower")
  /\ UNCHANGED <<kernel, files, module, threshold, io, crashes>>

\* The lower stage: cached IR, or the kernel lowered privately and, when the
\* placement would stream it, lowered again sharing allocations.
LowerKernel(p) ==
  /\ pc[p] = "lower"
  /\ IF files.affine # None
     THEN /\ module' = [module EXCEPT ![p] = files.affine]
          /\ Go(p, "reuse")
          /\ UNCHANGED files
     ELSE LET shared == "reuse" \in derived /\ share
              used == IF shared THEN [config[p] EXCEPT !.reuse = 1] ELSE config[p]
          IN  /\ module' = [module EXCEPT ![p] = Lower(used, config[p].io)]
              /\ IF shared THEN Write("reuse", 1) ELSE UNCHANGED files
              /\ Go(p, "putAffine")
  /\ UNCHANGED <<kernel, config, threshold, io, relowered, scheduled, trace, counts>>

PutAffine(p) ==
  /\ pc[p] = "putAffine"
  /\ Write("affine", module[p])
  /\ Go(p, "reuse")
  /\ UNCHANGED <<kernel, config, module, threshold, io, relowered, scheduled, trace, counts>>

\* The sharing this entry was lowered with is replayed.
AdoptReuse(p) ==
  /\ pc[p] = "reuse"
  /\ config' = IF files.reuse # None /\ "reuse" \in derived
               THEN [config EXCEPT ![p].reuse = files.reuse] ELSE config
  /\ Go(p, "facts")
  /\ UNCHANGED <<kernel, files, module, threshold, io, relowered, scheduled, trace, counts>>

\* Mutated form: facts just stored are looked up again.
PutFactsAndReread(p) ==
  /\ pc[p] = "putFacts"
  /\ Write("facts", module[p])
  /\ Go(p, "facts")
  /\ UNCHANGED <<kernel, config, module, threshold, io, relowered, scheduled, trace, counts>>

\* cached_kernel_facts: facts of other IR, by their digest, are removed.
Measure(p) ==
  /\ pc[p] = "facts"
  /\ IF files.facts = module[p]
     THEN Go(p, "plan") /\ UNCHANGED files
     ELSE Go(p, "putFacts") /\ Write("facts", None)
  /\ UNCHANGED <<kernel, config, module, threshold, io, relowered, scheduled, trace, counts>>

\* ... and measured again.
PutFacts(p) ==
  /\ pc[p] = "putFacts"
  /\ Write("facts", module[p])
  /\ Go(p, "plan")
  /\ UNCHANGED <<kernel, config, module, threshold, io, relowered, scheduled, trace, counts>>

\* cached_performance_plan, before scheduling: the entry's plan, or a new one.
PlanPlacement(p) ==
  /\ pc[p] = "plan" /\ scheduled[p] = None
  /\ LET values == IF files.plan # None THEN files.plan ELSE Plan(config[p])
     IN  /\ Write("plan", values)
         /\ config' = [config EXCEPT ![p] = Adopt(@, values)]
  /\ Go(p, "check")
  /\ UNCHANGED <<kernel, module, threshold, io, relowered, scheduled, trace, counts>>

\* cached_stage: the C++ of the entry, or build() starts.
CheckCached(p) ==
  /\ pc[p] = "check"
  /\ IF files.cpp # None
     THEN Go(p, "replay") /\ UNCHANGED <<threshold, io>>
     ELSE /\ threshold' = [threshold EXCEPT ![p] = config[p].threshold]
          /\ io' = [io EXCEPT ![p] = config[p].io]
          /\ Go(p, "schedule")
  /\ UNCHANGED <<kernel, files, config, module, relowered, scheduled, trace, counts>>

-----------------------------------------------------------------------------
(***************************************************************************)
(* The ladder                                                              *)
(***************************************************************************)
Tried(p) == [ir |-> module[p], threshold |-> threshold[p], factor |-> config[p].factor]

\* What sar-opt answers, the overflow markers in its error output included.
Verdict(d) == Verdicts[device][d]

Accepts(d) == Verdict(d) = "fits"

\* Mutated form: the result of a later rung is not kept.
ScheduleForgets(p) ==
  /\ pc[p] = "schedule"
  /\ IF Accepts(Tried(p))
     THEN /\ scheduled' = IF relowered[p] THEN scheduled ELSE [scheduled EXCEPT ![p] = Tried(p)]
          /\ Go(p, "commit")
     ELSE UNCHANGED scheduled /\ Go(p, "refused")
  /\ UNCHANGED <<kernel, files, config, module, threshold, io, relowered, trace, counts>>

\* One run of sar-hls.
Schedule(p) ==
  /\ pc[p] = "schedule"
  /\ IF Accepts(Tried(p))
     THEN scheduled' = [scheduled EXCEPT ![p] = Tried(p)] /\ Go(p, "commit")
     ELSE UNCHANGED scheduled /\ Go(p, "refused")
  /\ UNCHANGED <<kernel, files, config, module, threshold, io, relowered, trace, counts>>

CanBank(p) == /\ Verdict(Tried(p)) = "partition"
              /\ "factor" \in derived /\ config[p].factor # 1

CanStream(p) == "threshold" \in derived /\ Streamed < threshold[p]

\* Mutated form: a width of two is thought the narrowest.
CanNarrowAboveTwo(p) == io[p] > 2 /\ "io" \in derived

CanNarrow(p) == io[p] > 1 /\ "io" \in derived

CanDropLanes(p) == config[p].rows > 1 /\ "rows" \in derived

\* schedule_with_banking: an overflow of partitioned banks halves their number.
HalveBanks(p) ==
  /\ pc[p] = "refused" /\ CanBank(p)
  /\ config' = [config EXCEPT ![p].factor = @ \div 2]
  /\ Record(p, "bank", config[p].factor \div 2)
  /\ Go(p, "schedule")
  /\ UNCHANGED <<kernel, files, module, threshold, io, relowered, scheduled, counts>>

\* Every full-size plane is streamed, from here on.
StreamPlanes(p) ==
  /\ pc[p] = "refused" /\ ~CanBank(p) /\ CanStream(p)
  /\ threshold' = [threshold EXCEPT ![p] = Streamed]
  /\ Record(p, "stream", Streamed)
  /\ Go(p, "schedule")
  /\ UNCHANGED <<kernel, files, config, module, io, relowered, scheduled, counts>>

\* The FFT transfer is halved and the kernel lowered again.
NarrowTransfer(p) ==
  /\ pc[p] = "refused" /\ ~CanBank(p) /\ ~CanStream(p) /\ CanNarrow(p)
  /\ io' = [io EXCEPT ![p] = @ \div 2]
  /\ module' = [module EXCEPT ![p] = Lower(config[p], io[p] \div 2)]
  /\ relowered' = [relowered EXCEPT ![p] = TRUE]
  /\ Record(p, "narrow", io[p] \div 2)
  /\ Go(p, "schedule")
  /\ UNCHANGED <<kernel, files, config, threshold, scheduled, counts>>

\* The FFT lanes are halved and the kernel lowered again.
DropLanes(p) ==
  /\ pc[p] = "refused" /\ ~CanBank(p) /\ ~CanStream(p) /\ ~CanNarrow(p) /\ CanDropLanes(p)
  /\ LET c == [config[p] EXCEPT !.rows = @ \div 2]
     IN  /\ config' = [config EXCEPT ![p] = c]
         /\ module' = [module EXCEPT ![p] = Lower(c, io[p])]
         /\ Record(p, "lanes", c.rows)
  /\ relowered' = [relowered EXCEPT ![p] = TRUE]
  /\ Go(p, "schedule")
  /\ UNCHANGED <<kernel, files, threshold, io, scheduled, counts>>

\* HLSConfigError: no rung is left.
GiveUp(p) ==
  /\ pc[p] = "refused"
  /\ ~CanBank(p) /\ ~CanStream(p) /\ ~CanNarrow(p) /\ ~CanDropLanes(p)
  /\ Go(p, "failed")
  /\ UNCHANGED <<kernel, files, config, module, threshold, io, relowered, scheduled, trace, counts>>

-----------------------------------------------------------------------------
(***************************************************************************)
(* What is kept                                                            *)
(***************************************************************************)

\* The values the loops tried are repinned together.
Committed(p) ==
  [k \in Keys |-> IF k \notin derived THEN config[p][k]
                  ELSE IF k = "threshold" THEN threshold[p]
                  ELSE IF k = "io" THEN io[p] ELSE config[p][k]]

\* One schedule succeeded.
Commit(p) ==
  /\ pc[p] = "commit"
  /\ config' = [config EXCEPT ![p] = Committed(p)]
  /\ Go(p, IF relowered[p] THEN "dropFacts" ELSE "facts")
  /\ UNCHANGED <<kernel, files, module, threshold, io, relowered, scheduled, trace, counts>>

DropFacts(p) ==
  /\ pc[p] = "dropFacts"
  /\ Write("facts", None)
  /\ Go(p, "dropPlan")
  /\ UNCHANGED <<kernel, config, module, threshold, io, relowered, scheduled, trace, counts>>

\* Mutated form: the plan of the first IR is left in the entry.
KeepPlan(p) ==
  /\ pc[p] = "dropPlan"
  /\ Go(p, "putRetried")
  /\ UNCHANGED <<kernel, files, config, module, threshold, io, relowered, scheduled, trace, counts>>

DropPlan(p) ==
  /\ pc[p] = "dropPlan"
  /\ Write("plan", None)
  /\ Go(p, "putRetried")
  /\ UNCHANGED <<kernel, config, module, threshold, io, relowered, scheduled, trace, counts>>

\* The retried IR replaces the first, and is measured.
PutRetried(p) ==
  /\ pc[p] = "putRetried"
  /\ Write("affine", module[p])
  /\ Go(p, "facts")
  /\ UNCHANGED <<kernel, config, module, threshold, io, relowered, scheduled, trace, counts>>

\* cached_performance_plan, after scheduling.
PlanShipped(p) ==
  /\ pc[p] = "plan" /\ scheduled[p] # None
  /\ IF files.plan = None THEN Write("plan", Plan(config[p])) ELSE UNCHANGED files
  /\ Go(p, "putPlan")
  /\ UNCHANGED <<kernel, config, module, threshold, io, relowered, scheduled, trace, counts>>

\* Mutated form: the C++ is written before the decisions.
WritesCppFirst == [putPlan |-> "putHls", putHls |-> "putCpp", putCpp |-> "putDecisions",
                   putDecisions |-> "replay"]

\* The order of the last writes.
AfterWrite == [putPlan |-> "putHls", putHls |-> "putDecisions", putDecisions |-> "putCpp",
               putCpp |-> "replay"]

\* The plan with the configuration's values, the scheduled IR, the decisions,
\* and at last the C++ that makes the next compilation a hit.
PutResult(p) ==
  /\ pc[p] \in DOMAIN AfterWrite
  /\ \/ pc[p] = "putPlan" /\ Write("plan", config[p])
     \/ pc[p] = "putHls" /\ Write("hls", scheduled[p])
     \/ pc[p] = "putDecisions" /\ Write("decisions", [values |-> config[p], trace |-> trace[p]])
     \/ pc[p] = "putCpp" /\ Write("cpp", scheduled[p])
  /\ Go(p, AfterWrite[pc[p]])
  /\ UNCHANGED <<kernel, config, module, threshold, io, relowered, scheduled, trace, counts>>

\* Mutated form: a hit reports what this compilation decided.
ReplayNothing(p) ==
  /\ pc[p] = "replay"
  /\ Go(p, "done")
  /\ UNCHANGED <<kernel, files, config, module, threshold, io, relowered, scheduled, trace, counts>>

\* The decisions of the entry are repinned and its trace is reported.
Replay(p) ==
  /\ pc[p] = "replay"
  /\ IF files.decisions # None
     THEN /\ config' = [config EXCEPT ![p] =
                          [k \in Keys |-> IF k \in derived /\ k # "reuse"
                                          THEN files.decisions.values[k] ELSE @[k]]]
          /\ trace' = [trace EXCEPT ![p] = files.decisions.trace]
     ELSE UNCHANGED <<config, trace>>
  /\ Go(p, "done")
  /\ UNCHANGED <<kernel, files, module, threshold, io, relowered, scheduled, counts>>

\* The design handle, or the error, goes to the caller.
Return(p) ==
  /\ pc[p] \in {"done", "failed"}
  /\ Go(p, "idle")
  /\ UNCHANGED <<kernel, files, config, module, threshold, io, relowered, scheduled, trace, counts>>

\* An interrupt, or a tool that fails for another reason.
Interrupt(p) ==
  /\ pc[p] \notin {"idle", "done", "failed"}
  /\ crashes < MaxCrashes
  /\ crashes' = crashes + 1
  /\ disturbed' = disturbed \cup {"interrupt"}
  /\ Go(p, "idle")
  /\ UNCHANGED <<kernel, files, config, module, threshold, io, relowered, scheduled, trace, compiles>>

\* A compilation's own steps.
Step(p) ==
  \/ LowerKernel(p) \/ PutAffine(p) \/ AdoptReuse(p)
  \/ Measure(p) \/ PutFacts(p) \/ PlanPlacement(p) \/ CheckCached(p)
  \/ Schedule(p) \/ HalveBanks(p) \/ StreamPlanes(p) \/ NarrowTransfer(p) \/ DropLanes(p) \/ GiveUp(p)
  \/ Commit(p) \/ DropFacts(p) \/ DropPlan(p) \/ PutRetried(p) \/ PlanShipped(p)
  \/ PutResult(p) \/ Replay(p) \/ Return(p)

Next == \E p \in Procs : Resolve(p) \/ Step(p) \/ Interrupt(p)

Spec == Init /\ [][Next]_vars

\* A compilation that began goes on.
FairSpec == Spec /\ \A p \in Procs : WF_vars(Step(p))

-----------------------------------------------------------------------------
(***************************************************************************)
(* Properties                                                              *)
(***************************************************************************)

Steps == {"idle", "lower", "putAffine", "reuse", "facts", "putFacts", "plan", "check", "schedule",
          "refused", "commit", "dropFacts", "dropPlan", "putRetried", "putPlan", "putHls",
          "putDecisions", "putCpp", "replay", "done", "failed"}

\* The variables have their shapes; a process past the lower stage holds IR and
\* one that writes results holds an accepted design.
TypeOK ==
  /\ initial \in Starts /\ derived \in Pinnable /\ share \in BOOLEAN /\ device \in Devices
  /\ files.affine \in IRs \cup {None} /\ files.facts \in IRs \cup {None}
  /\ files.plan \in [Keys -> Nat] \cup {None}
  /\ files.cpp \in Designs \cup {None} /\ files.hls \in Designs \cup {None}
  /\ pc \in [Procs -> Steps]
  /\ config \in [Procs -> [Keys -> Nat]]
  /\ \A p \in Procs : /\ pc[p] \notin {"idle", "lower"} => module[p] \in IRs
                      /\ pc[p] \in {"commit", "dropFacts", "dropPlan", "putRetried"}
                              \cup DOMAIN AfterWrite => scheduled[p] \in Designs
  /\ crashes \in 0..MaxCrashes /\ compiles \in 0..MaxCompiles

\* No C++ is kept that the scheduler refused, whatever was interrupted and
\* whoever shares the entry.
ShippedFits == files.cpp # None => Verdict(files.cpp) = "fits"

\* A user's pinned value is never traded away: the kept design has it.
PinnedStands ==
  files.cpp # None =>
    /\ \A k \in {"threshold", "factor"} \ derived : files.cpp[k] = initial[k]
    /\ \A k \in {"io", "rows", "reuse"} \ derived : files.cpp.ir[k] = initial[k]

\* C++ in the entry has its decisions beside it, so that a hit can replay them.
CppHasDecisions == files.cpp # None => files.decisions # None

\* What the entry keeps is sound: C++ that fits, that has the pinned values, and
\* that a hit can explain, whatever was interrupted and whoever shares the entry.
KeptSound == ShippedFits /\ PinnedStands /\ CppHasDecisions

\* The cheapest value the ladder may give a key.
Cheapest(k) ==
  IF k \notin derived THEN initial[k]
  ELSE IF k = "threshold" /\ Streamed < initial[k] THEN Streamed
  ELSE IF k \in {"io", "rows"} /\ initial[k] > 1 THEN 1 ELSE initial[k]

\* HLSConfigError means that the cheapest design the options allow was tried
\* and refused, and that no bank can be merged to help it, also after an interrupt.
\* (A compilation that overlaps another may read IR from before and a plan from
\* after the other's retries.)
GivesUpAtBottom ==
  "overlap" \notin disturbed => \A p \in Procs : pc[p] = "failed" =>
    /\ \A k \in {"io", "rows"} : module[p][k] = Cheapest(k)
    /\ threshold[p] = Cheapest("threshold")
    /\ Verdict(Tried(p)) # "fits"
    /\ Verdict(Tried(p)) = "partition" => "factor" \notin derived \/ config[p].factor = 1

\* The plan in the entry is a plan of the IR in the entry: "an interrupt can
\* leave the entry without them (they recompute), never holding files that
\* describe other IR".  False after an interrupt: see the README.
PlanDescribesIR ==
  files.plan # None /\ files.affine # None =>
    files.plan.io = files.affine.io /\ files.plan.rows = files.affine.rows

\* Where no compilation was interrupted or overlapped another, the configuration
\* a caller sees is the one the kept C++ was built with, and the plan beside it
\* is a plan of its IR.
Describes(c, d) ==
  /\ c.threshold = d.threshold /\ c.factor = d.factor
  /\ c.io = d.ir.io /\ c.rows = d.ir.rows /\ c.reuse = d.ir.reuse
ReportsShipped ==
  disturbed = {} =>
    PlanDescribesIR /\ \A p \in Procs : pc[p] = "done" => Describes(config[p], files.cpp)

\* The design after the first n retries of a trace.
Last(t, n, action, first) ==
  LET last == {i \in 1..n : t[i].action = action /\ \A j \in 1..n : j > i => t[j].action # action}
  IN  IF last = {} THEN first ELSE t[CHOOSE i \in last : TRUE].after
DesignAfter(t, n, reuse) ==
  [ir |-> [io |-> Last(t, n, "narrow", initial.io),
           rows |-> Last(t, n, "lanes", initial.rows), reuse |-> reuse],
   threshold |-> Last(t, n, "stream", initial.threshold),
   factor |-> Last(t, n, "bank", initial.factor)]

\* The retry trace a caller sees explains the design: from the planned values,
\* each retry answers a refusal and the last one gives the design that fits.
TraceExplains ==
  disturbed = {} => \A p \in Procs : pc[p] = "done" =>
    LET t == trace[p] IN
      /\ \A n \in 0..Len(t) - 1 : Verdict(DesignAfter(t, n, files.cpp.ir.reuse)) # "fits"
      /\ DesignAfter(t, Len(t), files.cpp.ir.reuse) = files.cpp

\* Every compilation that goes on ends.
Ends == \A p \in Procs : pc[p] = "lower" ~> pc[p] = "idle"
=============================================================================
