--------------------------- MODULE HLSRetryProofs ---------------------------
(***************************************************************************)
(* Proofs about HLSRetry, for any processes, strategies, devices and       *)
(* bounds, whatever is interrupted and whoever shares the entry.           *)
(*                                                                         *)
(* The properties speak of the files.  The inductive invariant follows a   *)
(* design on its way there: the IR a process holds or stores, the values   *)
(* its ladder tries and the design the scheduler accepted all have the     *)
(* user's pins, and the decisions are never removed.                        *)
(*                                                                         *)
(* The second half is about what a caller is told: when HLSRetry gives up, *)
(* and what it reports of the design it keeps.                             *)
(*                                                                         *)
(*   OneAtATime   where no two compilations overlapped: in the entry and   *)
(*                in the compilation, IR that differs from the values that *)
(*                are tried is followed by a rung that lowers it again     *)
(*                (Ladder);                                                *)
(*   Undisturbed  where in addition none was interrupted: the IR, the      *)
(*                plan, the C++, the decisions and the configuration       *)
(*                describe each other, and the trace leads from the        *)
(*                planned values to the design (Straight).                 *)
(***************************************************************************)
EXTENDS HLSRetry, TLAPS

FileNames == {"reuse", "affine", "facts", "plan", "hls", "decisions", "cpp"}
Strategy == [Keys -> Nat]
Shipping == {"commit", "dropFacts", "dropPlan", "putRetried", "putPlan", "putHls", "putDecisions",
             "putCpp"}

\* IR, or a design, that has the user's pins.
IRKeeps(m) == \A k \in {"io", "rows", "reuse"} : k \notin derived => m[k] = initial[k]
DesignKeeps(d) ==
  /\ IRKeeps(d.ir)
  /\ \A k \in {"threshold", "factor"} : k \notin derived => d[k] = initial[k]

Types ==
  /\ initial \in Starts /\ derived \in Pinnable /\ share \in BOOLEAN /\ device \in Devices
  /\ pc \in [Procs -> Steps]
  /\ config \in [Procs -> Strategy]
  /\ threshold \in [Procs -> Nat] /\ io \in [Procs -> Nat]
  /\ scheduled \in [Procs -> Designs \cup {None}]
  /\ DOMAIN module = Procs
  /\ crashes \in 0..MaxCrashes /\ compiles \in 0..MaxCompiles

Entry ==
  /\ DOMAIN files = FileNames
  /\ files.reuse \in {1, None}
  /\ files.affine \in IRs \cup {None} /\ files.facts \in IRs \cup {None}
  /\ files.plan \in Strategy \cup {None}
  /\ files.hls \in Designs \cup {None} /\ files.cpp \in Designs \cup {None}
  /\ files.decisions # None => files.decisions \in Decisions
  /\ files.affine # None => IRKeeps(files.affine)
  /\ files.cpp # None => Accepts(files.cpp) /\ DesignKeeps(files.cpp) /\ files.decisions # None

Pins(p) == \A k \in Keys : k \notin derived => config[p][k] = initial[k]
Holds(p) == pc[p] \notin {"idle", "lower"} => module[p] \in IRs /\ IRKeeps(module[p])
Tries(p) ==
  pc[p] \in {"schedule", "refused", "commit"} =>
    /\ "threshold" \notin derived => threshold[p] = initial.threshold
    /\ "io" \notin derived => io[p] = initial.io
Accepted(p) ==
  /\ scheduled[p] # None => Accepts(scheduled[p]) /\ DesignKeeps(scheduled[p])
  /\ pc[p] \in Shipping => scheduled[p] # None
  /\ pc[p] = "putCpp" => files.decisions # None

\* What the decisions are made of.
Traced == trace \in [Procs -> Traces]

Session(p) == Pins(p) /\ Holds(p) /\ Tries(p) /\ Accepted(p)

IInv == Types /\ Entry /\ \A p \in Procs : Session(p)

-----------------------------------------------------------------------------
\* The constants have their shapes.
LEMMA Shapes ==
  ASSUME IInv
  PROVE  /\ initial \in Strategy /\ derived \subseteq Keys
         /\ None \notin IRs /\ None \notin Designs /\ None \notin Strategy
BY RetryAssumption DEF IInv, Types, Strategy

\* A step of p leaves the sessions of the others as they are.
LEMMA OtherSessions ==
  ASSUME IInv, UNCHANGED kernel, NEW p \in Procs, NEW q \in Procs, q # p,
         pc'[q] = pc[q], config'[q] = config[q], module'[q] = module[q],
         threshold'[q] = threshold[q], io'[q] = io[q], scheduled'[q] = scheduled[q],
         files.decisions # None => files'.decisions # None
  PROVE  Session(q)'
<1>1. Session(q) /\ initial' = initial /\ derived' = derived /\ device' = device
  BY DEF IInv, kernel
<1>2. Pins(q)' /\ Tries(q)'
  BY <1>1 DEF Session, Pins, Tries
<1>3. Holds(q)'
  BY <1>1 DEF Session, Holds, IRKeeps
<1>4. Accepted(q)'
  BY <1>1 DEF Session, Accepted, Accepts, Verdict, DesignKeeps, IRKeeps
<1> QED BY <1>2, <1>3, <1>4 DEF Session

\* The same entry.
LEMMA SameEntry ==
  ASSUME IInv, UNCHANGED <<kernel, files>>
  PROVE  Entry'
BY DEF IInv, Entry, Accepts, Verdict, DesignKeeps, IRKeeps, kernel

\* A step that changes the program counter and the entry keeps the invariant when
\* the next step asks nothing that is not known.
LEMMA GoStep ==
  ASSUME IInv, NEW p \in Procs, NEW step \in Steps, Go(p, step),
         UNCHANGED <<kernel, config, module, threshold, io, scheduled, compiles>>,
         crashes' \in 0..MaxCrashes, Entry',
         files.decisions # None => files'.decisions # None,
         step \notin {"idle", "lower"} => pc[p] \notin {"idle", "lower"},
         step \in {"schedule", "refused", "commit"} => pc[p] \in {"schedule", "refused", "commit"},
         step \in Shipping => scheduled[p] # None,
         step = "putCpp" => files'.decisions # None
  PROVE  IInv'
<1>1. /\ initial' = initial /\ derived' = derived /\ device' = device /\ share' = share
      /\ config' = config /\ module' = module /\ threshold' = threshold
      /\ io' = io /\ scheduled' = scheduled /\ compiles' = compiles
  BY DEF kernel
<1>2. pc' \in [Procs -> Steps] /\ pc'[p] = step /\ \A q \in Procs : q # p => pc'[q] = pc[q]
  BY DEF Go, IInv, Types
<1>3. Types'
  BY <1>1, <1>2 DEF IInv, Types
<1>4. Session(p)'
  <2>1. Session(p)
    BY DEF IInv
  <2>2. Pins(p)' /\ Tries(p)'
    BY <1>1, <1>2, <2>1 DEF Session, Pins, Tries
  <2>3. Holds(p)'
    BY <1>1, <1>2, <2>1 DEF Session, Holds, IRKeeps
  <2>4. Accepted(p)'
    BY <1>1, <1>2, <2>1 DEF Session, Accepted, Accepts, Verdict, DesignKeeps, IRKeeps
  <2> QED BY <2>2, <2>3, <2>4 DEF Session
<1>5. \A q \in Procs : q # p => Session(q)'
  BY <1>1, <1>2, OtherSessions DEF kernel
<1> QED BY <1>3, <1>4, <1>5 DEF IInv

LEMMA InitIInv == Init => IInv
<1> SUFFICES ASSUME Init PROVE IInv
  OBVIOUS
<1>1. initial \in Strategy
  BY RetryAssumption DEF Init, Strategy
<1>2. Types
  BY <1>1, RetryAssumption DEF Init, Types, Steps
<1>3. Entry
  BY DEF Init, Entry, FileNames
<1>4. \A p \in Procs : Session(p)
  BY DEF Init, Session, Pins, Holds, Tries, Accepted, Shipping
<1> QED BY <1>2, <1>3, <1>4 DEF IInv

-----------------------------------------------------------------------------
(***************************************************************************)
(* The stages before the ladder.                                           *)
(***************************************************************************)

LEMMA ResolveStep ==
  ASSUME IInv, NEW p \in Procs, Resolve(p)
  PROVE  IInv'
<1> DEFINE c == [k \in Keys |-> IF k = "threshold" /\ k \in derived THEN 0 ELSE initial[k]]
<1>1. /\ compiles < MaxCompiles /\ compiles' = compiles + 1 /\ crashes' = crashes
      /\ config' = [config EXCEPT ![p] = c] /\ scheduled' = [scheduled EXCEPT ![p] = None]
      /\ Go(p, "lower") /\ UNCHANGED <<kernel, files>>
      /\ module' = module /\ threshold' = threshold /\ io' = io
  BY DEF Resolve
<1>2. c \in Strategy /\ \A k \in Keys : k \notin derived => c[k] = initial[k]
  BY Shapes DEF Strategy
<1> HIDE DEF c
<1>3. pc' \in [Procs -> Steps] /\ pc'[p] = "lower" /\ \A q \in Procs : q # p => pc'[q] = pc[q]
  BY <1>1 DEF Go, IInv, Types, Steps
<1>4. Types'
  <2>1. config' \in [Procs -> Strategy] /\ scheduled' \in [Procs -> Designs \cup {None}]
    BY <1>1, <1>2 DEF IInv, Types
  <2>2. compiles' \in 0..MaxCompiles
    BY <1>1, RetryAssumption DEF IInv, Types
  <2> QED BY <1>1, <1>3, <2>1, <2>2 DEF IInv, Types, kernel
<1>5. Entry'
  BY <1>1, SameEntry
<1>6. Session(p)'
  <2>1. config'[p] = c /\ scheduled'[p] = None
    BY <1>1 DEF IInv, Types
  <2>2. initial' = initial /\ derived' = derived
    BY <1>1 DEF kernel
  <2> QED BY <1>2, <1>3, <2>1, <2>2 DEF Session, Pins, Holds, Tries, Accepted, Shipping
<1>7. \A q \in Procs : q # p => Session(q)'
  BY <1>1, <1>3, OtherSessions DEF IInv, Types
<1> QED BY <1>4, <1>5, <1>6, <1>7 DEF IInv

LEMMA LowerStep ==
  ASSUME IInv, NEW p \in Procs, LowerKernel(p)
  PROVE  IInv'
<1>1. /\ pc[p] = "lower" /\ UNCHANGED <<kernel, config, threshold, io, scheduled, compiles, crashes>>
  BY DEF LowerKernel, counts
<1>2. PICK m \in IRs, step \in {"reuse", "putAffine"} :
        IRKeeps(m) /\ module' = [module EXCEPT ![p] = m] /\ Go(p, step)
  <2>1. CASE files.affine # None
    BY <2>1 DEF LowerKernel, IInv, Entry
  <2>2. CASE files.affine = None
    <3> DEFINE shared == "reuse" \in derived /\ share
               used == IF shared THEN [config[p] EXCEPT !.reuse = 1] ELSE config[p]
               m == Lower(used, config[p].io)
    <3>1. module' = [module EXCEPT ![p] = m] /\ Go(p, "putAffine")
      BY <2>2 DEF LowerKernel
    <3>2. config[p] \in Strategy /\ Pins(p)
      BY DEF IInv, Types, Session
    <3>3. /\ used.rows = config[p].rows
          /\ used.reuse \in Nat /\ ("reuse" \notin derived => used.reuse = config[p].reuse)
      BY <3>2 DEF Strategy, Keys
    <3>4. m \in IRs
      BY <3>2, <3>3 DEF Strategy, Keys, Lower, IRs
    <3>5. IRKeeps(m)
      BY <3>2, <3>3 DEF IRKeeps, Lower, Pins, Keys
    <3> QED BY <3>1, <3>4, <3>5
  <2> QED BY <2>1, <2>2
<1>3. /\ pc' \in [Procs -> Steps] /\ pc'[p] = step /\ \A q \in Procs : q # p => pc'[q] = pc[q]
  BY <1>2 DEF Go, IInv, Types, Steps
<1>4. /\ module'[p] = m /\ DOMAIN module' = Procs /\ \A q \in Procs : q # p => module'[q] = module[q]
  BY <1>2 DEF IInv, Types
<1>5. Types'
  BY <1>1, <1>3, <1>4 DEF IInv, Types, kernel
<1>6. Entry' /\ (files.decisions # None => files'.decisions # None)
  <2>1. CASE UNCHANGED files
    BY <1>1, <2>1, SameEntry
  <2>2. CASE files' = [files EXCEPT !["reuse"] = 1]
    <3>1. DOMAIN files' = FileNames /\ files'.reuse = 1
          /\ \A f \in FileNames : f # "reuse" => files'[f] = files[f]
      BY <2>2 DEF IInv, Entry, FileNames
    <3> QED BY <1>1, <3>1
            DEF IInv, Entry, FileNames, Accepts, Verdict, DesignKeeps, IRKeeps, kernel
  <2> QED BY <2>1, <2>2 DEF LowerKernel, Write
<1>7. Session(p)'
  <2>1. Session(p) /\ initial' = initial /\ derived' = derived /\ device' = device
    BY <1>1 DEF IInv, kernel
  <2>2. Pins(p)' /\ Tries(p)'
    BY <1>1, <1>3, <2>1 DEF Session, Pins, Tries
  <2>3. Holds(p)'
    BY <1>2, <1>3, <1>4, <2>1 DEF Holds, IRKeeps
  <2>4. Accepted(p)'
    BY <1>1, <1>3, <2>1
       DEF Session, Accepted, Accepts, Verdict, DesignKeeps, IRKeeps, Shipping
  <2> QED BY <2>2, <2>3, <2>4 DEF Session
<1>8. \A q \in Procs : q # p => Session(q)'
  BY <1>1, <1>3, <1>4, <1>6, OtherSessions
<1> QED BY <1>5, <1>6, <1>7, <1>8 DEF IInv

\* A file other than the C++ and the decisions takes a value of its shape.
LEMMA PutFile ==
  ASSUME IInv, UNCHANGED kernel, NEW f \in {"affine", "facts", "plan", "hls"}, NEW content,
         files' = [files EXCEPT ![f] = content],
         f = "affine" => content \in IRs /\ IRKeeps(content),
         f = "facts" => content \in IRs \cup {None},
         f = "plan" => content \in Strategy \cup {None},
         f = "hls" => content \in Designs
  PROVE  Entry' /\ (files.decisions # None => files'.decisions # None)
<1>1. DOMAIN files' = FileNames /\ files'[f] = content
      /\ \A g \in FileNames : g # f => files'[g] = files[g]
  BY DEF IInv, Entry, FileNames
<1>2. initial' = initial /\ derived' = derived /\ device' = device
  BY DEF kernel
<1>3. None \notin IRs
  BY Shapes
<1>4. files'.cpp = files.cpp /\ files'.decisions = files.decisions /\ files'.reuse = files.reuse
  BY <1>1 DEF FileNames
<1>5. files'.affine \in IRs \cup {None} /\ (files'.affine # None => IRKeeps(files'.affine))
  BY <1>1 DEF FileNames, IInv, Entry
<1>6. /\ files'.facts \in IRs \cup {None} /\ files'.plan \in Strategy \cup {None}
      /\ files'.hls \in Designs \cup {None}
  BY <1>1 DEF FileNames, IInv, Entry
<1> QED BY <1>1, <1>2, <1>4, <1>5, <1>6 DEF IInv, Entry, Accepts, Verdict, DesignKeeps, IRKeeps

LEMMA StoreSteps ==
  ASSUME IInv, NEW p \in Procs,
         PutAffine(p) \/ Measure(p) \/ PutFacts(p) \/ DropFacts(p) \/ DropPlan(p) \/ PutRetried(p)
         \/ PlanShipped(p)
  PROVE  IInv'
<1>1. /\ UNCHANGED <<kernel, config, module, threshold, io, scheduled, compiles>>
      /\ crashes' = crashes /\ crashes' \in 0..MaxCrashes
  BY DEF PutAffine, Measure, PutFacts, DropFacts, DropPlan, PutRetried, PlanShipped, counts, IInv, Types
<1>2. pc[p] \notin {"idle", "lower"} => module[p] \in IRs /\ IRKeeps(module[p])
  BY DEF IInv, Session, Holds
<1>3. pc[p] \in Shipping => scheduled[p] # None
  BY DEF IInv, Session, Accepted
<1>4. CASE PutAffine(p)
  <2>1. Entry' /\ (files.decisions # None => files'.decisions # None)
    BY <1>1, <1>2, <1>4, PutFile DEF PutAffine, Write
  <2> QED BY <1>1, <1>4, <2>1, GoStep DEF PutAffine, Steps, Shipping
<1>5. CASE Measure(p)
  <2>1. Entry' /\ (files.decisions # None => files'.decisions # None)
    BY <1>1, <1>5, PutFile, SameEntry DEF Measure, Write
  <2> QED BY <1>1, <1>5, <2>1, GoStep DEF Measure, Steps, Shipping
<1>6. CASE PutFacts(p)
  <2>1. Entry' /\ (files.decisions # None => files'.decisions # None)
    BY <1>1, <1>2, <1>6, PutFile DEF PutFacts, Write
  <2> QED BY <1>1, <1>6, <2>1, GoStep DEF PutFacts, Steps, Shipping
<1>7. CASE DropFacts(p)
  <2>1. Entry' /\ (files.decisions # None => files'.decisions # None)
    BY <1>1, <1>7, PutFile DEF DropFacts, Write
  <2> QED BY <1>1, <1>3, <1>7, <2>1, GoStep DEF DropFacts, Steps, Shipping
<1>8. CASE DropPlan(p)
  <2>1. Entry' /\ (files.decisions # None => files'.decisions # None)
    BY <1>1, <1>8, PutFile DEF DropPlan, Write
  <2> QED BY <1>1, <1>3, <1>8, <2>1, GoStep DEF DropPlan, Steps, Shipping
<1>9. CASE PutRetried(p)
  <2>1. Entry' /\ (files.decisions # None => files'.decisions # None)
    BY <1>1, <1>2, <1>9, PutFile DEF PutRetried, Write
  <2> QED BY <1>1, <1>9, <2>1, GoStep DEF PutRetried, Steps, Shipping
<1>10. CASE PlanShipped(p)
  <2>1. Plan(config[p]) \in Strategy
    BY Shapes DEF IInv, Types, Plan, Strategy, Keys
  <2>2. Entry' /\ (files.decisions # None => files'.decisions # None)
    BY <1>1, <1>10, <2>1, PutFile, SameEntry DEF PlanShipped, Write
  <2> QED BY <1>1, <1>10, <2>2, GoStep DEF PlanShipped, Steps, Shipping
<1> QED BY <1>4, <1>5, <1>6, <1>7, <1>8, <1>9, <1>10

-----------------------------------------------------------------------------
(***************************************************************************)
(* Steps that change the configuration of one compilation.                 *)
(***************************************************************************)

\* What is known of a compilation.
LEMMA Known ==
  ASSUME IInv, NEW p \in Procs
  PROVE  /\ config[p] \in Strategy /\ threshold[p] \in Nat /\ io[p] \in Nat
         /\ \A k \in Keys : k \notin derived => config[p][k] = initial[k]
         /\ crashes \in 0..MaxCrashes
BY DEF IInv, Types, Session, Pins

\* The compilation of p has configuration c, tries threshold t and lowered width w;
\* the others are as they were.
Now(p, c, t, w) ==
  /\ config' = [config EXCEPT ![p] = c]
  /\ threshold' = [threshold EXCEPT ![p] = t]
  /\ io' = [io EXCEPT ![p] = w]

LEMMA Same ==
  ASSUME IInv, NEW p \in Procs
  PROVE  /\ config = [config EXCEPT ![p] = config[p]]
         /\ threshold = [threshold EXCEPT ![p] = threshold[p]]
         /\ io = [io EXCEPT ![p] = io[p]]
BY DEF IInv, Types

\* A step of p that changes what it tries, and goes on to a step that asks for no
\* more than is known.
LEMMA ConfigStep ==
  ASSUME IInv, NEW p \in Procs, NEW step \in Steps, Go(p, step),
         NEW c \in Strategy, NEW t \in Nat, NEW w \in Nat, Now(p, c, t, w),
         UNCHANGED <<kernel, module, scheduled, compiles, crashes>>, Entry',
         files.decisions # None => files'.decisions # None,
         \A k \in Keys : k \notin derived => c[k] = initial[k],
         pc[p] \notin {"idle", "lower"},
         step \in {"schedule", "refused", "commit"} =>
           /\ "threshold" \notin derived => t = initial.threshold
           /\ "io" \notin derived => w = initial.io,
         step \in Shipping => scheduled[p] # None,
         step # "putCpp"
  PROVE  IInv'
<1>1. /\ initial' = initial /\ derived' = derived /\ device' = device /\ share' = share
      /\ module' = module /\ scheduled' = scheduled /\ compiles' = compiles /\ crashes' = crashes
  BY DEF kernel
<1>2. pc' \in [Procs -> Steps] /\ pc'[p] = step /\ \A q \in Procs : q # p => pc'[q] = pc[q]
  BY DEF Go, IInv, Types
<1>3. /\ config' \in [Procs -> Strategy] /\ threshold' \in [Procs -> Nat] /\ io' \in [Procs -> Nat]
      /\ config'[p] = c /\ threshold'[p] = t /\ io'[p] = w
      /\ \A q \in Procs : q # p => config'[q] = config[q] /\ threshold'[q] = threshold[q] /\ io'[q] = io[q]
  BY DEF IInv, Types, Now
<1>4. Types'
  BY <1>1, <1>2, <1>3 DEF IInv, Types
<1>5. Session(p)'
  <2>1. Session(p)
    BY DEF IInv
  <2>2. Pins(p)' /\ Tries(p)'
    BY <1>1, <1>2, <1>3 DEF Pins, Tries
  <2>3. Holds(p)'
    BY <1>1, <1>2, <2>1 DEF Session, Holds, IRKeeps
  <2>4. Accepted(p)'
    BY <1>1, <1>2, <2>1 DEF Session, Accepted, Accepts, Verdict, DesignKeeps, IRKeeps
  <2> QED BY <2>2, <2>3, <2>4 DEF Session
<1>6. \A q \in Procs : q # p => Session(q)'
  BY <1>1, <1>2, <1>3, OtherSessions DEF kernel
<1> QED BY <1>4, <1>5, <1>6 DEF IInv

LEMMA AdoptReuseStep ==
  ASSUME IInv, NEW p \in Procs, AdoptReuse(p)
  PROVE  IInv'
<1> DEFINE c == IF files.reuse # None /\ "reuse" \in derived
                THEN [config[p] EXCEPT !.reuse = files.reuse] ELSE config[p]
<1>1. c \in Strategy /\ \A k \in Keys : k \notin derived => c[k] = initial[k]
  BY Known DEF IInv, Entry, Strategy, Keys
<1>2. Now(p, c, threshold[p], io[p])
  BY Same DEF AdoptReuse, Now
<1> HIDE DEF c
<1>3. /\ pc[p] = "reuse" /\ Go(p, "facts") /\ UNCHANGED files
      /\ UNCHANGED <<kernel, module, scheduled, compiles, crashes>>
  BY DEF AdoptReuse, counts
<1>4. Entry' /\ "facts" \in Steps
  BY <1>3, SameEntry DEF Steps
<1> QED BY <1>1, <1>2, <1>3, <1>4, Known, ConfigStep DEF Shipping

LEMMA PlanPlacementStep ==
  ASSUME IInv, NEW p \in Procs, PlanPlacement(p)
  PROVE  IInv'
<1> DEFINE values == IF files.plan # None THEN files.plan ELSE Plan(config[p])
           c == Adopt(config[p], values)
<1>1. values \in Strategy
  BY Known, Shapes DEF IInv, Entry, Strategy, Plan, Keys
<1> HIDE DEF values
<1>2. c \in Strategy /\ \A k \in Keys : k \notin derived => c[k] = initial[k]
  BY <1>1, Known DEF Adopt, Strategy
<1> HIDE DEF c
<1>3. /\ pc[p] = "plan" /\ Go(p, "check")
      /\ UNCHANGED <<kernel, module, scheduled, compiles, crashes>>
      /\ files' = [files EXCEPT !["plan"] = values]
  BY DEF PlanPlacement, counts, Write, values
<1>6. Now(p, c, threshold[p], io[p])
  BY Same DEF PlanPlacement, Now, values, c
<1>4. Entry' /\ (files.decisions # None => files'.decisions # None)
  BY <1>1, <1>3, PutFile
<1>5. "check" \in Steps
  BY DEF Steps
<1> QED BY <1>2, <1>3, <1>4, <1>5, <1>6, Known, ConfigStep DEF Shipping

LEMMA CheckCachedStep ==
  ASSUME IInv, NEW p \in Procs, CheckCached(p)
  PROVE  IInv'
<1>1. /\ pc[p] = "check" /\ UNCHANGED <<kernel, files, config, module, scheduled, compiles, crashes>>
      /\ crashes \in 0..MaxCrashes
  BY DEF CheckCached, counts, IInv, Types
<1>2. Entry'
  BY <1>1, SameEntry
<1>3. CASE files.cpp # None
  BY <1>1, <1>2, <1>3, GoStep DEF CheckCached, Steps, Shipping
<1>4. CASE files.cpp = None
  <2>1. /\ Go(p, "schedule") /\ "schedule" \in Steps /\ "schedule" \notin Shipping
        /\ Now(p, config[p], config[p].threshold, config[p].io)
    BY <1>4, Same DEF CheckCached, Steps, Shipping, Now
  <2>2. config[p].threshold \in Nat /\ config[p].io \in Nat
    BY Known DEF Strategy, Keys
  <2>3. /\ "threshold" \notin derived => config[p].threshold = initial.threshold
        /\ "io" \notin derived => config[p].io = initial.io
    BY Known DEF Keys
  <2> QED BY <1>1, <1>2, <2>1, <2>2, <2>3, Known, ConfigStep
<1> QED BY <1>3, <1>4

LEMMA ReplayStep ==
  ASSUME IInv, NEW p \in Procs, Replay(p)
  PROVE  IInv'
<1>1. /\ pc[p] = "replay" /\ Go(p, "done") /\ "done" \in Steps /\ "done" \notin Shipping
      /\ UNCHANGED <<kernel, files, module, scheduled, compiles, crashes>>
  BY DEF Replay, counts, Steps, Shipping
<1>2. Entry'
  BY <1>1, SameEntry
<1> DEFINE c == IF files.decisions = None THEN config[p]
                ELSE [k \in Keys |-> IF k \in derived /\ k # "reuse"
                                     THEN files.decisions.values[k] ELSE config[p][k]]
<1>3. c \in Strategy /\ \A k \in Keys : k \notin derived => c[k] = initial[k]
  BY Known DEF IInv, Entry, Strategy, Decisions
<1>4. Now(p, c, threshold[p], io[p])
  BY Same DEF Replay, Now
<1> HIDE DEF c
<1> QED BY <1>1, <1>2, <1>3, <1>4, Known, ConfigStep

LEMMA CommitStep ==
  ASSUME IInv, NEW p \in Procs, Commit(p)
  PROVE  IInv'
<1> DEFINE c == Committed(p)
           step == IF relowered[p] THEN "dropFacts" ELSE "facts"
<1>1. /\ pc[p] = "commit" /\ Go(p, step) /\ step \in Steps
      /\ step \notin {"schedule", "refused", "commit", "putCpp"}
      /\ UNCHANGED <<kernel, files, module, scheduled, compiles, crashes>>
      /\ Now(p, c, threshold[p], io[p])
  BY Same DEF Commit, counts, Steps, Now
<1>2. Entry'
  BY <1>1, SameEntry
<1>3. c \in Strategy /\ \A k \in Keys : k \notin derived => c[k] = initial[k]
  BY Known DEF Committed, Strategy
<1>4. scheduled[p] # None
  BY <1>1 DEF IInv, Session, Accepted, Shipping
<1> HIDE DEF c, step
<1> QED BY <1>1, <1>2, <1>3, <1>4, Known, ConfigStep

-----------------------------------------------------------------------------
(***************************************************************************)
(* The ladder.                                                             *)
(***************************************************************************)

\* While the ladder runs, what is tried is a design with the user's pins.
LEMMA TriedKeeps ==
  ASSUME IInv, NEW p \in Procs, pc[p] \in {"schedule", "refused"}
  PROVE  Tried(p) \in Designs /\ DesignKeeps(Tried(p))
<1>1. module[p] \in IRs /\ IRKeeps(module[p])
  BY DEF IInv, Session, Holds
<1>2. threshold[p] \in Nat /\ config[p].factor \in Nat
  BY Known DEF Strategy, Keys
<1>3. "factor" \notin derived => config[p].factor = initial.factor
  BY Known DEF Keys
<1>4. "threshold" \notin derived => threshold[p] = initial.threshold
  BY DEF IInv, Session, Tries
<1>5. Tried(p) \in Designs
  BY <1>1, <1>2 DEF Tried, Designs
<1>6. DesignKeeps(Tried(p))
  BY <1>1, <1>3, <1>4 DEF DesignKeeps, Tried
<1> QED BY <1>5, <1>6

LEMMA ScheduleStep ==
  ASSUME IInv, NEW p \in Procs, Schedule(p)
  PROVE  IInv'
<1>1. /\ pc[p] = "schedule" /\ UNCHANGED <<kernel, files, config, module, threshold, io, compiles, crashes>>
      /\ crashes \in 0..MaxCrashes
  BY DEF Schedule, counts, IInv, Types
<1>2. Entry'
  BY <1>1, SameEntry
<1>3. CASE ~Accepts(Tried(p))
  <2>1. Go(p, "refused") /\ scheduled' = scheduled
    BY <1>3 DEF Schedule
  <2> QED BY <1>1, <1>2, <2>1, GoStep DEF Steps, Shipping
<1>4. CASE Accepts(Tried(p))
  <2> DEFINE d == Tried(p)
  <2>1. d \in Designs /\ DesignKeeps(d) /\ Accepts(d)
    BY <1>1, <1>4, TriedKeeps
  <2>2. Go(p, "commit") /\ scheduled' = [scheduled EXCEPT ![p] = d]
    BY <1>4 DEF Schedule
  <2> HIDE DEF d
  <2>3. pc' \in [Procs -> Steps] /\ pc'[p] = "commit" /\ \A q \in Procs : q # p => pc'[q] = pc[q]
    BY <2>2 DEF Go, IInv, Types, Steps
  <2>4. /\ scheduled' \in [Procs -> Designs \cup {None}] /\ scheduled'[p] = d
        /\ \A q \in Procs : q # p => scheduled'[q] = scheduled[q]
    BY <2>1, <2>2 DEF IInv, Types
  <2>5. Types'
    BY <1>1, <2>3, <2>4 DEF IInv, Types, kernel
  <2>6. Session(p)'
    <3>1. Session(p) /\ initial' = initial /\ derived' = derived /\ device' = device
      BY <1>1 DEF IInv, kernel
    <3>2. Pins(p)' /\ Tries(p)'
      BY <1>1, <2>3, <3>1 DEF Session, Pins, Tries
    <3>3. Holds(p)'
      BY <1>1, <2>3, <3>1 DEF Session, Holds, IRKeeps
    <3>4. d # None
      BY <2>1, Shapes
    <3>5. Accepted(p)'
      BY <2>1, <2>3, <2>4, <3>1, <3>4
         DEF Accepted, Accepts, Verdict, DesignKeeps, IRKeeps, Shipping
    <3> QED BY <3>2, <3>3, <3>5 DEF Session
  <2>7. \A q \in Procs : q # p => Session(q)'
    BY <1>1, <2>3, <2>4, OtherSessions
  <2> QED BY <1>2, <2>5, <2>6, <2>7 DEF IInv
<1> QED BY <1>3, <1>4

LEMMA HalveBanksStep ==
  ASSUME IInv, NEW p \in Procs, HalveBanks(p)
  PROVE  IInv'
<1> DEFINE c == [config[p] EXCEPT !.factor = @ \div 2]
<1>1. /\ pc[p] = "refused" /\ "factor" \in derived /\ Go(p, "schedule") /\ "schedule" \in Steps
      /\ UNCHANGED <<kernel, files, module, scheduled, compiles, crashes>>
      /\ "schedule" \notin Shipping
  BY DEF HalveBanks, CanBank, counts, Steps, Shipping
<1>2. Now(p, c, threshold[p], io[p])
  BY Same DEF HalveBanks, Now
<1>3. c \in Strategy /\ \A k \in Keys : k \notin derived => c[k] = initial[k]
  BY <1>1, Known DEF Strategy, Keys
<1>4. Entry' /\ Tries(p)
  BY <1>1, SameEntry DEF IInv, Session
<1> HIDE DEF c
<1> QED BY <1>1, <1>2, <1>3, <1>4, Known, ConfigStep DEF Tries

LEMMA StreamPlanesStep ==
  ASSUME IInv, NEW p \in Procs, StreamPlanes(p)
  PROVE  IInv'
<1>1. /\ pc[p] = "refused" /\ "threshold" \in derived /\ Go(p, "schedule") /\ "schedule" \in Steps
      /\ UNCHANGED <<kernel, files, module, scheduled, compiles, crashes>>
      /\ "schedule" \notin Shipping
  BY DEF StreamPlanes, CanStream, counts, Steps, Shipping
<1>2. Now(p, config[p], Streamed, io[p]) /\ Streamed \in Nat
  BY Same, RetryAssumption DEF StreamPlanes, Now
<1>3. Entry' /\ Tries(p)
  BY <1>1, SameEntry DEF IInv, Session
<1> QED BY <1>1, <1>2, <1>3, Known, ConfigStep DEF Tries

\* A kernel lowered again keeps the pins.
LEMMA LowerKeeps ==
  ASSUME IInv, NEW c \in Strategy, NEW w \in Nat,
         \A k \in Keys : k \notin derived => c[k] = initial[k],
         "io" \notin derived => w = initial.io
  PROVE  Lower(c, w) \in IRs /\ IRKeeps(Lower(c, w))
<1>1. Lower(c, w) \in IRs
  BY DEF Lower, IRs, Strategy, Keys
<1>2. IRKeeps(Lower(c, w))
  BY DEF IRKeeps, Lower, Keys
<1> QED BY <1>1, <1>2

\* A retry that lowers the kernel again.
LEMMA RelowerStep ==
  ASSUME IInv, NEW p \in Procs, pc[p] = "refused", Go(p, "schedule"),
         NEW c \in Strategy, NEW w \in Nat, Now(p, c, threshold[p], w),
         \A k \in Keys : k \notin derived => c[k] = initial[k],
         "io" \notin derived => w = initial.io,
         module' = [module EXCEPT ![p] = Lower(c, w)],
         UNCHANGED <<kernel, files, scheduled, compiles, crashes>>
  PROVE  IInv'
<1> DEFINE m == Lower(c, w)
<1>1. m \in IRs /\ IRKeeps(m) /\ module' = [module EXCEPT ![p] = m]
  BY LowerKeeps
<1> HIDE DEF m
<1>2. pc' \in [Procs -> Steps] /\ pc'[p] = "schedule" /\ \A q \in Procs : q # p => pc'[q] = pc[q]
  BY DEF Go, IInv, Types, Steps
<1>3. /\ config' \in [Procs -> Strategy] /\ io' \in [Procs -> Nat] /\ threshold' = threshold
      /\ config'[p] = c /\ io'[p] = w
      /\ \A q \in Procs : q # p => config'[q] = config[q] /\ io'[q] = io[q]
  BY DEF IInv, Types, Now
<1>4. /\ module'[p] = m /\ DOMAIN module' = Procs /\ \A q \in Procs : q # p => module'[q] = module[q]
  BY <1>1 DEF IInv, Types
<1>5. Types'
  BY <1>2, <1>3, <1>4 DEF IInv, Types, kernel
<1>6. Entry'
  BY SameEntry
<1>7. Session(p)'
  <2>1. Session(p) /\ initial' = initial /\ derived' = derived /\ device' = device
    BY DEF IInv, kernel
  <2>2. Pins(p)' /\ Tries(p)'
    BY <1>2, <1>3, <2>1 DEF Session, Pins, Tries
  <2>3. Holds(p)'
    BY <1>1, <1>2, <1>4, <2>1 DEF Holds, IRKeeps
  <2>4. Accepted(p)'
    BY <1>2, <2>1 DEF Session, Accepted, Accepts, Verdict, DesignKeeps, IRKeeps, Shipping
  <2> QED BY <2>2, <2>3, <2>4 DEF Session
<1>8. \A q \in Procs : q # p => Session(q)'
  BY <1>2, <1>3, <1>4, OtherSessions
<1> QED BY <1>5, <1>6, <1>7, <1>8 DEF IInv

LEMMA NarrowTransferStep ==
  ASSUME IInv, NEW p \in Procs, NarrowTransfer(p)
  PROVE  IInv'
<1> DEFINE w == io[p] \div 2
<1>1. w \in Nat
  BY Known
<1>2. /\ pc[p] = "refused" /\ "io" \in derived /\ Go(p, "schedule")
      /\ UNCHANGED <<kernel, files, scheduled, compiles, crashes>>
      /\ module' = [module EXCEPT ![p] = Lower(config[p], w)]
  BY DEF NarrowTransfer, CanNarrow, counts
<1>3. Now(p, config[p], threshold[p], w)
  BY Same DEF NarrowTransfer, Now
<1> HIDE DEF w
<1> QED BY <1>1, <1>2, <1>3, Known, RelowerStep

LEMMA DropLanesStep ==
  ASSUME IInv, NEW p \in Procs, DropLanes(p)
  PROVE  IInv'
<1> DEFINE c == [config[p] EXCEPT !.rows = @ \div 2]
<1>1. /\ pc[p] = "refused" /\ "rows" \in derived /\ Go(p, "schedule")
      /\ UNCHANGED <<kernel, files, scheduled, compiles, crashes>>
      /\ module' = [module EXCEPT ![p] = Lower(c, io[p])]
  BY DEF DropLanes, CanDropLanes, counts
<1>2. Now(p, c, threshold[p], io[p])
  BY Same DEF DropLanes, Now
<1>3. c \in Strategy /\ \A k \in Keys : k \notin derived => c[k] = initial[k]
  BY <1>1, Known DEF Strategy, Keys
<1>4. "io" \notin derived => io[p] = initial.io
  BY <1>1 DEF IInv, Session, Tries
<1> HIDE DEF c
<1> QED BY <1>1, <1>2, <1>3, <1>4, Known, RelowerStep

-----------------------------------------------------------------------------
(***************************************************************************)
(* The last writes.                                                        *)
(***************************************************************************)

LEMMA EndStep ==
  ASSUME IInv, NEW p \in Procs, GiveUp(p) \/ Return(p) \/ Interrupt(p)
  PROVE  IInv'
<1>1. /\ UNCHANGED <<kernel, files, config, module, threshold, io, scheduled, compiles>>
      /\ crashes' \in 0..MaxCrashes
  BY RetryAssumption DEF GiveUp, Return, Interrupt, counts, IInv, Types
<1>2. Entry'
  BY <1>1, SameEntry
<1>3. (pc[p] = "refused" /\ Go(p, "failed")) \/ Go(p, "idle")
  BY DEF GiveUp, Return, Interrupt
<1> QED BY <1>1, <1>2, <1>3, GoStep DEF Steps, Shipping

LEMMA PutResultStep ==
  ASSUME IInv, Traced, NEW p \in Procs, PutResult(p)
  PROVE  IInv'
<1>1. /\ UNCHANGED <<kernel, config, module, threshold, io, scheduled, compiles>>
      /\ crashes' = crashes /\ crashes' \in 0..MaxCrashes
  BY DEF PutResult, counts, IInv, Types
<1>2. /\ scheduled[p] \in Designs /\ scheduled[p] # None
      /\ Accepts(scheduled[p]) /\ DesignKeeps(scheduled[p])
  BY DEF PutResult, AfterWrite, IInv, Types, Session, Accepted, Shipping
<1>3. CASE pc[p] = "putPlan" /\ Write("plan", config[p])
  <2>1. Go(p, "putHls")
    BY <1>3 DEF PutResult, AfterWrite
  <2>2. Entry' /\ (files.decisions # None => files'.decisions # None)
    BY <1>1, <1>3, Known, PutFile DEF Write
  <2> QED BY <1>1, <1>2, <1>3, <2>1, <2>2, GoStep DEF Steps, Shipping
<1>4. CASE pc[p] = "putHls" /\ Write("hls", scheduled[p])
  <2>1. Go(p, "putDecisions")
    BY <1>4 DEF PutResult, AfterWrite
  <2>2. Entry' /\ (files.decisions # None => files'.decisions # None)
    BY <1>1, <1>2, <1>4, PutFile DEF Write
  <2> QED BY <1>1, <1>2, <1>4, <2>1, <2>2, GoStep DEF Steps, Shipping
<1>5. CASE pc[p] = "putDecisions" /\ Write("decisions", [values |-> config[p], trace |-> trace[p]])
  <2> DEFINE d == [values |-> config[p], trace |-> trace[p]]
  <2>1. Go(p, "putCpp")
    BY <1>5 DEF PutResult, AfterWrite
  <2>2. d \in Decisions
    BY Known DEF Traced, Decisions, Strategy
  <2>3. d # None
    BY <2>2, RetryAssumption
  <2>4. DOMAIN files' = FileNames /\ files'.decisions = d
        /\ \A f \in FileNames : f # "decisions" => files'[f] = files[f]
    BY <1>5 DEF Write, IInv, Entry, FileNames
  <2> HIDE DEF d
  <2>5. Entry'
    BY <1>1, <2>2, <2>3, <2>4 DEF IInv, Entry, FileNames, Accepts, Verdict, DesignKeeps, IRKeeps, kernel
  <2> QED BY <1>1, <1>2, <1>5, <2>1, <2>3, <2>4, <2>5, GoStep DEF Steps, Shipping
<1>6. CASE pc[p] = "putCpp" /\ Write("cpp", scheduled[p])
  <2>1. Go(p, "replay")
    BY <1>6 DEF PutResult, AfterWrite
  <2>2. DOMAIN files' = FileNames /\ files'.cpp = scheduled[p]
        /\ \A f \in FileNames : f # "cpp" => files'[f] = files[f]
    BY <1>6 DEF Write, IInv, Entry, FileNames
  <2>3. files.decisions # None
    BY <1>6 DEF IInv, Session, Accepted
  <2>4. initial' = initial /\ derived' = derived /\ device' = device
    BY <1>1 DEF kernel
  <2>5. Entry'
    BY <1>2, <2>2, <2>3, <2>4 DEF IInv, Entry, FileNames, Accepts, Verdict, DesignKeeps, IRKeeps
  <2>6. files'.decisions # None
    BY <2>2, <2>3 DEF FileNames
  <2> QED BY <1>1, <1>2, <1>6, <2>1, <2>5, <2>6, GoStep DEF Steps, Shipping
<1> QED BY <1>3, <1>4, <1>5, <1>6 DEF PutResult

-----------------------------------------------------------------------------
LEMMA NextTraced == IInv /\ Traced /\ [Next]_vars => Traced'
<1> SUFFICES ASSUME IInv, Traced, [Next]_vars PROVE Traced'
  OBVIOUS
<1>1. CASE UNCHANGED trace
  BY <1>1 DEF Traced
<1>2. ASSUME NEW p \in Procs, NEW t \in Traces, trace' = [trace EXCEPT ![p] = t]
      PROVE  Traced'
  BY <1>2 DEF Traced
<1>3. ASSUME NEW p \in Procs, NEW action \in {"bank", "stream", "narrow", "lanes"}, NEW after \in Nat,
             Record(p, action, after)
      PROVE  Traced'
  <2> DEFINE t == Append(trace[p], [action |-> action, after |-> after])
  <2>1. t \in Traces
    BY <1>3 DEF Traced, Traces
  <2> QED BY <1>2, <1>3, <2>1 DEF Record
<1>4. ASSUME NEW p \in Procs, Resolve(p) \/ Step(p) \/ Interrupt(p)
      PROVE  Traced'
  <2>1. CASE Resolve(p)
    <3>1. <<>> \in Traces
      BY DEF Traces
    <3> QED BY <2>1, <3>1, <1>2 DEF Resolve
  <2>2. CASE \/ LowerKernel(p) \/ AdoptReuse(p) \/ PlanPlacement(p) \/ CheckCached(p)
             \/ PutAffine(p) \/ Measure(p) \/ PutFacts(p) \/ DropFacts(p) \/ DropPlan(p)
             \/ PutRetried(p) \/ PlanShipped(p)
    BY <2>2, <1>1 DEF LowerKernel, AdoptReuse, PlanPlacement, CheckCached, PutAffine, Measure,
         PutFacts, DropFacts, DropPlan, PutRetried, PlanShipped
  <2>3. CASE Schedule(p) \/ Commit(p) \/ PutResult(p) \/ GiveUp(p) \/ Return(p) \/ Interrupt(p)
    BY <2>3, <1>1 DEF Schedule, Commit, PutResult, GiveUp, Return, Interrupt
  <2>4. CASE HalveBanks(p)
    BY <2>4, <1>3, Known DEF HalveBanks, Strategy, Keys
  <2>5. CASE StreamPlanes(p)
    BY <2>5, <1>3, RetryAssumption DEF StreamPlanes
  <2>6. CASE NarrowTransfer(p)
    BY <2>6, <1>3, Known DEF NarrowTransfer
  <2>7. CASE DropLanes(p)
    <3>1. config[p].rows \div 2 \in Nat /\ [config[p] EXCEPT !.rows = @ \div 2].rows = config[p].rows \div 2
      BY Known DEF Strategy, Keys
    <3> QED BY <2>7, <1>3, <3>1 DEF DropLanes
  <2>8. CASE Replay(p)
    <3>1. CASE files.decisions = None
      BY <2>8, <3>1, <1>1 DEF Replay
    <3>2. CASE files.decisions # None
      <4>1. files.decisions.trace \in Traces
        BY <3>2 DEF IInv, Entry, Decisions
      <4> QED BY <2>8, <3>2, <4>1, <1>2 DEF Replay
    <3> QED BY <3>1, <3>2
  <2> QED BY <1>4, <2>1, <2>2, <2>3, <2>4, <2>5, <2>6, <2>7, <2>8 DEF Step
<1> QED BY <1>1, <1>4 DEF Next, vars, session

LEMMA NextIInv == IInv /\ Traced /\ [Next]_vars => IInv'
<1> SUFFICES ASSUME IInv, Traced, [Next]_vars PROVE IInv'
  OBVIOUS
<1>1. CASE UNCHANGED vars
  <2>1. UNCHANGED <<kernel, files, session, compiles, crashes>>
    BY <1>1 DEF vars, counts
  <2>2. Entry'
    BY <2>1, SameEntry
  <2>3. Types'
    BY <2>1 DEF IInv, Types, kernel, session
  <2>4. \A q \in Procs : Session(q)'
    BY <2>1 DEF IInv, Session, Pins, Holds, Tries, Accepted, Accepts, Verdict, DesignKeeps, IRKeeps,
                kernel, session
  <2> QED BY <2>2, <2>3, <2>4 DEF IInv
<1>2. ASSUME NEW p \in Procs, Resolve(p) \/ Step(p) \/ Interrupt(p)
      PROVE  IInv'
  <2>1. CASE Resolve(p) \/ LowerKernel(p) \/ AdoptReuse(p) \/ PlanPlacement(p) \/ CheckCached(p)
    BY <2>1, ResolveStep, LowerStep, AdoptReuseStep, PlanPlacementStep, CheckCachedStep
  <2>2. CASE \/ PutAffine(p) \/ Measure(p) \/ PutFacts(p) \/ DropFacts(p) \/ DropPlan(p)
             \/ PutRetried(p) \/ PlanShipped(p)
    BY <2>2, StoreSteps
  <2>3. CASE \/ Schedule(p) \/ HalveBanks(p) \/ StreamPlanes(p) \/ NarrowTransfer(p) \/ DropLanes(p)
    BY <2>3, ScheduleStep, HalveBanksStep, StreamPlanesStep, NarrowTransferStep, DropLanesStep
  <2>4. CASE Commit(p) \/ PutResult(p) \/ Replay(p)
    BY <2>4, CommitStep, PutResultStep, ReplayStep
  <2>5. CASE GiveUp(p) \/ Return(p) \/ Interrupt(p)
    BY <2>5, EndStep
  <2> QED BY <1>2, <2>1, <2>2, <2>3, <2>4, <2>5 DEF Step
<1> QED BY <1>1, <1>2 DEF Next

\* The invariant holds in every behaviour of the HLS backend's compilations.
THEOREM Inductive == Spec => []IInv
<1>1. Init => Traced
  BY DEF Init, Traced, Traces
<1>2. Spec => [](IInv /\ Traced)
  BY <1>1, InitIInv, NextIInv, NextTraced, PTL DEF Spec
<1> QED BY <1>2, PTL

\* The variables keep their shapes (TypeOK), for any kernels, devices and bounds.
THEOREM Typed == Spec => []TypeOK
<1>1. IInv => TypeOK
  <2> SUFFICES ASSUME IInv PROVE TypeOK
    OBVIOUS
  <2>1. \A p \in Procs : /\ pc[p] \notin {"idle", "lower"} => module[p] \in IRs
                         /\ pc[p] \in {"commit", "dropFacts", "dropPlan", "putRetried"}
                              \cup DOMAIN AfterWrite => scheduled[p] \in Designs
    BY DEF IInv, Session, Holds, Accepted, Types, Shipping, AfterWrite
  <2> QED BY <2>1 DEF IInv, Types, Entry, Strategy, TypeOK
<1> QED BY <1>1, Inductive, PTL

\* C++ the scheduler refused is never kept (ShippedFits), whoever is interrupted
\* between two writes of the entry.
THEOREM KeepsOnlyFitting == Spec => []ShippedFits
<1>1. IInv => ShippedFits
  BY DEF IInv, Entry, Accepts, ShippedFits
<1> QED BY <1>1, Inductive, PTL

\* The ladder never trades a pinned value away (PinnedStands): every rung asks
\* whether its key was derived, and cached IR was lowered with the same pins.
THEOREM PinsStand == Spec => []PinnedStands
<1>1. IInv => PinnedStands
  <2> SUFFICES ASSUME IInv, files.cpp # None PROVE PinnedStands
    BY DEF PinnedStands
  <2>1. DesignKeeps(files.cpp)
    BY DEF IInv, Entry
  <2> QED BY <2>1 DEF DesignKeeps, IRKeeps, PinnedStands
<1> QED BY <1>1, Inductive, PTL

\* C++ is never in the entry without the decisions it was built with
\* (CppHasDecisions), in any interleaving of any number of compilations.
THEOREM DecisionsFirst == Spec => []CppHasDecisions
<1>1. IInv => CppHasDecisions
  BY DEF IInv, Entry, CppHasDecisions
<1> QED BY <1>1, Inductive, PTL

\* What the entry keeps fits, has the pinned values and can be replayed (KeptSound).
THEOREM KeepsSound == Spec => []KeptSound
<1>1. ShippedFits /\ PinnedStands /\ CppHasDecisions => KeptSound
  BY DEF KeptSound
<1> QED BY <1>1, KeepsOnlyFitting, PinsStand, DecisionsFirst, PTL
-----------------------------------------------------------------------------
Widths == {"io", "rows"}
Trying == {"schedule", "refused", "commit"}

\* Before the first schedule, and after the one that was accepted.
Measuring == {"facts", "putFacts", "plan"}
Early(p) == pc[p] \in {"lower", "putAffine", "reuse"} \/ (pc[p] \in Measuring /\ scheduled[p] = None)
Late(p) == \/ pc[p] \in {"dropFacts", "dropPlan", "putRetried", "putPlan", "putHls", "putDecisions", "putCpp"}
           \/ pc[p] \in Measuring /\ scheduled[p] # None

\* One compilation at a time.
Alone == \A p, q \in Procs : pc[p] # "idle" /\ pc[q] # "idle" => p = q

-----------------------------------------------------------------------------
(***************************************************************************)
(* Ladder                                                                  *)
(***************************************************************************)

\* A width that the ladder reaches from the first one.
Reaches(k, v) == k \in derived => IF initial[k] > 1 THEN v >= 1 ELSE v = initial[k]

\* IR of another width than the one tried, or planned, is followed by a rung.
Follows(k, v, w) == k \in derived => w = v \/ v > 1

Leads(c, m) == \A k \in Widths : Reaches(k, c[k]) /\ Follows(k, c[k], m[k])

ThresholdTried(t) ==
  "threshold" \in derived => t = initial.threshold \/ (t = Streamed /\ Streamed < initial.threshold)

\* What a compilation tries.
Rung(p) == [io |-> io[p], rows |-> config[p].rows]

\* The IR of the entry is the one it holds.
Stores(p) == \/ pc[p] \in {"reuse", "facts", "putFacts", "plan", "check", "putPlan"}
             \/ pc[p] \in Trying /\ ~relowered[p]

EntryLadder ==
  /\ files.affine # None => \A k \in Widths : Follows(k, initial[k], files.affine[k])
  /\ files.plan # None => /\ files.affine # None
                          /\ Leads(files.plan, files.affine) /\ ThresholdTried(files.plan.threshold)

Begins(p) ==
  /\ Early(p) \/ pc[p] = "check" => ~relowered[p] /\ scheduled[p] = None
  /\ Early(p) => \A k \in Widths : config[p][k] = initial[k]
  /\ pc[p] = "putAffine" => files.affine = None /\ \A k \in Widths : module[p][k] = initial[k]
  /\ Stores(p) => files.affine = module[p]

Climbs(p) ==
  /\ pc[p] = "check" \/ Late(p) => Leads(config[p], module[p]) /\ ThresholdTried(config[p].threshold)
  /\ pc[p] \in Trying \cup {"failed"} => Leads(Rung(p), module[p]) /\ ThresholdTried(threshold[p])
  /\ pc[p] = "putRetried" => files.plan = None

Fails(p) ==
  /\ pc[p] \in {"refused", "failed"} => ~Accepts(Tried(p))
  /\ pc[p] = "failed" => /\ ~CanBank(p) /\ ~CanStream(p) /\ ~CanNarrow(p) /\ ~CanDropLanes(p)
                         /\ "threshold" \notin derived => threshold[p] = initial.threshold

Rungs(p) == Begins(p) /\ Climbs(p) /\ Fails(p)

Ladder ==
  /\ Alone
  /\ relowered \in [Procs -> BOOLEAN]
  /\ EntryLadder
  /\ \A p \in Procs : Rungs(p)

\* The invariant of behaviours in which no two compilations overlapped.
OneAtATime == "overlap" \notin disturbed => Ladder

-----------------------------------------------------------------------------
\* What a step of p that keeps the others idle leaves of the kernel.
LEMMA SameKernel ==
  ASSUME NEW p \in Procs, Resolve(p) \/ Step(p) \/ Interrupt(p)
  PROVE  /\ initial' = initial /\ derived' = derived /\ device' = device /\ share' = share
         /\ disturbed \subseteq disturbed'
<1>1. CASE Resolve(p) \/ Interrupt(p)
  BY <1>1 DEF Resolve, Interrupt, kernel
<1>2. CASE Step(p)
  BY <1>2 DEF Step, LowerKernel, PutAffine, AdoptReuse, Measure, PutFacts, PlanPlacement, CheckCached,
       Schedule, HalveBanks, StreamPlanes, NarrowTransfer, DropLanes, GiveUp, Commit, DropFacts,
       DropPlan, PutRetried, PlanShipped, PutResult, Replay, Return, kernel, counts
<1> QED BY <1>1, <1>2

\* Where compilations do not overlap, the others are idle when p takes a step.
LEMMA OthersIdle ==
  ASSUME Alone, NEW p \in Procs, Resolve(p) \/ Step(p) \/ Interrupt(p), "overlap" \notin disturbed'
  PROVE  \A q \in Procs : q # p => pc[q] = "idle"
<1>1. CASE Resolve(p)
  BY <1>1 DEF Resolve
<1>2. CASE Step(p) \/ Interrupt(p)
  <2>1. pc[p] # "idle"
    BY <1>2 DEF Step, LowerKernel, PutAffine, AdoptReuse, Measure, PutFacts, PlanPlacement, CheckCached,
       Schedule, HalveBanks, StreamPlanes, NarrowTransfer, DropLanes, GiveUp, Commit, DropFacts,
       DropPlan, PutRetried, PlanShipped, PutResult, AfterWrite, Replay, Return, Interrupt
  <2> QED BY <2>1 DEF Alone
<1> QED BY <1>1, <1>2

\* A file that is written or removed, the others staying.
LEMMA FileWritten ==
  ASSUME IInv, NEW f \in FileNames, NEW content, Write(f, content)
  PROVE  files'[f] = content /\ \A g \in FileNames : g # f => files'[g] = files[g]
BY DEF IInv, Entry, Write

\* The program counter of p moves, and those of idle compilations do not.
LEMMA Moves ==
  ASSUME IInv, NEW p \in Procs, NEW step \in Steps, Go(p, step)
  PROVE  pc'[p] = step /\ \A q \in Procs : q # p => pc'[q] = pc[q]
BY DEF IInv, Types, Go

\* It is enough to look at the entry and at the compilation that takes the step.
LEMMA LadderStep ==
  ASSUME IInv, NEW p \in Procs, \A q \in Procs : q # p => pc[q] = "idle",
         NEW step \in Steps, Go(p, step),
         relowered' \in [Procs -> BOOLEAN], EntryLadder', Rungs(p)'
  PROVE  Ladder'
<1>1. \A q \in Procs : q # p => pc'[q] = "idle"
  BY Moves
<1>2. \A q \in Procs : q # p => Rungs(q)'
  BY <1>1 DEF Rungs, Begins, Climbs, Fails, Early, Late, Measuring, Trying, Stores
<1>3. Alone'
  BY <1>1 DEF Alone
<1> QED BY <1>2, <1>3 DEF Ladder

\* The parts of the invariant at a step that changes nothing they speak of.
LEMMA EntryStays ==
  ASSUME EntryLadder, initial' = initial, derived' = derived,
         files'["affine"] = files["affine"], files'["plan"] = files["plan"]
  PROVE  EntryLadder'
BY DEF EntryLadder, Leads, Reaches, Follows, Widths, ThresholdTried

-----------------------------------------------------------------------------
(***************************************************************************)
(* The ladder: the stages before it.                                       *)
(***************************************************************************)

LEMMA LadderInit == Init => Ladder
<1> SUFFICES ASSUME Init PROVE Ladder
  OBVIOUS
<1>1. EntryLadder
  BY DEF Init, EntryLadder
<1>2. \A p \in Procs : Rungs(p)
  BY DEF Init, Rungs, Begins, Climbs, Fails, Early, Late, Measuring, Trying, Stores
<1> QED BY <1>1, <1>2 DEF Init, Ladder, Alone

LEMMA LadderResolve ==
  ASSUME IInv, Ladder, NEW p \in Procs, Resolve(p), \A q \in Procs : q # p => pc[q] = "idle"
  PROVE  Ladder'
<1> DEFINE c == [k \in Keys |-> IF k = "threshold" /\ k \in derived THEN 0 ELSE initial[k]]
<1>1. /\ Go(p, "lower") /\ config' = [config EXCEPT ![p] = c] /\ files' = files
      /\ scheduled' = [scheduled EXCEPT ![p] = None]
      /\ relowered' = [relowered EXCEPT ![p] = FALSE]
      /\ initial' = initial /\ derived' = derived
  BY DEF Resolve, kernel
<1>2. c.io = initial.io /\ c.rows = initial.rows
  BY DEF Keys
<1> HIDE DEF c
<1>3. pc'[p] = "lower" /\ config'[p] = c /\ scheduled'[p] = None /\ relowered'[p] = FALSE
  BY <1>1, Moves DEF Steps, IInv, Types, Ladder
<1>4. Rungs(p)'
  BY <1>1, <1>2, <1>3
     DEF Rungs, Begins, Climbs, Fails, Early, Late, Measuring, Trying, Stores, Widths
<1>5. EntryLadder' /\ relowered' \in [Procs -> BOOLEAN] /\ "lower" \in Steps
  BY <1>1, EntryStays DEF Ladder, Steps
<1> QED BY <1>1, <1>4, <1>5, LadderStep

LEMMA LadderLower ==
  ASSUME IInv, Ladder, NEW p \in Procs, LowerKernel(p), \A q \in Procs : q # p => pc[q] = "idle"
  PROVE  Ladder'
<1>1. /\ pc[p] = "lower" /\ initial' = initial /\ derived' = derived
      /\ config' = config /\ scheduled' = scheduled /\ relowered' = relowered
  BY DEF LowerKernel, kernel
<1>2. /\ ~relowered[p] /\ scheduled[p] = None
      /\ \A k \in Widths : config[p][k] = initial[k]
  BY <1>1 DEF Ladder, Rungs, Begins, Early
<1>3. CASE files.affine # None
  <2>1. /\ Go(p, "reuse") /\ files' = files /\ module' = [module EXCEPT ![p] = files.affine]
    BY <1>3 DEF LowerKernel
  <2>2. pc'[p] = "reuse" /\ module'[p] = files.affine
    BY <2>1, Moves DEF Steps, IInv, Types
  <2>3. Rungs(p)'
    BY <1>1, <1>2, <2>1, <2>2
       DEF Rungs, Begins, Climbs, Fails, Early, Late, Measuring, Trying, Stores
  <2>4. EntryLadder' /\ "reuse" \in Steps
    BY <1>1, <2>1, EntryStays DEF Ladder, Steps
  <2> QED BY <1>1, <2>1, <2>3, <2>4, LadderStep DEF Ladder
<1>4. CASE files.affine = None
  <2> DEFINE shared == "reuse" \in derived /\ share
             used == IF shared THEN [config[p] EXCEPT !.reuse = 1] ELSE config[p]
             m == Lower(used, config[p].io)
  <2>1. /\ Go(p, "putAffine") /\ module' = [module EXCEPT ![p] = m]
        /\ Write("reuse", 1) \/ files' = files
    BY <1>4 DEF LowerKernel
  <2>2. used.rows = config[p].rows
    BY Known DEF Strategy, Keys
  <2>3. \A k \in Widths : m[k] = initial[k]
    BY <1>2, <2>2 DEF Lower, Widths
  <2> HIDE DEF m
  <2>4. pc'[p] = "putAffine" /\ module'[p] = m
    BY <2>1, Moves DEF Steps, IInv, Types
  <2>5. files'["affine"] = files["affine"] /\ files'["plan"] = files["plan"]
    BY <2>1, FileWritten DEF FileNames
  <2>6. Rungs(p)'
    BY <1>1, <1>2, <1>4, <2>3, <2>4, <2>5
       DEF Rungs, Begins, Climbs, Fails, Early, Late, Measuring, Trying, Stores
  <2>7. EntryLadder' /\ "putAffine" \in Steps
    BY <1>1, <2>5, EntryStays DEF Ladder, Steps
  <2> QED BY <1>1, <2>1, <2>6, <2>7, LadderStep DEF Ladder
<1> QED BY <1>3, <1>4

LEMMA LadderAdoptReuse ==
  ASSUME IInv, Ladder, NEW p \in Procs, AdoptReuse(p), \A q \in Procs : q # p => pc[q] = "idle"
  PROVE  Ladder'
<1>1. /\ pc[p] = "reuse" /\ Go(p, "facts") /\ files' = files
      /\ initial' = initial /\ derived' = derived
      /\ module' = module /\ scheduled' = scheduled /\ relowered' = relowered
  BY DEF AdoptReuse, kernel
<1>2. config'[p].io = config[p].io /\ config'[p].rows = config[p].rows
  BY Known DEF AdoptReuse, IInv, Types, Strategy, Keys
<1>3. pc'[p] = "facts"
  BY <1>1, Moves DEF Steps
<1>4. Rungs(p)'
  BY <1>1, <1>2, <1>3
     DEF Ladder, Rungs, Begins, Climbs, Fails, Early, Late, Measuring, Trying, Stores, Widths
<1>5. EntryLadder' /\ "facts" \in Steps
  BY <1>1, EntryStays DEF Ladder, Steps
<1> QED BY <1>1, <1>4, <1>5, LadderStep DEF Ladder

\* A step that writes or drops a file and changes nothing else but the program counter.
Still ==
  UNCHANGED <<initial, derived, share, device, config, module, threshold, io, relowered, scheduled, trace>>

LEMMA LadderPutAffine ==
  ASSUME IInv, Ladder, NEW p \in Procs, PutAffine(p), \A q \in Procs : q # p => pc[q] = "idle"
  PROVE  Ladder'
<1>1. pc[p] = "putAffine" /\ Go(p, "reuse") /\ Still /\ Write("affine", module[p])
  BY DEF PutAffine, kernel, Still
<1>2. /\ files["affine"] = None /\ ~relowered[p] /\ scheduled[p] = None
      /\ \A k \in Widths : module[p][k] = initial[k] /\ config[p][k] = initial[k]
  BY <1>1 DEF Ladder, Rungs, Begins, Early
<1>3. files'["affine"] = module[p] /\ files'["plan"] = files["plan"]
  BY <1>1, FileWritten DEF FileNames
<1>4. files["plan"] = None
  BY <1>2 DEF Ladder, EntryLadder
<1>5. EntryLadder'
  BY <1>1, <1>2, <1>3, <1>4 DEF EntryLadder, Follows, Still
<1>6. pc'[p] = "reuse" /\ "reuse" \in Steps
  BY <1>1, Moves DEF Steps
<1>7. Rungs(p)'
  BY <1>1, <1>2, <1>3, <1>6
     DEF Rungs, Begins, Climbs, Fails, Early, Late, Measuring, Trying, Stores, Still
<1>8. relowered' \in [Procs -> BOOLEAN]
  BY <1>1 DEF Ladder, Still
<1> QED BY <1>1, <1>5, <1>6, <1>7, <1>8, LadderStep

LEMMA LadderMeasure ==
  ASSUME IInv, Ladder, NEW p \in Procs, Measure(p) \/ PutFacts(p),
         \A q \in Procs : q # p => pc[q] = "idle"
  PROVE  Ladder'
<1>1. /\ pc[p] \in {"facts", "putFacts"} /\ Still
      /\ Go(p, "plan") \/ Go(p, "putFacts")
      /\ files' = files \/ \E content : Write("facts", content)
  BY DEF Measure, PutFacts, kernel, Still
<1>2. files'["affine"] = files["affine"] /\ files'["plan"] = files["plan"]
  BY <1>1, FileWritten DEF FileNames
<1>3. EntryLadder'
  BY <1>1, <1>2, EntryStays DEF Ladder, Still
<1>4. PICK step \in {"plan", "putFacts"} : Go(p, step)
  BY <1>1
<1>5. pc'[p] = step /\ step \in Steps
  BY <1>4, Moves DEF Steps
<1>6. Begins(p)'
  BY <1>1, <1>2, <1>5 DEF Ladder, Rungs, Begins, Early, Measuring, Trying, Stores, Still
<1>7. Climbs(p)'
  BY <1>1, <1>5 DEF Ladder, Rungs, Climbs, Late, Measuring, Trying, Still,
                    Leads, Reaches, Follows, Widths, ThresholdTried
<1>8. Fails(p)'
  BY <1>5 DEF Fails
<1>9. relowered' \in [Procs -> BOOLEAN]
  BY <1>1 DEF Ladder, Still
<1> QED BY <1>3, <1>4, <1>5, <1>6, <1>7, <1>8, <1>9, LadderStep DEF Rungs

LEMMA LadderPlanPlacement ==
  ASSUME IInv, Ladder, NEW p \in Procs, PlanPlacement(p), \A q \in Procs : q # p => pc[q] = "idle"
  PROVE  Ladder'
<1> DEFINE values == IF files.plan # None THEN files.plan ELSE Plan(config[p])
           c == Adopt(config[p], values)
<1>1. /\ pc[p] = "plan" /\ scheduled[p] = None /\ Go(p, "check") /\ Write("plan", values)
      /\ config' = [config EXCEPT ![p] = c]
      /\ initial' = initial /\ derived' = derived
      /\ module' = module /\ scheduled' = scheduled /\ relowered' = relowered
  BY DEF PlanPlacement, kernel
<1>2. /\ ~relowered[p] /\ files["affine"] = module[p] /\ module[p] # None
      /\ \A k \in Widths : config[p][k] = initial[k]
  <2>1. module[p] # None
    BY <1>1, Shapes DEF IInv, Session, Holds
  <2> QED BY <1>1, <2>1 DEF Ladder, Rungs, Begins, Early, Measuring, Stores
<1>3. Leads(values, module[p]) /\ ThresholdTried(values.threshold)
  <2>1. CASE files.plan # None
    BY <1>2, <2>1 DEF Ladder, EntryLadder
  <2>2. CASE files.plan = None
    <3>1. values.io = initial.io /\ values.rows = initial.rows /\ values.threshold = initial.threshold
      BY <1>2, <2>2, Known DEF Plan, Strategy, Keys, Widths
    <3>2. initial.io \in Nat /\ initial.rows \in Nat
      BY Shapes DEF Strategy, Keys
    <3>3. \A k \in Widths : Follows(k, initial[k], module[p][k])
      BY <1>2 DEF Ladder, EntryLadder
    <3> HIDE DEF values
    <3> QED BY <3>1, <3>2, <3>3 DEF Leads, Reaches, Follows, Widths, ThresholdTried
  <2> QED BY <2>1, <2>2
<1>4. Leads(c, module[p]) /\ ThresholdTried(c.threshold)
  <2> HIDE DEF values
  <2>1. \A k \in {"io", "rows", "threshold"} : k \in derived => c[k] = values[k]
    BY DEF Adopt, Keys
  <2> HIDE DEF c
  <2> QED BY <1>3, <2>1 DEF Leads, Reaches, Follows, Widths, ThresholdTried
<1> HIDE DEF values, c
<1>5. files'["plan"] = values /\ files'["affine"] = module[p]
  BY <1>1, <1>2, FileWritten DEF FileNames
<1>6. \A k \in Widths : Follows(k, initial[k], module[p][k])
  BY <1>2 DEF Ladder, EntryLadder
<1>7. EntryLadder'
  BY <1>1, <1>2, <1>3, <1>5, <1>6
     DEF EntryLadder, Leads, Reaches, Follows, Widths, ThresholdTried
<1>8. pc'[p] = "check" /\ "check" \in Steps /\ config'[p] = c
  BY <1>1, Moves DEF Steps, IInv, Types
<1>9. Begins(p)'
  BY <1>1, <1>2, <1>5, <1>8 DEF Begins, Early, Measuring, Stores
<1>10. Climbs(p)' /\ Fails(p)'
  BY <1>1, <1>4, <1>8 DEF Climbs, Fails, Late, Measuring, Trying,
                          Leads, Reaches, Follows, Widths, ThresholdTried
<1>11. relowered' \in [Procs -> BOOLEAN]
  BY <1>1 DEF Ladder
<1> QED BY <1>1, <1>7, <1>8, <1>9, <1>10, <1>11, LadderStep DEF Rungs

LEMMA LadderCheckCached ==
  ASSUME IInv, Ladder, NEW p \in Procs, CheckCached(p), \A q \in Procs : q # p => pc[q] = "idle"
  PROVE  Ladder'
<1>1. /\ pc[p] = "check" /\ files' = files /\ initial' = initial /\ derived' = derived
      /\ config' = config /\ module' = module /\ scheduled' = scheduled /\ relowered' = relowered
  BY DEF CheckCached, kernel
<1>2. EntryLadder'
  BY <1>1, EntryStays DEF Ladder
<1>3. CASE files.cpp # None
  <2>1. Go(p, "replay") /\ "replay" \in Steps
    BY <1>3 DEF CheckCached, Steps
  <2>2. pc'[p] = "replay"
    BY <2>1, Moves
  <2>3. Rungs(p)'
    BY <2>2 DEF Rungs, Begins, Climbs, Fails, Early, Late, Measuring, Trying, Stores
  <2> QED BY <1>1, <1>2, <2>1, <2>3, LadderStep DEF Ladder
<1>4. CASE files.cpp = None
  <2>1. /\ Go(p, "schedule") /\ "schedule" \in Steps
        /\ threshold' = [threshold EXCEPT ![p] = config[p].threshold]
        /\ io' = [io EXCEPT ![p] = config[p].io]
    BY <1>4 DEF CheckCached, Steps
  <2>2. pc'[p] = "schedule" /\ threshold'[p] = config[p].threshold /\ io'[p] = config[p].io
    BY <2>1, Moves DEF IInv, Types
  <2>3. Leads(config[p], module[p]) /\ ThresholdTried(config[p].threshold)
        /\ ~relowered[p] /\ files.affine = module[p]
    BY <1>1 DEF Ladder, Rungs, Begins, Climbs, Stores
  <2>4. Begins(p)' /\ Fails(p)'
    BY <1>1, <2>2, <2>3 DEF Begins, Fails, Early, Measuring, Trying, Stores
  <2>5. Climbs(p)'
    BY <1>1, <2>2, <2>3 DEF Climbs, Late, Measuring, Trying, Rung,
                            Leads, Reaches, Follows, Widths, ThresholdTried
  <2> QED BY <1>1, <1>2, <2>1, <2>4, <2>5, LadderStep DEF Ladder, Rungs
<1> QED BY <1>3, <1>4

-----------------------------------------------------------------------------
(***************************************************************************)
(* The ladder itself.                                                      *)
(***************************************************************************)

\* What is known of a compilation while it tries designs.
LEMMA WhileTrying ==
  ASSUME IInv, Ladder, NEW p \in Procs, pc[p] \in Trying \cup {"failed"}
  PROVE  /\ \A k \in Widths : Reaches(k, Rung(p)[k]) /\ Follows(k, Rung(p)[k], module[p][k])
         /\ ThresholdTried(threshold[p])
         /\ pc[p] \in Trying /\ ~relowered[p] => files.affine = module[p]
BY DEF Ladder, Rungs, Begins, Climbs, Stores, Leads

LEMMA LadderSchedule ==
  ASSUME IInv, Ladder, NEW p \in Procs, Schedule(p), \A q \in Procs : q # p => pc[q] = "idle"
  PROVE  Ladder'
<1>1. /\ pc[p] = "schedule" /\ files' = files /\ config' = config /\ module' = module
      /\ initial' = initial /\ derived' = derived /\ device' = device
      /\ threshold' = threshold /\ io' = io /\ relowered' = relowered
  BY DEF Schedule, kernel
<1>2. PICK step \in {"commit", "refused"} : Go(p, step) /\ (step = "refused" => ~Accepts(Tried(p)))
  BY DEF Schedule
<1>3. pc'[p] = step /\ step \in Steps
  BY <1>2, Moves DEF Steps
<1>4. EntryLadder'
  BY <1>1, EntryStays DEF Ladder
<1>5. Begins(p)'
  BY <1>1, <1>3, WhileTrying DEF Begins, Early, Measuring, Trying, Stores
<1>6. Climbs(p)'
  BY <1>1, <1>3, WhileTrying DEF Climbs, Late, Measuring, Trying, Rung,
                                 Leads, Reaches, Follows, Widths, ThresholdTried
<1>7. Fails(p)'
  BY <1>1, <1>2, <1>3 DEF Fails, Accepts, Verdict, Tried
<1> QED BY <1>1, <1>2, <1>3, <1>4, <1>5, <1>6, <1>7, LadderStep DEF Ladder, Rungs

\* A rung is tried: the program counter is back at the scheduler, and the rung's
\* widths and threshold are ones the ladder reaches.
LEMMA RungStep ==
  ASSUME IInv, Ladder, NEW p \in Procs, \A q \in Procs : q # p => pc[q] = "idle",
         pc[p] = "refused", Go(p, "schedule"),
         UNCHANGED <<initial, derived, files>>,
         relowered' \in [Procs -> BOOLEAN],
         ~relowered'[p] => ~relowered[p] /\ module'[p] = module[p],
         \A k \in Widths : Reaches(k, Rung(p)'[k]) /\ Follows(k, Rung(p)'[k], module'[p][k]),
         ThresholdTried(threshold'[p])
  PROVE  Ladder'
<1>1. pc'[p] = "schedule" /\ "schedule" \in Steps
  BY Moves DEF Steps
<1>2. EntryLadder'
  BY EntryStays DEF Ladder
<1>3. Begins(p)'
  BY <1>1, WhileTrying DEF Begins, Early, Measuring, Trying, Stores
<1>4. Climbs(p)'
  BY <1>1 DEF Climbs, Late, Measuring, Trying, Leads, Reaches, Follows, ThresholdTried
<1>5. Fails(p)'
  BY <1>1 DEF Fails
<1> QED BY <1>1, <1>2, <1>3, <1>4, <1>5, LadderStep DEF Rungs

LEMMA LadderHalveBanks ==
  ASSUME IInv, Ladder, NEW p \in Procs, HalveBanks(p), \A q \in Procs : q # p => pc[q] = "idle"
  PROVE  Ladder'
<1>1. /\ pc[p] = "refused" /\ Go(p, "schedule") /\ UNCHANGED <<initial, derived, files>>
      /\ relowered' = relowered /\ module' = module /\ threshold' = threshold /\ io' = io
  BY DEF HalveBanks, kernel
<1>2. config'[p].rows = config[p].rows
  BY Known DEF HalveBanks, IInv, Types, Strategy, Keys
<1>3. Rung(p)' = Rung(p)
  BY <1>1, <1>2 DEF Rung
<1> QED BY <1>1, <1>3, WhileTrying, RungStep DEF Trying, Ladder

LEMMA LadderStreamPlanes ==
  ASSUME IInv, Ladder, NEW p \in Procs, StreamPlanes(p), \A q \in Procs : q # p => pc[q] = "idle"
  PROVE  Ladder'
<1>1. /\ pc[p] = "refused" /\ Go(p, "schedule") /\ UNCHANGED <<initial, derived, files>>
      /\ relowered' = relowered /\ module' = module /\ config' = config /\ io' = io
      /\ threshold' = [threshold EXCEPT ![p] = Streamed]
      /\ "threshold" \in derived /\ Streamed < threshold[p]
  BY DEF StreamPlanes, CanStream, kernel
<1>2. threshold'[p] = Streamed
  BY <1>1 DEF IInv, Types
<1>3. ThresholdTried(threshold'[p])
  <2>1. ThresholdTried(threshold[p])
    BY <1>1, WhileTrying DEF Trying
  <2>2. ~(Streamed < Streamed)
    BY RetryAssumption
  <2> QED BY <1>1, <1>2, <2>1, <2>2 DEF ThresholdTried
<1>4. Rung(p)' = Rung(p)
  BY <1>1 DEF Rung
<1> QED BY <1>1, <1>3, <1>4, WhileTrying, RungStep DEF Trying, Ladder

\* A width that is halved while it is more than one is one the ladder reaches.
LEMMA HalfReaches ==
  ASSUME IInv, NEW k \in Widths, NEW v \in Nat, v > 1, Reaches(k, v)
  PROVE  Reaches(k, v \div 2)
<1>1. v \div 2 \in Nat /\ v \div 2 >= 1
  OBVIOUS
<1>2. initial[k] \in Nat
  BY Shapes DEF Strategy, Keys, Widths
<1> QED BY <1>1, <1>2 DEF Reaches

LEMMA LadderNarrowTransfer ==
  ASSUME IInv, Ladder, NEW p \in Procs, NarrowTransfer(p), \A q \in Procs : q # p => pc[q] = "idle"
  PROVE  Ladder'
<1> DEFINE w == io[p] \div 2
           m == Lower(config[p], w)
<1>1. /\ pc[p] = "refused" /\ Go(p, "schedule") /\ UNCHANGED <<initial, derived, files>>
      /\ relowered' = [relowered EXCEPT ![p] = TRUE] /\ config' = config /\ threshold' = threshold
      /\ io' = [io EXCEPT ![p] = w] /\ module' = [module EXCEPT ![p] = m]
      /\ io[p] > 1
  BY DEF NarrowTransfer, CanNarrow, kernel
<1>2. m.io = w /\ m.rows = config[p].rows
  BY DEF Lower
<1>3. Reaches("io", w) /\ Reaches("rows", config[p].rows)
  <2>1. Reaches("io", io[p]) /\ Reaches("rows", config[p].rows)
    BY <1>1, WhileTrying DEF Trying, Rung, Widths
  <2> QED BY <1>1, <2>1, Known, HalfReaches DEF Widths
<1> HIDE DEF w, m
<1>4. io'[p] = w /\ module'[p] = m /\ relowered'[p] = TRUE /\ relowered' \in [Procs -> BOOLEAN]
  BY <1>1 DEF IInv, Types, Ladder
<1>5. Rung(p)' = [io |-> w, rows |-> config[p].rows]
  BY <1>1, <1>4 DEF Rung
<1>6. \A k \in Widths : Reaches(k, Rung(p)'[k]) /\ Follows(k, Rung(p)'[k], module'[p][k])
  BY <1>2, <1>3, <1>4, <1>5 DEF Widths, Follows
<1> QED BY <1>1, <1>4, <1>6, WhileTrying, RungStep DEF Trying

LEMMA LadderDropLanes ==
  ASSUME IInv, Ladder, NEW p \in Procs, DropLanes(p), \A q \in Procs : q # p => pc[q] = "idle"
  PROVE  Ladder'
<1> DEFINE c == [config[p] EXCEPT !.rows = @ \div 2]
           m == Lower(c, io[p])
<1>1. /\ pc[p] = "refused" /\ Go(p, "schedule") /\ UNCHANGED <<initial, derived, files>>
      /\ relowered' = [relowered EXCEPT ![p] = TRUE] /\ io' = io /\ threshold' = threshold
      /\ config' = [config EXCEPT ![p] = c] /\ module' = [module EXCEPT ![p] = m]
      /\ config[p].rows > 1
  BY DEF DropLanes, CanDropLanes, kernel
<1>2. config[p].rows \in Nat /\ c.rows = config[p].rows \div 2
  BY Known DEF Strategy, Keys
<1>3. m.io = io[p] /\ m.rows = c.rows
  BY DEF Lower
<1>4. Reaches("io", io[p]) /\ Reaches("rows", c.rows)
  <2>1. Reaches("io", io[p]) /\ Reaches("rows", config[p].rows)
    BY <1>1, WhileTrying DEF Trying, Rung, Widths
  <2> QED BY <1>1, <1>2, <2>1, HalfReaches DEF Widths
<1> HIDE DEF c, m
<1>5. config'[p] = c /\ module'[p] = m /\ relowered'[p] = TRUE /\ relowered' \in [Procs -> BOOLEAN]
  BY <1>1 DEF IInv, Types, Ladder
<1>6. Rung(p)' = [io |-> io[p], rows |-> c.rows]
  BY <1>1, <1>5 DEF Rung
<1>7. \A k \in Widths : Reaches(k, Rung(p)'[k]) /\ Follows(k, Rung(p)'[k], module'[p][k])
  BY <1>3, <1>4, <1>5, <1>6 DEF Widths, Follows
<1> QED BY <1>1, <1>5, <1>7, WhileTrying, RungStep DEF Trying

LEMMA LadderGiveUp ==
  ASSUME IInv, Ladder, NEW p \in Procs, GiveUp(p), \A q \in Procs : q # p => pc[q] = "idle"
  PROVE  Ladder'
<1>1. /\ pc[p] = "refused" /\ Go(p, "failed") /\ Still /\ files' = files
      /\ ~CanBank(p) /\ ~CanStream(p) /\ ~CanNarrow(p) /\ ~CanDropLanes(p)
  BY DEF GiveUp, kernel, Still
<1>2. pc'[p] = "failed" /\ "failed" \in Steps
  BY <1>1, Moves DEF Steps
<1>3. EntryLadder' /\ relowered' \in [Procs -> BOOLEAN]
  BY <1>1, EntryStays DEF Ladder, Still
<1>4. Begins(p)'
  BY <1>2 DEF Begins, Early, Measuring, Trying, Stores
<1>5. Climbs(p)'
  BY <1>1, <1>2, WhileTrying DEF Climbs, Late, Measuring, Trying, Rung, Still,
                                 Leads, Reaches, Follows, Widths, ThresholdTried
<1>6. "threshold" \notin derived => threshold[p] = initial.threshold
  BY <1>1 DEF IInv, Session, Tries
<1>7. ~Accepts(Tried(p))
  BY <1>1 DEF Ladder, Rungs, Fails
<1>8. Fails(p)'
  BY <1>1, <1>2, <1>6, <1>7
     DEF Fails, Accepts, Verdict, Tried, CanBank, CanStream, CanNarrow, CanDropLanes, Still
<1> QED BY <1>1, <1>2, <1>3, <1>4, <1>5, <1>8, LadderStep DEF Rungs

-----------------------------------------------------------------------------
(***************************************************************************)
(* The ladder: what is kept.                                               *)
(***************************************************************************)

LEMMA LadderCommit ==
  ASSUME IInv, Ladder, NEW p \in Procs, Commit(p), \A q \in Procs : q # p => pc[q] = "idle"
  PROVE  Ladder'
<1> DEFINE c == Committed(p)
<1>1. /\ pc[p] = "commit" /\ files' = files /\ config' = [config EXCEPT ![p] = c]
      /\ initial' = initial /\ derived' = derived
      /\ module' = module /\ relowered' = relowered /\ scheduled' = scheduled
      /\ Go(p, IF relowered[p] THEN "dropFacts" ELSE "facts")
  BY DEF Commit, kernel
<1>2. /\ "threshold" \in derived => c.threshold = threshold[p]
      /\ "io" \in derived => c.io = io[p]
      /\ c.rows = config[p].rows
  BY DEF Committed, Keys
<1> HIDE DEF c
<1>3. scheduled[p] # None
  BY <1>1 DEF IInv, Session, Accepted, Shipping
<1>4. PICK step \in {"dropFacts", "facts"} : Go(p, step) /\ (step = "facts" => ~relowered[p])
  BY <1>1
<1>5. pc'[p] = step /\ step \in Steps /\ config'[p] = c
  BY <1>1, <1>4, Moves DEF Steps, IInv, Types
<1>6. EntryLadder' /\ relowered' \in [Procs -> BOOLEAN]
  BY <1>1, EntryStays DEF Ladder
<1>7. Begins(p)'
  BY <1>1, <1>3, <1>4, <1>5, WhileTrying DEF Begins, Early, Measuring, Trying, Stores
<1>8. Climbs(p)'
  BY <1>1, <1>2, <1>3, <1>5, WhileTrying
     DEF Climbs, Late, Measuring, Trying, Rung, Leads, Reaches, Follows, Widths, ThresholdTried
<1>9. Fails(p)'
  BY <1>5 DEF Fails
<1> QED BY <1>4, <1>5, <1>6, <1>7, <1>8, <1>9, LadderStep DEF Rungs

LEMMA LadderDrop ==
  ASSUME IInv, Ladder, NEW p \in Procs, DropFacts(p) \/ DropPlan(p),
         \A q \in Procs : q # p => pc[q] = "idle"
  PROVE  Ladder'
<1>1. /\ Still
      /\ \/ pc[p] = "dropFacts" /\ Go(p, "dropPlan") /\ Write("facts", None)
         \/ pc[p] = "dropPlan" /\ Go(p, "putRetried") /\ Write("plan", None)
  BY DEF DropFacts, DropPlan, kernel, Still
<1>2. PICK step \in {"dropPlan", "putRetried"} :
        Go(p, step) /\ (step = "putRetried" => Write("plan", None))
  BY <1>1
<1>3. /\ files'["affine"] = files["affine"]
      /\ files'["plan"] = files["plan"] \/ files'["plan"] = None
      /\ step = "putRetried" => files'["plan"] = None
  BY <1>1, <1>2, FileWritten DEF FileNames
<1>4. EntryLadder'
  BY <1>1, <1>3 DEF Ladder, EntryLadder, Leads, Reaches, Follows, Widths, ThresholdTried, Still
<1>5. pc'[p] = step /\ step \in Steps
  BY <1>2, Moves DEF Steps
<1>6. Leads(config[p], module[p]) /\ ThresholdTried(config[p].threshold)
  BY <1>1 DEF Ladder, Rungs, Climbs, Late
<1>7. Begins(p)' /\ Fails(p)'
  BY <1>5 DEF Begins, Fails, Early, Measuring, Trying, Stores
<1>8. Climbs(p)'
  BY <1>1, <1>3, <1>5, <1>6
     DEF Climbs, Late, Measuring, Trying, Leads, Reaches, Follows, Widths, ThresholdTried, Still
<1>9. relowered' \in [Procs -> BOOLEAN]
  BY <1>1 DEF Ladder, Still
<1> QED BY <1>2, <1>4, <1>5, <1>7, <1>8, <1>9, LadderStep DEF Rungs

\* IR that the ladder reached is followed by a rung when the ladder begins again.
LEMMA BeginsAgain ==
  ASSUME IInv, NEW k \in Widths, NEW c, NEW m, Reaches(k, c), Follows(k, c, m)
  PROVE  Follows(k, initial[k], m)
<1>1. initial[k] \in Nat
  BY Shapes DEF Strategy, Keys, Widths
<1> QED BY <1>1 DEF Reaches, Follows

LEMMA LadderPutRetried ==
  ASSUME IInv, Ladder, NEW p \in Procs, PutRetried(p), \A q \in Procs : q # p => pc[q] = "idle"
  PROVE  Ladder'
<1>1. /\ pc[p] = "putRetried" /\ Go(p, "facts") /\ Still /\ Write("affine", module[p])
  BY DEF PutRetried, kernel, Still
<1>2. /\ Leads(config[p], module[p]) /\ ThresholdTried(config[p].threshold)
      /\ files["plan"] = None
  BY <1>1 DEF Ladder, Rungs, Climbs, Late
<1>3. files'["affine"] = module[p] /\ files'["plan"] = None
  BY <1>1, <1>2, FileWritten DEF FileNames
<1>4. \A k \in Widths : Follows(k, initial[k], module[p][k])
  BY <1>2, BeginsAgain DEF Leads
<1>5. EntryLadder'
  BY <1>1, <1>3, <1>4 DEF EntryLadder, Follows, Still
<1>6. pc'[p] = "facts" /\ "facts" \in Steps /\ scheduled[p] # None
  BY <1>1, Moves DEF Steps, IInv, Session, Accepted, Shipping
<1>7. Begins(p)' /\ Fails(p)'
  BY <1>1, <1>3, <1>6 DEF Begins, Fails, Early, Measuring, Trying, Stores, Still
<1>8. Climbs(p)'
  BY <1>1, <1>2, <1>6
     DEF Climbs, Late, Measuring, Trying, Leads, Reaches, Follows, Widths, ThresholdTried, Still
<1>9. relowered' \in [Procs -> BOOLEAN]
  BY <1>1 DEF Ladder, Still
<1> QED BY <1>1, <1>5, <1>6, <1>7, <1>8, <1>9, LadderStep DEF Rungs

\* A plan of the IR a compilation holds is stored, or none.
LEMMA LadderPlanKept ==
  ASSUME IInv, Ladder, NEW p \in Procs, PlanShipped(p) \/ (pc[p] = "putPlan" /\ PutResult(p)),
         \A q \in Procs : q # p => pc[q] = "idle"
  PROVE  Ladder'
<1>1. /\ Still /\ scheduled[p] # None /\ pc[p] \in {"plan", "putPlan"}
      /\ \/ Go(p, "putPlan") /\ pc[p] = "plan"
         \/ Go(p, "putHls") /\ pc[p] = "putPlan"
  BY DEF PlanShipped, PutResult, AfterWrite, kernel, Still, IInv, Session, Accepted, Shipping
<1>2. /\ Leads(config[p], module[p]) /\ ThresholdTried(config[p].threshold)
      /\ files["affine"] = module[p] /\ module[p] # None
  <2>1. module[p] # None
    BY <1>1, Shapes DEF IInv, Session, Holds
  <2> QED BY <1>1, <2>1 DEF Ladder, Rungs, Begins, Climbs, Late, Measuring, Stores
<1>3. files' = files \/ \E v : /\ Write("plan", v)
                               /\ Leads(v, module[p]) /\ ThresholdTried(v.threshold)
  <2>1. CASE pc[p] = "putPlan" /\ PutResult(p)
    BY <1>2, <2>1 DEF PutResult
  <2>2. CASE PlanShipped(p)
    <3> DEFINE v == Plan(config[p])
    <3>1. v.io = config[p].io /\ v.rows = config[p].rows /\ v.threshold = initial.threshold
      BY Known DEF Plan, Strategy, Keys
    <3>2. files' = files \/ Write("plan", v)
      BY <2>2 DEF PlanShipped
    <3> HIDE DEF v
    <3>3. Leads(v, module[p]) /\ ThresholdTried(v.threshold)
      BY <1>2, <3>1 DEF Leads, ThresholdTried, Widths
    <3> QED BY <3>2, <3>3
  <2> QED BY <2>1, <2>2
<1>4. files'["affine"] = module[p]
      /\ \/ files'["plan"] = files["plan"]
         \/ Leads(files'["plan"], module[p]) /\ ThresholdTried(files'["plan"].threshold)
  BY <1>2, <1>3, FileWritten DEF FileNames
<1>5. EntryLadder'
  BY <1>1, <1>2, <1>4
     DEF Ladder, EntryLadder, Leads, Reaches, Follows, Widths, ThresholdTried, Still
<1>6. PICK step \in {"putPlan", "putHls"} : Go(p, step)
  BY <1>1
<1>7. pc'[p] = step /\ step \in Steps
  BY <1>6, Moves DEF Steps
<1>8. Begins(p)' /\ Fails(p)'
  BY <1>1, <1>2, <1>4, <1>7 DEF Begins, Fails, Early, Measuring, Trying, Stores, Still
<1>9. Climbs(p)'
  BY <1>1, <1>2, <1>7
     DEF Climbs, Late, Measuring, Trying, Leads, Reaches, Follows, Widths, ThresholdTried, Still
<1>10. relowered' \in [Procs -> BOOLEAN]
  BY <1>1 DEF Ladder, Still
<1> QED BY <1>5, <1>6, <1>7, <1>8, <1>9, <1>10, LadderStep DEF Rungs

\* The other results.
LEMMA LadderPutResult ==
  ASSUME IInv, Ladder, NEW p \in Procs, PutResult(p), pc[p] # "putPlan",
         \A q \in Procs : q # p => pc[q] = "idle"
  PROVE  Ladder'
<1>1. /\ Still /\ pc[p] \in {"putHls", "putDecisions", "putCpp"}
      /\ \E f \in {"hls", "decisions", "cpp"} : \E content : Write(f, content)
      /\ \/ Go(p, "putDecisions")
         \/ Go(p, "putCpp")
         \/ Go(p, "replay")
  BY DEF PutResult, AfterWrite, kernel, Still
<1>2. files'["affine"] = files["affine"] /\ files'["plan"] = files["plan"]
  BY <1>1, FileWritten DEF FileNames
<1>3. EntryLadder' /\ relowered' \in [Procs -> BOOLEAN]
  BY <1>1, <1>2, EntryStays DEF Ladder, Still
<1>4. PICK step \in {"putDecisions", "putCpp", "replay"} : Go(p, step)
  BY <1>1
<1>5. pc'[p] = step /\ step \in Steps
  BY <1>4, Moves DEF Steps
<1>6. Leads(config[p], module[p]) /\ ThresholdTried(config[p].threshold)
  BY <1>1 DEF Ladder, Rungs, Climbs, Late
<1>7. Begins(p)' /\ Fails(p)'
  BY <1>5 DEF Begins, Fails, Early, Measuring, Trying, Stores
<1>8. Climbs(p)'
  BY <1>1, <1>5, <1>6
     DEF Climbs, Late, Measuring, Trying, Leads, Reaches, Follows, Widths, ThresholdTried, Still
<1> QED BY <1>3, <1>4, <1>5, <1>7, <1>8, LadderStep DEF Rungs

LEMMA LadderEnd ==
  ASSUME IInv, Ladder, NEW p \in Procs, Replay(p) \/ Return(p) \/ Interrupt(p),
         \A q \in Procs : q # p => pc[q] = "idle"
  PROVE  Ladder'
<1>1. /\ files' = files /\ initial' = initial /\ derived' = derived /\ relowered' = relowered
      /\ Go(p, "done") \/ Go(p, "idle")
  BY DEF Replay, Return, Interrupt, kernel
<1>2. PICK step \in {"done", "idle"} : Go(p, step)
  BY <1>1
<1>3. pc'[p] = step /\ step \in Steps
  BY <1>2, Moves DEF Steps
<1>4. EntryLadder'
  BY <1>1, EntryStays DEF Ladder
<1>5. Rungs(p)'
  BY <1>3 DEF Rungs, Begins, Climbs, Fails, Early, Late, Measuring, Trying, Stores
<1> QED BY <1>1, <1>2, <1>3, <1>4, <1>5, LadderStep DEF Ladder

LEMMA NextLadder == IInv /\ OneAtATime /\ [Next]_vars => OneAtATime'
<1> SUFFICES ASSUME IInv, OneAtATime, [Next]_vars, "overlap" \notin disturbed' PROVE Ladder'
  BY DEF OneAtATime
<1>1. CASE UNCHANGED vars
  <2>1. Ladder
    BY <1>1 DEF OneAtATime, vars, counts
  <2> QED BY <1>1, <2>1
          DEF vars, kernel, session, Ladder, Alone, EntryLadder, Rungs, Begins, Climbs, Fails, Early,
              Late, Measuring, Trying, Stores, Rung, Leads, Reaches, Follows, Widths, ThresholdTried,
              Tried, Accepts, Verdict, CanBank, CanStream, CanNarrow, CanDropLanes
<1>2. ASSUME NEW p \in Procs, Resolve(p) \/ Step(p) \/ Interrupt(p)
      PROVE  Ladder'
  <2>1. Ladder
    BY <1>2, SameKernel DEF OneAtATime
  <2>2. \A q \in Procs : q # p => pc[q] = "idle"
    BY <1>2, <2>1, OthersIdle DEF Ladder
  <2>3. CASE Resolve(p) \/ LowerKernel(p) \/ PutAffine(p) \/ AdoptReuse(p)
    BY <2>1, <2>2, <2>3, LadderResolve, LadderLower, LadderPutAffine, LadderAdoptReuse
  <2>4. CASE Measure(p) \/ PutFacts(p) \/ PlanPlacement(p) \/ CheckCached(p) \/ Schedule(p)
    BY <2>1, <2>2, <2>4, LadderMeasure, LadderPlanPlacement, LadderCheckCached, LadderSchedule
  <2>5. CASE HalveBanks(p) \/ StreamPlanes(p) \/ NarrowTransfer(p) \/ DropLanes(p) \/ GiveUp(p)
    BY <2>1, <2>2, <2>5, LadderHalveBanks, LadderStreamPlanes, LadderNarrowTransfer, LadderDropLanes,
       LadderGiveUp
  <2>6. CASE Commit(p) \/ DropFacts(p) \/ DropPlan(p) \/ PutRetried(p) \/ PlanShipped(p)
    BY <2>1, <2>2, <2>6, LadderCommit, LadderDrop, LadderPutRetried, LadderPlanKept
  <2>7. CASE PutResult(p) \/ Replay(p) \/ Return(p) \/ Interrupt(p)
    BY <2>1, <2>2, <2>7, LadderPlanKept, LadderPutResult, LadderEnd
  <2> QED BY <1>2, <2>3, <2>4, <2>5, <2>6, <2>7 DEF Step
<1> QED BY <1>1, <1>2 DEF Next

\* Where no two compilations overlap, the ladder's invariant holds.
THEOREM Climbing == Spec => []OneAtATime
<1>1. Init => OneAtATime
  BY LadderInit DEF OneAtATime
<1> QED BY <1>1, NextLadder, Inductive, PTL DEF Spec

\* HLSConfigError is raised only at the bottom of the ladder (GivesUpAtBottom):
\* build() has tried and refused the cheapest design that the pins allow, for any
\* kernel, device and scheduler, and also where an earlier compilation of the
\* entry was interrupted between any two of its writes.
THEOREM GivesUpLast == Spec => []GivesUpAtBottom
<1>1. IInv /\ OneAtATime => GivesUpAtBottom
  <2> SUFFICES ASSUME IInv, Ladder, NEW p \in Procs, pc[p] = "failed"
               PROVE  /\ \A k \in {"io", "rows"} : module[p][k] = Cheapest(k)
                      /\ threshold[p] = Cheapest("threshold")
                      /\ Verdict(Tried(p)) # "fits"
                      /\ Verdict(Tried(p)) = "partition" => "factor" \notin derived \/ config[p].factor = 1
    BY DEF GivesUpAtBottom, OneAtATime
  <2>1. /\ ~Accepts(Tried(p)) /\ ~CanBank(p) /\ ~CanStream(p) /\ ~CanNarrow(p) /\ ~CanDropLanes(p)
        /\ "threshold" \notin derived => threshold[p] = initial.threshold
    BY DEF Ladder, Rungs, Fails
  <2>2. /\ initial \in Strategy /\ initial.threshold \in Nat /\ initial.io \in Nat /\ initial.rows \in Nat
        /\ config[p].rows \in Nat /\ io[p] \in Nat /\ threshold[p] \in Nat /\ Streamed \in Nat
    BY Shapes, Known, RetryAssumption DEF Strategy, Keys
  <2>3. module[p].io = Cheapest("io")
    <3>1. CASE "io" \notin derived
      BY <3>1 DEF IInv, Session, Holds, IRKeeps, Cheapest
    <3>2. CASE "io" \in derived
      <4>1. Reaches("io", io[p]) /\ Follows("io", io[p], module[p].io)
        BY WhileTrying DEF Rung, Widths
      <4>2. io[p] <= 1
        BY <2>1, <2>2, <3>2 DEF CanNarrow
      <4> QED BY <2>2, <3>2, <4>1, <4>2 DEF Reaches, Follows, Cheapest
    <3> QED BY <3>1, <3>2
  <2>4. module[p].rows = Cheapest("rows")
    <3>1. CASE "rows" \notin derived
      BY <3>1 DEF IInv, Session, Holds, IRKeeps, Cheapest
    <3>2. CASE "rows" \in derived
      <4>1. Reaches("rows", config[p].rows) /\ Follows("rows", config[p].rows, module[p].rows)
        BY WhileTrying DEF Rung, Widths
      <4>2. config[p].rows <= 1
        BY <2>1, <2>2, <3>2 DEF CanDropLanes
      <4> QED BY <2>2, <3>2, <4>1, <4>2 DEF Reaches, Follows, Cheapest
    <3> QED BY <3>1, <3>2
  <2>5. threshold[p] = Cheapest("threshold")
    <3>1. ThresholdTried(threshold[p])
      BY WhileTrying
    <3> QED BY <2>1, <2>2, <3>1 DEF ThresholdTried, CanStream, Cheapest
  <2> QED BY <2>1, <2>3, <2>4, <2>5 DEF Accepts, CanBank
<1> QED BY <1>1, Inductive, Climbing, PTL

-----------------------------------------------------------------------------
(***************************************************************************)
(* Straight: what the entry and a compilation hold where nothing disturbs  *)
(* them.                                                                   *)
(***************************************************************************)

Planned == {"threshold", "factor", "io", "rows"}
Shared == "reuse" \in derived /\ share
Sharing == IF Shared THEN 1 ELSE initial.reuse

\* A trace leads from the planned values over refused designs to d.
Explains(t, d) ==
  /\ t \in Traces
  /\ DesignAfter(t, Len(t), d.ir.reuse) = d
  /\ \A n \in 0..Len(t) - 1 : Verdict(DesignAfter(t, n, d.ir.reuse)) # "fits"

EntryStraight ==
  /\ files.reuse # None => Shared
  /\ files.affine # None => files.affine.reuse = Sharing /\ (Shared => files.reuse # None)
  /\ files.plan # None => \A k \in Widths : files.plan[k] = files.affine[k]
  /\ files.cpp # None => /\ files.affine = files.cpp.ir /\ files.plan # None
                         /\ Describes(files.decisions.values, files.cpp)
                         /\ Explains(files.decisions.trace, files.cpp)

\* Until a design is accepted, the entry holds what was planned.
EntryPlanned ==
  /\ files.affine # None => \A k \in Widths : files.affine[k] = initial[k]
  /\ files.plan # None => \A k \in Planned : files.plan[k] = initial[k]

\* A compilation works on IR.
Works(p) == pc[p] \notin {"idle", "lower", "done", "failed"}

Starting(p) ==
  /\ Early(p) => trace[p] = <<>> /\ config[p].factor = initial.factor
  /\ pc[p] \in {"lower", "putAffine", "reuse"} => config[p].reuse = initial.reuse
  /\ Works(p) => /\ Shared => files.reuse # None
                 /\ module[p].reuse = Sharing
                 /\ pc[p] \notin {"putAffine", "reuse"} => config[p].reuse = Sharing
  /\ pc[p] = "check" /\ files.cpp = None =>
       trace[p] = <<>> /\ \A k \in Planned : config[p][k] = initial[k]

Explained(p) ==
  /\ pc[p] \in Trying => /\ files.cpp = None
                         /\ \A k \in Widths : module[p][k] = Rung(p)[k]
                         /\ Explains(trace[p], Tried(p))
  /\ pc[p] = "commit" => scheduled[p] = Tried(p)
  /\ Late(p) => /\ files.cpp = None /\ module[p] = scheduled[p].ir
                /\ Describes(config[p], scheduled[p]) /\ Explains(trace[p], scheduled[p])
  /\ pc[p] \in {"putHls", "putDecisions", "putCpp"} => files.affine = module[p] /\ files.plan # None
  /\ pc[p] = "putCpp" => files.decisions = [values |-> config[p], trace |-> trace[p]]
  /\ pc[p] = "replay" => files.cpp # None
  /\ pc[p] = "done" => /\ files.cpp # None
                       /\ Describes(config[p], files.cpp) /\ Explains(trace[p], files.cpp)

Straight ==
  /\ EntryStraight
  /\ files.cpp = None /\ (\A p \in Procs : ~Late(p)) => EntryPlanned
  /\ \A p \in Procs : Starting(p) /\ Explained(p)

\* The invariant of behaviours in which, besides, none was interrupted.
Undisturbed == disturbed = {} => Straight

-----------------------------------------------------------------------------
(***************************************************************************)
(* Traces.                                                                 *)
(***************************************************************************)

Actions == {"bank", "stream", "narrow", "lanes"}

\* A trace with one more retry.
With(t, b, v) == Append(t, [action |-> b, after |-> v])

\* A retry that is appended is the last of its action, and of no other.
LEMMA LastAppended ==
  ASSUME NEW t \in Traces, NEW b \in Actions, NEW v \in Nat,
         NEW a \in Actions, NEW first \in Nat
  PROVE  /\ With(t, b, v) \in Traces /\ Len(With(t, b, v)) = Len(t) + 1
         /\ \A n \in 0..Len(t) : Last(With(t, b, v), n, a, first) = Last(t, n, a, first)
         /\ Last(With(t, b, v), Len(t) + 1, a, first)
              = IF a = b THEN v ELSE Last(t, Len(t), a, first)
<1> DEFINE r == [action |-> b, after |-> v]
           s == With(t, b, v)
           Found(x, n) == {i \in 1..n : x[i].action = a /\ \A j \in 1..n : j > i => x[j].action # a}
<1>1. r \in [action : Actions, after : Nat] /\ t \in Seq([action : Actions, after : Nat])
  BY DEF Traces, Actions
<1>2. s \in Traces /\ Len(s) = Len(t) + 1 /\ Len(t) \in Nat
  BY <1>1 DEF Traces, Actions, With
<1>3. s[Len(t) + 1] = r /\ \A i \in 1..Len(t) : s[i] = t[i]
  BY <1>1 DEF With
<1>4. r.action = b /\ r.after = v
  OBVIOUS
<1> HIDE DEF s, r
<1>5. ASSUME NEW n \in 0..Len(t)
      PROVE  Found(s, n) = Found(t, n) /\ \A i \in Found(t, n) : s[i] = t[i]
  <2>1. \A i \in 1..n : s[i] = t[i]
    BY <1>2, <1>3
  <2> QED BY <2>1
<1>6. ASSUME NEW n \in 0..Len(t) PROVE Last(s, n, a, first) = Last(t, n, a, first)
  <2>1. Found(s, n) = Found(t, n) /\ \A i \in Found(t, n) : s[i] = t[i]
    BY <1>5
  <2>2. /\ Last(s, n, a, first) = IF Found(s, n) = {} THEN first ELSE s[CHOOSE i \in Found(s, n) : TRUE].after
        /\ Last(t, n, a, first) = IF Found(t, n) = {} THEN first ELSE t[CHOOSE i \in Found(t, n) : TRUE].after
    BY DEF Last
  <2>3. Found(t, n) # {} => (CHOOSE i \in Found(t, n) : TRUE) \in Found(t, n)
    OBVIOUS
  <2> HIDE DEF Found
  <2> QED BY <2>1, <2>2, <2>3
<1>7. Last(s, Len(s), a, first) = IF a = b THEN v ELSE Last(t, Len(t), a, first)
  <2>1. Last(s, Len(s), a, first)
        = IF Found(s, Len(s)) = {} THEN first ELSE s[CHOOSE i \in Found(s, Len(s)) : TRUE].after
    BY DEF Last
  <2>2. CASE a = b
    <3>1. Found(s, Len(s)) = {Len(t) + 1}
      BY <1>2, <1>3, <1>4, <2>2
    <3>2. (CHOOSE i \in {Len(t) + 1} : TRUE) = Len(t) + 1
      OBVIOUS
    <3> HIDE DEF Found
    <3> QED BY <1>3, <1>4, <2>1, <2>2, <3>1, <3>2
  <2>3. CASE a # b
    <3>1. Found(s, Len(s)) = Found(t, Len(t))
      BY <1>2, <1>3, <1>4, <2>3
    <3>2. \A i \in Found(t, Len(t)) : s[i] = t[i]
      BY <1>3
    <3>3. Found(t, Len(t)) # {} => (CHOOSE i \in Found(t, Len(t)) : TRUE) \in Found(t, Len(t))
      OBVIOUS
    <3>4. Last(t, Len(t), a, first)
          = IF Found(t, Len(t)) = {} THEN first ELSE t[CHOOSE i \in Found(t, Len(t)) : TRUE].after
      BY DEF Last
    <3> HIDE DEF Found
    <3> QED BY <2>1, <2>3, <3>1, <3>2, <3>3, <3>4
  <2> QED BY <2>2, <2>3
<1> QED BY <1>2, <1>6, <1>7 DEF s, r

\* The design a retry leads to.
Retried(d, action, v) ==
  [ir |-> [io |-> IF action = "narrow" THEN v ELSE d.ir.io,
           rows |-> IF action = "lanes" THEN v ELSE d.ir.rows, reuse |-> d.ir.reuse],
   threshold |-> IF action = "stream" THEN v ELSE d.threshold,
   factor |-> IF action = "bank" THEN v ELSE d.factor]

\* A refused design that a trace explains, retried, is explained by the trace
\* and the retry.
LEMMA ExplainsRetried ==
  ASSUME IInv, NEW t, NEW d, Explains(t, d), Verdict(d) # "fits", NEW b \in Actions, NEW v \in Nat
  PROVE  Explains(With(t, b, v), Retried(d, b, v))
<1> DEFINE s == With(t, b, v)
           e == Retried(d, b, v)
           u == d.ir.reuse
<1>0. /\ initial.io \in Nat /\ initial.rows \in Nat
      /\ initial.threshold \in Nat /\ initial.factor \in Nat
  BY Shapes DEF Strategy, Keys
<1>1. t \in Traces /\ Len(t) \in Nat
  BY DEF Explains, Traces
<1>2. s \in Traces /\ Len(s) = Len(t) + 1
  BY <1>1, LastAppended
<1>3. e.ir.reuse = u
  BY DEF Retried
<1>4. \A n \in 0..Len(t) : DesignAfter(s, n, u) = DesignAfter(t, n, u)
  <2> SUFFICES ASSUME NEW n \in 0..Len(t) PROVE DesignAfter(s, n, u) = DesignAfter(t, n, u)
    OBVIOUS
  <2>1. \A a \in Actions, first \in Nat : Last(s, n, a, first) = Last(t, n, a, first)
    BY <1>1, LastAppended
  <2> HIDE DEF s
  <2> QED BY <1>0, <2>1 DEF DesignAfter, Actions
<1>5. DesignAfter(t, Len(t), u) = d
  BY DEF Explains
<1>6. \A n \in 0..Len(s) - 1 : Verdict(DesignAfter(s, n, u)) # "fits"
  <2> SUFFICES ASSUME NEW n \in 0..Len(s) - 1 PROVE Verdict(DesignAfter(s, n, u)) # "fits"
    OBVIOUS
  <2>1. n \in 0..Len(t)
    BY <1>1, <1>2
  <2>2. CASE n = Len(t)
    BY <1>4, <1>5, <2>1, <2>2
  <2>3. CASE n # Len(t)
    <3>1. n \in 0..Len(t) - 1
      BY <1>1, <2>1, <2>3
    <3> QED BY <1>4, <2>1, <3>1 DEF Explains
  <2> QED BY <2>2, <2>3
<1>7. DesignAfter(s, Len(s), u) = e
  <2>1. /\ Last(s, Len(s), "narrow", initial.io) = e.ir.io
        /\ Last(s, Len(s), "lanes", initial.rows) = e.ir.rows
        /\ Last(s, Len(s), "stream", initial.threshold) = e.threshold
        /\ Last(s, Len(s), "bank", initial.factor) = e.factor
    <3>1. /\ Last(t, Len(t), "narrow", initial.io) = d.ir.io
          /\ Last(t, Len(t), "lanes", initial.rows) = d.ir.rows
          /\ Last(t, Len(t), "stream", initial.threshold) = d.threshold
          /\ Last(t, Len(t), "bank", initial.factor) = d.factor
      BY <1>5 DEF DesignAfter
    <3>2. \A a \in Actions, first \in Nat :
            Last(s, Len(s), a, first) = IF a = b THEN v ELSE Last(t, Len(t), a, first)
      BY <1>1, <1>2, LastAppended
    <3>3. /\ e.ir.io = IF "narrow" = b THEN v ELSE d.ir.io
          /\ e.ir.rows = IF "lanes" = b THEN v ELSE d.ir.rows
          /\ e.threshold = IF "stream" = b THEN v ELSE d.threshold
          /\ e.factor = IF "bank" = b THEN v ELSE d.factor
      BY DEF Retried
    <3> HIDE DEF s, e
    <3> QED BY <1>0, <3>1, <3>2, <3>3 DEF Actions
  <2>2. DesignAfter(s, Len(s), u) = [ir |-> [io |-> e.ir.io, rows |-> e.ir.rows, reuse |-> u],
                                     threshold |-> e.threshold, factor |-> e.factor]
    BY <2>1 DEF DesignAfter
  <2>3. e = [ir |-> [io |-> e.ir.io, rows |-> e.ir.rows, reuse |-> u],
             threshold |-> e.threshold, factor |-> e.factor]
    BY DEF Retried
  <2> QED BY <2>2, <2>3
<1> HIDE DEF s, e
<1>8. Explains(s, e)
  BY <1>2, <1>3, <1>6, <1>7 DEF Explains
<1> QED BY <1>8 DEF s, e

\* The design that is planned is explained by the empty trace.
LEMMA ExplainsPlanned ==
  ASSUME NEW m \in IRs, m.io = initial.io, m.rows = initial.rows
  PROVE  Explains(<<>>, [ir |-> m, threshold |-> initial.threshold, factor |-> initial.factor])
<1> DEFINE d == [ir |-> m, threshold |-> initial.threshold, factor |-> initial.factor]
<1>1. \A a, first : Last(<<>>, 0, a, first) = first
  BY DEF Last
<1>2. m = [io |-> initial.io, rows |-> initial.rows, reuse |-> m.reuse]
  BY DEF IRs
<1>3. DesignAfter(<<>>, 0, m.reuse) = d
  BY <1>1, <1>2 DEF DesignAfter
<1>4. <<>> \in Traces /\ Len(<<>>) = 0 /\ d.ir.reuse = m.reuse
  BY DEF Traces
<1> QED BY <1>3, <1>4 DEF Explains

-----------------------------------------------------------------------------
(***************************************************************************)
(* Straight: the stages before the ladder.                                 *)
(***************************************************************************)

\* The kernel, its options and the device are those of the entry.
KernelStays == initial' = initial /\ derived' = derived /\ device' = device /\ share' = share

\* The files the invariant speaks of stay, or the sharing is stored.
FilesStay ==
  /\ \A f \in {"affine", "plan", "decisions", "cpp"} : files'[f] = files[f]
  /\ files'["reuse"] = files["reuse"] \/ (Shared /\ files'["reuse"] = 1)

LEMMA EntryStraightStays ==
  ASSUME EntryStraight, KernelStays, FilesStay
  PROVE  EntryStraight' /\ (EntryPlanned => EntryPlanned')
<1>1. /\ files'.affine = files.affine /\ files'.plan = files.plan
      /\ files'.decisions = files.decisions /\ files'.cpp = files.cpp
      /\ files'.reuse = files.reuse \/ (Shared /\ files'.reuse = 1)
      /\ 1 # None
  BY RetryAssumption DEF FilesStay
<1>2. files.cpp # None => Explains(files.decisions.trace, files.cpp)'
  <2>1. files.cpp # None => Explains(files.decisions.trace, files.cpp)
    BY DEF EntryStraight
  <2> QED BY <1>1, <2>1 DEF KernelStays, Explains, DesignAfter, Verdict
<1>3. EntryStraight'
  BY <1>1, <1>2 DEF EntryStraight, KernelStays, Shared, Sharing, Describes
<1>4. EntryPlanned => EntryPlanned'
  BY <1>1 DEF EntryPlanned, KernelStays
<1> QED BY <1>3, <1>4

\* A trace that explains a design goes on to do so.
LEMMA ExplainsStays ==
  ASSUME NEW p \in Procs, KernelStays, trace'[p] = trace[p]
  PROVE  /\ Explains(trace[p], scheduled[p]) /\ scheduled'[p] = scheduled[p]
              => Explains(trace[p], scheduled[p])'
         /\ Explains(trace[p], Tried(p)) /\ Tried(p)' = Tried(p) => Explains(trace[p], Tried(p))'
BY DEF KernelStays, Explains, DesignAfter, Verdict

\* It is enough to look at the entry and at the compilation that takes the step.
LEMMA StraightStep ==
  ASSUME IInv, NEW p \in Procs, \A q \in Procs : q # p => pc[q] = "idle",
         NEW step \in Steps, Go(p, step),
         EntryStraight', files'.cpp = None /\ ~Late(p)' => EntryPlanned',
         Starting(p)', Explained(p)'
  PROVE  Straight'
<1>1. \A q \in Procs : q # p => pc'[q] = "idle"
  BY Moves
<1>2. \A q \in Procs : q # p => Starting(q)' /\ Explained(q)'
  BY <1>1 DEF Starting, Explained, Works, Early, Late, Measuring, Trying
<1> QED BY <1>2 DEF Straight

\* Before a design is accepted the entry holds what was planned.
LEMMA NowPlanned ==
  ASSUME Straight, NEW p \in Procs, \A q \in Procs : q # p => pc[q] = "idle",
         files.cpp = None, ~Late(p)
  PROVE  EntryPlanned
<1>1. \A q \in Procs : ~Late(q)
  BY DEF Late, Measuring
<1> QED BY <1>1 DEF Straight

LEMMA StraightInit == Init => Straight
<1> SUFFICES ASSUME Init PROVE Straight
  OBVIOUS
<1>1. EntryStraight /\ EntryPlanned
  BY DEF Init, EntryStraight, EntryPlanned
<1>2. \A p \in Procs : Starting(p) /\ Explained(p)
  BY DEF Init, Starting, Explained, Works, Early, Late, Measuring, Trying
<1> QED BY <1>1, <1>2 DEF Straight

LEMMA StraightResolve ==
  ASSUME IInv, Traced, Straight, NEW p \in Procs, Resolve(p), KernelStays,
         \A q \in Procs : q # p => pc[q] = "idle"
  PROVE  Straight'
<1> DEFINE c == [k \in Keys |-> IF k = "threshold" /\ k \in derived THEN 0 ELSE initial[k]]
<1>1. /\ pc[p] = "idle" /\ Go(p, "lower") /\ config' = [config EXCEPT ![p] = c] /\ files' = files
      /\ trace' = [trace EXCEPT ![p] = <<>>]
  BY DEF Resolve
<1>2. c.factor = initial.factor /\ c.reuse = initial.reuse
  BY DEF Keys
<1> HIDE DEF c
<1>3. pc'[p] = "lower" /\ config'[p] = c /\ trace'[p] = <<>> /\ "lower" \in Steps
  BY <1>1, Moves DEF Steps, IInv, Types, Traced
<1>4. EntryStraight' /\ (EntryPlanned => EntryPlanned')
  BY <1>1, EntryStraightStays DEF Straight, FilesStay
<1>5. files'.cpp = None => EntryPlanned'
  BY <1>1, <1>4, NowPlanned DEF Late, Measuring
<1>6. Starting(p)'
  BY <1>2, <1>3 DEF Starting, Works, Early, Measuring, KernelStays
<1>7. Explained(p)'
  BY <1>3 DEF Explained, Late, Measuring, Trying
<1> QED BY <1>1, <1>3, <1>4, <1>5, <1>6, <1>7, StraightStep

LEMMA StraightLower ==
  ASSUME IInv, Traced, Straight, NEW p \in Procs, LowerKernel(p), KernelStays,
         \A q \in Procs : q # p => pc[q] = "idle"
  PROVE  Straight'
<1>1. pc[p] = "lower" /\ config' = config /\ trace' = trace
  BY DEF LowerKernel
<1>2. trace[p] = <<>> /\ config[p].factor = initial.factor /\ config[p].reuse = initial.reuse
  BY <1>1 DEF Straight, Starting, Early
<1>3. files.cpp = None => EntryPlanned
  BY <1>1, NowPlanned DEF Late, Measuring
<1>4. CASE files.affine # None
  <2>1. /\ Go(p, "reuse") /\ files' = files /\ module' = [module EXCEPT ![p] = files.affine]
    BY <1>4 DEF LowerKernel
  <2>2. pc'[p] = "reuse" /\ module'[p] = files.affine /\ "reuse" \in Steps
    BY <2>1, Moves DEF Steps, IInv, Types
  <2>3. EntryStraight' /\ (EntryPlanned => EntryPlanned')
    BY <2>1, EntryStraightStays DEF Straight, FilesStay
  <2>4. files.affine.reuse = Sharing /\ (Shared => files.reuse # None)
    BY <1>4 DEF Straight, EntryStraight
  <2>5. Starting(p)'
    BY <1>1, <1>2, <2>1, <2>2, <2>4
       DEF Starting, Works, Early, Measuring, KernelStays, Shared, Sharing
  <2>6. Explained(p)'
    BY <2>2 DEF Explained, Late, Measuring, Trying
  <2> QED BY <1>3, <2>1, <2>2, <2>3, <2>5, <2>6, StraightStep
<1>5. CASE files.affine = None
  <2> DEFINE used == IF Shared THEN [config[p] EXCEPT !.reuse = 1] ELSE config[p]
             m == Lower(used, config[p].io)
  <2>1. /\ Go(p, "putAffine") /\ module' = [module EXCEPT ![p] = m]
        /\ (Shared /\ Write("reuse", 1)) \/ (~Shared /\ files' = files)
    BY <1>5 DEF LowerKernel, Shared
  <2>2. m.reuse = Sharing
    BY <1>2, Known DEF Lower, Sharing, Strategy, Keys
  <2> HIDE DEF m
  <2>3. pc'[p] = "putAffine" /\ module'[p] = m /\ "putAffine" \in Steps
    BY <2>1, Moves DEF Steps, IInv, Types
  <2>4. FilesStay /\ (Shared => files'["reuse"] = 1) /\ 1 # None
    BY <2>1, FileWritten, RetryAssumption DEF FileNames, FilesStay
  <2>5. EntryStraight' /\ (EntryPlanned => EntryPlanned') /\ files'.cpp = files.cpp
    BY <2>4, EntryStraightStays DEF Straight, FilesStay
  <2>6. Starting(p)'
    BY <1>1, <1>2, <2>2, <2>3, <2>4
       DEF Starting, Works, Early, Measuring, KernelStays, Shared, Sharing
  <2>7. Explained(p)'
    BY <2>3 DEF Explained, Late, Measuring, Trying
  <2> QED BY <1>3, <2>1, <2>3, <2>5, <2>6, <2>7, StraightStep
<1> QED BY <1>4, <1>5

LEMMA StraightPutAffine ==
  ASSUME IInv, Ladder, Straight, NEW p \in Procs, PutAffine(p), KernelStays,
         \A q \in Procs : q # p => pc[q] = "idle"
  PROVE  Straight'
<1>1. /\ pc[p] = "putAffine" /\ Go(p, "reuse") /\ Still /\ Write("affine", module[p])
  BY DEF PutAffine, kernel, Still
<1>2. /\ trace[p] = <<>> /\ config[p].factor = initial.factor /\ config[p].reuse = initial.reuse
      /\ Shared => files.reuse # None
      /\ module[p].reuse = Sharing
  BY <1>1 DEF Straight, Starting, Early, Works
<1>3. files["affine"] = None /\ \A k \in Widths : module[p][k] = initial[k]
  BY <1>1 DEF Ladder, Rungs, Begins
<1>4. files["plan"] = None
  BY <1>3 DEF Ladder, EntryLadder
<1>5. files["cpp"] = None
  <2>1. files.cpp # None => files.cpp.ir # None
    BY Shapes DEF IInv, Entry, Designs
  <2> QED BY <1>3, <2>1 DEF Straight, EntryStraight
<1>6. /\ files'["affine"] = module[p] /\ files'["plan"] = None /\ files'["cpp"] = None
      /\ files'["reuse"] = files["reuse"]
  BY <1>1, <1>4, <1>5, FileWritten DEF FileNames
<1>7. files["reuse"] # None => Shared
  BY DEF Straight, EntryStraight
<1>8. EntryStraight' /\ EntryPlanned'
  BY <1>2, <1>3, <1>6, <1>7 DEF EntryStraight, EntryPlanned, KernelStays, Shared, Sharing
<1>9. pc'[p] = "reuse" /\ "reuse" \in Steps
  BY <1>1, Moves DEF Steps
<1>10. Starting(p)'
  BY <1>1, <1>2, <1>6, <1>9
     DEF Starting, Works, Early, Measuring, KernelStays, Shared, Sharing, Still
<1>11. Explained(p)'
  BY <1>9 DEF Explained, Late, Measuring, Trying
<1> QED BY <1>1, <1>8, <1>9, <1>10, <1>11, StraightStep

LEMMA StraightAdoptReuse ==
  ASSUME IInv, Ladder, Straight, NEW p \in Procs, AdoptReuse(p), KernelStays,
         \A q \in Procs : q # p => pc[q] = "idle"
  PROVE  Straight'
<1> DEFINE c == IF files.reuse # None /\ "reuse" \in derived
                THEN [config[p] EXCEPT !.reuse = files.reuse] ELSE config[p]
<1>1. /\ pc[p] = "reuse" /\ Go(p, "facts") /\ files' = files /\ trace' = trace
      /\ module' = module /\ scheduled' = scheduled /\ config' = [config EXCEPT ![p] = c]
  BY Same DEF AdoptReuse
<1>2. /\ trace[p] = <<>> /\ config[p].factor = initial.factor /\ config[p].reuse = initial.reuse
      /\ Shared => files.reuse # None
      /\ module[p].reuse = Sharing
  BY <1>1 DEF Straight, Starting, Early, Works
<1>3. files.reuse \in {1, None} /\ (files.reuse # None => Shared)
  BY DEF IInv, Entry, Straight, EntryStraight
<1>4. c.factor = initial.factor /\ c.reuse = Sharing
  BY <1>2, <1>3, Known DEF Sharing, Shared, Strategy, Keys
<1> HIDE DEF c
<1>5. pc'[p] = "facts" /\ "facts" \in Steps /\ config'[p] = c
  BY <1>1, Moves DEF Steps, IInv, Types
<1>6. EntryStraight' /\ (EntryPlanned => EntryPlanned')
  BY <1>1, EntryStraightStays DEF Straight, FilesStay
<1>7. files'.cpp = None => EntryPlanned'
  BY <1>1, <1>6, NowPlanned DEF Late, Measuring
<1>8. scheduled[p] = None
  BY <1>1 DEF Ladder, Rungs, Begins, Early
<1>9. Starting(p)'
  BY <1>1, <1>2, <1>4, <1>5
     DEF Starting, Works, Early, Measuring, KernelStays, Shared, Sharing
<1>10. Explained(p)'
  BY <1>1, <1>5, <1>8 DEF Explained, Late, Measuring, Trying
<1> QED BY <1>1, <1>5, <1>6, <1>7, <1>9, <1>10, StraightStep

LEMMA StraightMeasure ==
  ASSUME IInv, Straight, NEW p \in Procs, Measure(p) \/ PutFacts(p), KernelStays,
         \A q \in Procs : q # p => pc[q] = "idle"
  PROVE  Straight'
<1>1. /\ pc[p] \in {"facts", "putFacts"} /\ Still
      /\ Go(p, "plan") \/ Go(p, "putFacts")
      /\ files' = files \/ \E content : Write("facts", content)
  BY DEF Measure, PutFacts, kernel, Still
<1>2. FilesStay
  BY <1>1, FileWritten DEF FileNames, FilesStay
<1>3. /\ EntryStraight' /\ (EntryPlanned => EntryPlanned') /\ files'.cpp = files.cpp
      /\ files'.reuse = files.reuse \/ (Shared /\ files'.reuse = 1 /\ 1 # None)
  BY <1>2, EntryStraightStays, RetryAssumption DEF Straight, FilesStay
<1>4. PICK step \in {"plan", "putFacts"} : Go(p, step)
  BY <1>1
<1>5. pc'[p] = step /\ step \in Steps
  BY <1>4, Moves DEF Steps
<1>6. (Late(p) => Late(p)') /\ (Late(p)' => Late(p)) /\ (Early(p)' => Early(p))
  BY <1>1, <1>5 DEF Late, Early, Measuring, Still
<1>7. files'.cpp = None /\ ~Late(p)' => EntryPlanned'
  BY <1>3, <1>6, NowPlanned
<1>8. Starting(p)'
  <2>1. Starting(p)
    BY DEF Straight
  <2> QED BY <1>1, <1>3, <1>5, <1>6, <2>1
          DEF Starting, Works, KernelStays, Shared, Sharing, Still
<1>9. Explained(p)'
  <2>1. Late(p) => /\ files.cpp = None /\ module[p] = scheduled[p].ir
                   /\ Describes(config[p], scheduled[p]) /\ Explains(trace[p], scheduled[p])
    BY DEF Straight, Explained
  <2>2. Late(p) => Explains(trace[p], scheduled[p])'
    BY <1>1, <2>1, ExplainsStays DEF Still
  <2> QED BY <1>1, <1>3, <1>5, <1>6, <2>1, <2>2
          DEF Explained, Trying, Describes, Still
<1> QED BY <1>3, <1>4, <1>5, <1>7, <1>8, <1>9, StraightStep

LEMMA StraightPlanPlacement ==
  ASSUME IInv, Ladder, Straight, NEW p \in Procs, PlanPlacement(p), KernelStays,
         \A q \in Procs : q # p => pc[q] = "idle"
  PROVE  Straight'
<1> DEFINE values == IF files.plan # None THEN files.plan ELSE Plan(config[p])
           c == Adopt(config[p], values)
<1>1. /\ pc[p] = "plan" /\ scheduled[p] = None /\ Go(p, "check") /\ Write("plan", values)
      /\ config' = [config EXCEPT ![p] = c]
      /\ module' = module /\ scheduled' = scheduled /\ trace' = trace
  BY DEF PlanPlacement
<1>2. /\ trace[p] = <<>> /\ config[p].factor = initial.factor /\ config[p].reuse = Sharing
      /\ Shared => files.reuse # None
      /\ module[p].reuse = Sharing
  BY <1>1 DEF Straight, Starting, Early, Works, Measuring
<1>3. \A k \in Widths : config[p][k] = initial[k]
  BY <1>1 DEF Ladder, Rungs, Begins, Early, Measuring
<1>4. /\ initial.threshold \in Nat /\ initial.factor \in Nat
      /\ values.threshold = IF files.plan # None THEN files.plan.threshold ELSE initial.threshold
      /\ values.factor = IF files.plan # None THEN files.plan.factor ELSE initial.factor
      /\ values.io = IF files.plan # None THEN files.plan.io ELSE initial.io
      /\ values.rows = IF files.plan # None THEN files.plan.rows ELSE initial.rows
  BY <1>3, Known, Shapes DEF Plan, Strategy, Keys, Widths
<1>5. files.cpp = None => EntryPlanned
  BY <1>1, NowPlanned DEF Late, Measuring
<1>6. files.cpp = None => \A k \in Planned : values[k] = initial[k]
  BY <1>4, <1>5 DEF EntryPlanned, Planned
<1>7. c.reuse = Sharing
  BY <1>2 DEF Adopt, Keys
<1>8. files.cpp = None => \A k \in Planned : c[k] = initial[k]
  <2>1. \A k \in Planned : k \in Keys /\ c[k] = IF k \in derived THEN values[k] ELSE config[p][k]
    BY DEF Adopt, Planned, Keys
  <2> HIDE DEF values, c
  <2> QED BY <1>6, <2>1, Known
<1>9. files.affine # None => \A k \in Widths : values[k] = files.affine[k]
  <2>1. CASE files.plan # None
    BY <2>1 DEF Straight, EntryStraight
  <2>2. CASE files.plan = None
    <3>1. files.cpp = None
      BY <2>2 DEF Straight, EntryStraight
    <3> HIDE DEF values
    <3> QED BY <1>4, <1>5, <2>2, <3>1 DEF EntryPlanned, Widths
  <2> QED BY <2>1, <2>2
<1>10. values # None
  <2>1. Plan(config[p]) \in Strategy
    BY Known, Shapes DEF Plan, Strategy, Keys
  <2> QED BY <2>1, Shapes
<1>11. files.affine # None
  <2>1. files.affine = module[p] /\ module[p] \in IRs
    BY <1>1 DEF Ladder, Rungs, Begins, Stores, IInv, Session, Holds
  <2> QED BY <2>1, Shapes
<1> HIDE DEF values, c
<1>12. /\ files'.plan = values /\ files'.affine = files.affine /\ files'.cpp = files.cpp
       /\ files'.reuse = files.reuse /\ files'.decisions = files.decisions
  BY <1>1, FileWritten DEF FileNames
<1>13. files.cpp # None => Explains(files.decisions.trace, files.cpp)'
  <2>1. files.cpp # None => Explains(files.decisions.trace, files.cpp)
    BY DEF Straight, EntryStraight
  <2> QED BY <1>12, <2>1 DEF KernelStays, Explains, DesignAfter, Verdict
<1>14. EntryStraight'
  <2>1. EntryStraight
    BY DEF Straight
  <2> QED BY <1>9, <1>10, <1>11, <1>12, <1>13, <2>1
          DEF EntryStraight, KernelStays, Shared, Sharing, Describes
<1>15. files'.cpp = None => EntryPlanned'
  BY <1>5, <1>6, <1>12 DEF EntryPlanned, KernelStays
<1>16. pc'[p] = "check" /\ "check" \in Steps /\ config'[p] = c
  BY <1>1, Moves DEF Steps, IInv, Types
<1>17. Starting(p)'
  BY <1>1, <1>2, <1>7, <1>8, <1>12, <1>16
     DEF Starting, Works, Early, Measuring, KernelStays, Shared, Sharing
<1>18. Explained(p)'
  BY <1>16 DEF Explained, Late, Measuring, Trying
<1> QED BY <1>1, <1>14, <1>15, <1>16, <1>17, <1>18, StraightStep

LEMMA StraightCheckCached ==
  ASSUME IInv, Ladder, Straight, NEW p \in Procs, CheckCached(p), KernelStays,
         \A q \in Procs : q # p => pc[q] = "idle"
  PROVE  Straight'
<1>1. /\ pc[p] = "check" /\ files' = files
      /\ config' = config /\ module' = module /\ scheduled' = scheduled /\ trace' = trace
  BY DEF CheckCached
<1>2. EntryStraight' /\ (EntryPlanned => EntryPlanned')
  BY <1>1, EntryStraightStays DEF Straight, FilesStay
<1>3. files.cpp = None => EntryPlanned
  BY <1>1, NowPlanned DEF Late, Measuring
<1>4. /\ Shared => files.reuse # None
      /\ module[p].reuse = Sharing /\ config[p].reuse = Sharing
  BY <1>1 DEF Straight, Starting, Works
<1>5. CASE files.cpp # None
  <2>1. Go(p, "replay") /\ "replay" \in Steps
    BY <1>5 DEF CheckCached, Steps
  <2>2. pc'[p] = "replay"
    BY <2>1, Moves
  <2>3. Starting(p)'
    BY <1>1, <1>4, <2>2 DEF Starting, Works, Early, Measuring, KernelStays, Shared, Sharing
  <2>4. Explained(p)'
    BY <1>1, <1>5, <2>2 DEF Explained, Late, Measuring, Trying
  <2> QED BY <1>1, <1>2, <1>5, <2>1, <2>3, <2>4, StraightStep
<1>6. CASE files.cpp = None
  <2>1. /\ Go(p, "schedule") /\ "schedule" \in Steps
        /\ threshold' = [threshold EXCEPT ![p] = config[p].threshold]
        /\ io' = [io EXCEPT ![p] = config[p].io]
    BY <1>6 DEF CheckCached, Steps
  <2>2. pc'[p] = "schedule" /\ threshold'[p] = config[p].threshold /\ io'[p] = config[p].io
    BY <2>1, Moves DEF IInv, Types
  <2>3. trace[p] = <<>> /\ \A k \in Planned : config[p][k] = initial[k]
    BY <1>1, <1>6 DEF Straight, Starting
  <2>4. module[p] \in IRs /\ files.affine = module[p] /\ files.affine # None
    BY <1>1, Shapes DEF Ladder, Rungs, Begins, Stores, IInv, Session, Holds
  <2>5. module[p].io = initial.io /\ module[p].rows = initial.rows
    BY <1>3, <1>6, <2>4 DEF EntryPlanned, Widths
  <2> DEFINE d == [ir |-> module[p], threshold |-> initial.threshold, factor |-> initial.factor]
  <2>6. Tried(p)' = d
    BY <1>1, <2>2, <2>3 DEF Tried, Planned
  <2>7. Explains(<<>>, d)
    BY <2>4, <2>5, ExplainsPlanned
  <2> HIDE DEF d
  <2>8. Explains(trace[p], Tried(p))'
    BY <1>1, <2>3, <2>6, <2>7 DEF KernelStays, Explains, DesignAfter, Verdict
  <2>9. Starting(p)'
    BY <1>1, <1>4, <2>2 DEF Starting, Works, Early, Measuring, KernelStays, Shared, Sharing
  <2>10. \A k \in Widths : module'[p][k] = Rung(p)'[k]
    BY <1>1, <2>2, <2>3, <2>5 DEF Rung, Widths, Planned
  <2>11. Explained(p)'
    BY <1>1, <1>6, <2>2, <2>8, <2>10 DEF Explained, Late, Measuring, Trying
  <2> QED BY <1>1, <1>2, <1>3, <1>6, <2>1, <2>9, <2>11, StraightStep
<1> QED BY <1>5, <1>6

-----------------------------------------------------------------------------
(***************************************************************************)
(* Straight: the ladder.                                                   *)
(***************************************************************************)

\* What is known of a compilation while it tries designs.
LEMMA WhileTryingStraight ==
  ASSUME Straight, NEW p \in Procs, pc[p] \in Trying, \A q \in Procs : q # p => pc[q] = "idle"
  PROVE  /\ files.cpp = None /\ EntryPlanned /\ EntryStraight
         /\ Shared => files.reuse # None
         /\ module[p].reuse = Sharing /\ config[p].reuse = Sharing
         /\ \A k \in Widths : module[p][k] = Rung(p)[k]
         /\ Explains(trace[p], Tried(p))
<1>1. files.cpp = None
  BY DEF Straight, Explained
<1>2. EntryPlanned
  BY <1>1, NowPlanned DEF Late, Measuring, Trying
<1> QED BY <1>1, <1>2 DEF Straight, Starting, Explained, Works, Trying

LEMMA StraightSchedule ==
  ASSUME IInv, Straight, NEW p \in Procs, Schedule(p), KernelStays,
         \A q \in Procs : q # p => pc[q] = "idle"
  PROVE  Straight'
<1>1. /\ pc[p] = "schedule" /\ files' = files /\ config' = config /\ module' = module
      /\ threshold' = threshold /\ io' = io /\ trace' = trace
  BY DEF Schedule
<1>2. PICK step \in {"commit", "refused"} :
        /\ Go(p, step)
        /\ step = "commit" => scheduled' = [scheduled EXCEPT ![p] = Tried(p)]
  BY DEF Schedule
<1>3. pc'[p] = step /\ step \in Steps
  BY <1>2, Moves DEF Steps
<1>4. EntryStraight' /\ (EntryPlanned => EntryPlanned')
  BY <1>1, EntryStraightStays DEF Straight, FilesStay
<1>5. Starting(p)'
  BY <1>1, <1>3, WhileTryingStraight
     DEF Starting, Works, Early, Measuring, Trying, KernelStays, Shared, Sharing
<1>6. Tried(p)' = Tried(p) /\ Rung(p)' = Rung(p)
  BY <1>1 DEF Tried, Rung
<1>7. Explains(trace[p], Tried(p))'
  BY <1>1, <1>6, WhileTryingStraight, ExplainsStays DEF Trying
<1>8. step = "commit" => scheduled'[p] = Tried(p)'
  BY <1>2, <1>6 DEF IInv, Types
<1>9. Explained(p)'
  BY <1>1, <1>3, <1>6, <1>7, <1>8, WhileTryingStraight DEF Explained, Late, Measuring, Trying
<1> QED BY <1>1, <1>2, <1>3, <1>4, <1>5, <1>9, WhileTryingStraight, StraightStep DEF Trying

\* A rung is tried, and recorded.
LEMMA StraightRung ==
  ASSUME IInv, Traced, Straight, NEW p \in Procs, KernelStays,
         \A q \in Procs : q # p => pc[q] = "idle",
         pc[p] = "refused", ~Accepts(Tried(p)), Go(p, "schedule"), files' = files,
         NEW b \in Actions, NEW v \in Nat, Record(p, b, v),
         Tried(p)' = Retried(Tried(p), b, v),
         module'[p].reuse = module[p].reuse, config'[p].reuse = config[p].reuse,
         \A k \in Widths : module'[p][k] = Rung(p)'[k]
  PROVE  Straight'
<1>1. pc'[p] = "schedule" /\ "schedule" \in Steps /\ trace'[p] = With(trace[p], b, v)
  BY Moves DEF Steps, Record, Traced, With
<1>2. EntryStraight' /\ (EntryPlanned => EntryPlanned')
  BY EntryStraightStays DEF Straight, FilesStay
<1>3. Starting(p)'
  BY <1>1, WhileTryingStraight
     DEF Starting, Works, Early, Measuring, Trying, KernelStays, Shared, Sharing
<1>4. Explains(With(trace[p], b, v), Retried(Tried(p), b, v))
  BY WhileTryingStraight, ExplainsRetried DEF Trying, Accepts
<1>5. Explains(trace[p], Tried(p))'
  BY <1>1, <1>4 DEF KernelStays, Explains, DesignAfter, Verdict
<1>6. Explained(p)'
  BY <1>1, <1>5, WhileTryingStraight DEF Explained, Late, Measuring, Trying
<1> QED BY <1>1, <1>2, <1>3, <1>6, WhileTryingStraight, StraightStep DEF Trying

\* The IR a compilation holds, field by field.
LEMMA Fields ==
  ASSUME IInv, NEW p \in Procs, pc[p] = "refused"
  PROVE  module[p] = [io |-> module[p].io, rows |-> module[p].rows, reuse |-> module[p].reuse]
<1>1. module[p] \in IRs
  BY DEF IInv, Session, Holds
<1> QED BY <1>1 DEF IRs

LEMMA StraightHalveBanks ==
  ASSUME IInv, Traced, Ladder, Straight, NEW p \in Procs, HalveBanks(p), KernelStays,
         \A q \in Procs : q # p => pc[q] = "idle"
  PROVE  Straight'
<1> DEFINE v == config[p].factor \div 2
<1>1. /\ pc[p] = "refused" /\ Go(p, "schedule") /\ files' = files /\ Record(p, "bank", v)
      /\ module' = module /\ threshold' = threshold /\ io' = io
  BY DEF HalveBanks
<1>2. v \in Nat /\ "bank" \in Actions
  BY Known DEF Strategy, Keys, Actions
<1>3. /\ config'[p].factor = v
      /\ config'[p].rows = config[p].rows /\ config'[p].reuse = config[p].reuse
  BY Known DEF HalveBanks, IInv, Types, Strategy, Keys
<1> HIDE DEF v
<1>4. Tried(p)' = Retried(Tried(p), "bank", v)
  BY <1>1, <1>3, Fields DEF Tried, Retried
<1>5. Rung(p)' = Rung(p)
  BY <1>1, <1>3 DEF Rung
<1>6. ~Accepts(Tried(p))
  BY <1>1 DEF Ladder, Rungs, Fails
<1> QED BY <1>1, <1>2, <1>3, <1>4, <1>5, <1>6, WhileTryingStraight, StraightRung DEF Trying

LEMMA StraightStreamPlanes ==
  ASSUME IInv, Traced, Ladder, Straight, NEW p \in Procs, StreamPlanes(p), KernelStays,
         \A q \in Procs : q # p => pc[q] = "idle"
  PROVE  Straight'
<1>1. /\ pc[p] = "refused" /\ Go(p, "schedule") /\ files' = files /\ Record(p, "stream", Streamed)
      /\ module' = module /\ config' = config /\ io' = io
      /\ threshold' = [threshold EXCEPT ![p] = Streamed]
  BY DEF StreamPlanes
<1>2. threshold'[p] = Streamed /\ Streamed \in Nat /\ "stream" \in Actions
  BY <1>1, RetryAssumption DEF IInv, Types, Actions
<1>3. Tried(p)' = Retried(Tried(p), "stream", Streamed)
  BY <1>1, <1>2, Fields DEF Tried, Retried
<1>4. Rung(p)' = Rung(p)
  BY <1>1 DEF Rung
<1>5. ~Accepts(Tried(p))
  BY <1>1 DEF Ladder, Rungs, Fails
<1> QED BY <1>1, <1>2, <1>3, <1>4, <1>5, WhileTryingStraight, StraightRung DEF Trying

LEMMA StraightNarrowTransfer ==
  ASSUME IInv, Traced, Ladder, Straight, NEW p \in Procs, NarrowTransfer(p), KernelStays,
         \A q \in Procs : q # p => pc[q] = "idle"
  PROVE  Straight'
<1> DEFINE v == io[p] \div 2
           m == Lower(config[p], v)
<1>1. /\ pc[p] = "refused" /\ Go(p, "schedule") /\ files' = files /\ Record(p, "narrow", v)
      /\ config' = config /\ threshold' = threshold
      /\ io' = [io EXCEPT ![p] = v] /\ module' = [module EXCEPT ![p] = m]
  BY DEF NarrowTransfer
<1>2. v \in Nat /\ "narrow" \in Actions
  BY Known DEF Actions
<1>3. m = [io |-> v, rows |-> config[p].rows, reuse |-> config[p].reuse]
  BY DEF Lower
<1> HIDE DEF v, m
<1>4. io'[p] = v /\ module'[p] = m
  BY <1>1 DEF IInv, Types
<1>5. /\ module[p].rows = config[p].rows /\ module[p].reuse = config[p].reuse
  BY <1>1, WhileTryingStraight DEF Trying, Widths, Rung
<1>6. Tried(p)' = Retried(Tried(p), "narrow", v)
  BY <1>1, <1>3, <1>4, <1>5 DEF Tried, Retried
<1>7. \A k \in Widths : module'[p][k] = Rung(p)'[k]
  BY <1>1, <1>3, <1>4 DEF Widths, Rung
<1>8. ~Accepts(Tried(p)) /\ module'[p].reuse = module[p].reuse /\ config'[p].reuse = config[p].reuse
  BY <1>1, <1>3, <1>4, <1>5 DEF Ladder, Rungs, Fails
<1> QED BY <1>1, <1>2, <1>6, <1>7, <1>8, StraightRung

LEMMA StraightDropLanes ==
  ASSUME IInv, Traced, Ladder, Straight, NEW p \in Procs, DropLanes(p), KernelStays,
         \A q \in Procs : q # p => pc[q] = "idle"
  PROVE  Straight'
<1> DEFINE c == [config[p] EXCEPT !.rows = @ \div 2]
           v == config[p].rows \div 2
           m == Lower(c, io[p])
<1>1. c.rows = v /\ c.reuse = config[p].reuse /\ c.factor = config[p].factor
  BY Known DEF Strategy, Keys
<1>2. /\ pc[p] = "refused" /\ Go(p, "schedule") /\ files' = files /\ Record(p, "lanes", v)
      /\ io' = io /\ threshold' = threshold
      /\ config' = [config EXCEPT ![p] = c] /\ module' = [module EXCEPT ![p] = m]
  BY <1>1 DEF DropLanes
<1>3. v \in Nat /\ "lanes" \in Actions
  BY Known DEF Strategy, Keys, Actions
<1>4. m = [io |-> io[p], rows |-> v, reuse |-> config[p].reuse]
  BY <1>1 DEF Lower
<1> HIDE DEF c, v, m
<1>5. config'[p] = c /\ module'[p] = m
  BY <1>2 DEF IInv, Types
<1>6. /\ module[p].io = io[p] /\ module[p].reuse = config[p].reuse
  BY <1>2, WhileTryingStraight DEF Trying, Widths, Rung
<1>7. Tried(p)' = Retried(Tried(p), "lanes", v)
  BY <1>1, <1>2, <1>4, <1>5, <1>6 DEF Tried, Retried
<1>8. \A k \in Widths : module'[p][k] = Rung(p)'[k]
  BY <1>1, <1>2, <1>4, <1>5 DEF Widths, Rung
<1>9. ~Accepts(Tried(p)) /\ module'[p].reuse = module[p].reuse /\ config'[p].reuse = config[p].reuse
  BY <1>1, <1>2, <1>4, <1>5, <1>6 DEF Ladder, Rungs, Fails
<1> QED BY <1>2, <1>3, <1>7, <1>8, <1>9, StraightRung

LEMMA StraightEnd ==
  ASSUME IInv, Straight, NEW p \in Procs, GiveUp(p) \/ Return(p), KernelStays,
         \A q \in Procs : q # p => pc[q] = "idle"
  PROVE  Straight'
<1>1. /\ files' = files /\ pc[p] \in {"refused", "done", "failed"}
      /\ Go(p, "failed") \/ Go(p, "idle")
  BY DEF GiveUp, Return
<1>2. PICK step \in {"failed", "idle"} : Go(p, step)
  BY <1>1
<1>3. pc'[p] = step /\ step \in Steps
  BY <1>2, Moves DEF Steps
<1>4. EntryStraight' /\ (EntryPlanned => EntryPlanned')
  BY <1>1, EntryStraightStays DEF Straight, FilesStay
<1>5. files.cpp = None => EntryPlanned
  BY <1>1, NowPlanned DEF Late, Measuring
<1>6. Starting(p)' /\ Explained(p)'
  BY <1>3 DEF Starting, Explained, Works, Early, Late, Measuring, Trying
<1> QED BY <1>1, <1>2, <1>3, <1>4, <1>5, <1>6, StraightStep

-----------------------------------------------------------------------------
(***************************************************************************)
(* Straight: what is kept.                                                 *)
(***************************************************************************)

LEMMA StraightCommit ==
  ASSUME IInv, Straight, NEW p \in Procs, Commit(p), KernelStays,
         \A q \in Procs : q # p => pc[q] = "idle"
  PROVE  Straight'
<1> DEFINE c == Committed(p)
<1>1. /\ pc[p] = "commit" /\ files' = files /\ config' = [config EXCEPT ![p] = c]
      /\ module' = module /\ scheduled' = scheduled /\ trace' = trace
      /\ Go(p, IF relowered[p] THEN "dropFacts" ELSE "facts")
  BY DEF Commit
<1>2. /\ scheduled[p] = Tried(p) /\ scheduled[p] # None
      /\ Explains(trace[p], Tried(p))
      /\ module[p].reuse = Sharing /\ config[p].reuse = Sharing
      /\ \A k \in Widths : module[p][k] = Rung(p)[k]
      /\ files.cpp = None /\ EntryStraight /\ (Shared => files.reuse # None)
  BY <1>1, WhileTryingStraight DEF Straight, Explained, Trying, IInv, Session, Accepted, Shipping
<1>3. /\ "threshold" \notin derived => config[p].threshold = threshold[p]
      /\ "io" \notin derived => config[p].io = io[p]
  BY <1>1, Known DEF IInv, Session, Tries, Keys
<1>4. /\ c.threshold = threshold[p] /\ c.io = io[p]
      /\ c.factor = config[p].factor /\ c.rows = config[p].rows /\ c.reuse = config[p].reuse
  BY <1>3 DEF Committed, Keys
<1> HIDE DEF c
<1>5. PICK step \in {"dropFacts", "facts"} : Go(p, step)
  BY <1>1
<1>6. pc'[p] = step /\ step \in Steps /\ config'[p] = c
  BY <1>1, <1>5, Moves DEF Steps, IInv, Types
<1>7. EntryStraight'
  BY <1>1, <1>2, EntryStraightStays DEF FilesStay
<1>8. ~Early(p)' /\ Late(p)'
  BY <1>1, <1>2, <1>6 DEF Early, Late, Measuring
<1>9. Starting(p)'
  BY <1>1, <1>2, <1>4, <1>6, <1>8 DEF Starting, Works, KernelStays, Shared, Sharing
<1>10. Describes(config[p], scheduled[p])' /\ module'[p] = scheduled'[p].ir
  BY <1>1, <1>2, <1>4, <1>6 DEF Describes, Tried, Rung, Widths
<1>11. Explains(trace[p], scheduled[p])'
  BY <1>1, <1>2, ExplainsStays
<1>12. Explained(p)'
  BY <1>1, <1>2, <1>6, <1>10, <1>11 DEF Explained, Trying
<1> QED BY <1>5, <1>6, <1>7, <1>8, <1>9, <1>12, StraightStep

\* What is known of a compilation after its design is accepted.
LEMMA WhileLate ==
  ASSUME IInv, Straight, NEW p \in Procs, Late(p)
  PROVE  /\ files.cpp = None /\ EntryStraight
         /\ Shared => files.reuse # None
         /\ module[p].reuse = Sharing /\ config[p].reuse = Sharing
         /\ module[p] = scheduled[p].ir /\ module[p] \in IRs /\ module[p] # None
         /\ Describes(config[p], scheduled[p]) /\ Explains(trace[p], scheduled[p])
         /\ config[p].io = module[p].io /\ config[p].rows = module[p].rows
<1>1. pc[p] \notin {"idle", "lower", "done", "failed", "putAffine", "reuse"}
  BY DEF Late, Measuring
<1>2. module[p] \in IRs /\ module[p] # None
  BY <1>1, Shapes DEF IInv, Session, Holds
<1> QED BY <1>1, <1>2 DEF Straight, Starting, Explained, Works, Describes

\* A late step that leaves the compilation, and its entry without C++.
LEMMA LateStep ==
  ASSUME IInv, Straight, NEW p \in Procs, Late(p), KernelStays, Still,
         \A q \in Procs : q # p => pc[q] = "idle",
         NEW step \in Steps, Go(p, step), step \in {"dropPlan", "putRetried", "facts", "putPlan",
                                                    "putHls", "putDecisions", "putCpp"},
         step = "facts" => scheduled[p] # None,
         files'.reuse = files.reuse, files'.cpp = None, EntryStraight',
         step \in {"putHls", "putDecisions", "putCpp"} => files'.affine = module[p] /\ files'.plan # None,
         step = "putCpp" => files'.decisions = [values |-> config[p], trace |-> trace[p]]
  PROVE  Straight'
<1>1. pc'[p] = step
  BY Moves
<1>2. config' = config /\ module' = module /\ scheduled' = scheduled /\ trace' = trace
  BY DEF Still
<1>3. ~Early(p)' /\ Late(p)'
  BY <1>1, <1>2 DEF Early, Late, Measuring
<1>4. Starting(p)'
  BY <1>1, <1>2, <1>3, WhileLate DEF Starting, Works, KernelStays, Shared, Sharing
<1>5. Explains(trace[p], scheduled[p])'
  BY <1>2, WhileLate, ExplainsStays
<1>6. Describes(config[p], scheduled[p])'
  BY <1>2, WhileLate DEF Describes
<1>7. Explained(p)'
  BY <1>1, <1>2, <1>5, <1>6, WhileLate DEF Explained, Trying
<1> QED BY <1>3, <1>4, <1>7, StraightStep

LEMMA StraightDrop ==
  ASSUME IInv, Straight, NEW p \in Procs, DropFacts(p) \/ DropPlan(p), KernelStays,
         \A q \in Procs : q # p => pc[q] = "idle"
  PROVE  Straight'
<1>1. /\ Still
      /\ \/ pc[p] = "dropFacts" /\ Go(p, "dropPlan") /\ Write("facts", None)
         \/ pc[p] = "dropPlan" /\ Go(p, "putRetried") /\ Write("plan", None)
  BY DEF DropFacts, DropPlan, kernel, Still
<1>2. Late(p)
  BY <1>1 DEF Late
<1>3. /\ files'.cpp = files.cpp /\ files'.affine = files.affine /\ files'.reuse = files.reuse
      /\ files'.plan = files.plan \/ files'.plan = None
  BY <1>1, FileWritten DEF FileNames
<1>4. EntryStraight'
  BY <1>2, <1>3, WhileLate DEF EntryStraight, KernelStays, Shared, Sharing
<1>5. PICK step \in {"dropPlan", "putRetried"} : Go(p, step)
  BY <1>1
<1> QED BY <1>1, <1>2, <1>3, <1>4, <1>5, WhileLate, LateStep DEF Steps

LEMMA StraightPutRetried ==
  ASSUME IInv, Ladder, Straight, NEW p \in Procs, PutRetried(p), KernelStays,
         \A q \in Procs : q # p => pc[q] = "idle"
  PROVE  Straight'
<1>1. pc[p] = "putRetried" /\ Go(p, "facts") /\ Still /\ Write("affine", module[p])
  BY DEF PutRetried, kernel, Still
<1>2. Late(p) /\ files["plan"] = None /\ scheduled[p] # None
  BY <1>1 DEF Late, Ladder, Rungs, Climbs, IInv, Session, Accepted, Shipping
<1>3. /\ files'.cpp = files.cpp /\ files'.affine = module[p] /\ files'.reuse = files.reuse
      /\ files'.plan = None
  BY <1>1, <1>2, FileWritten DEF FileNames
<1>4. EntryStraight'
  BY <1>2, <1>3, WhileLate DEF EntryStraight, KernelStays, Shared, Sharing
<1> QED BY <1>1, <1>2, <1>3, <1>4, WhileLate, LateStep DEF Steps

LEMMA StraightPlanShipped ==
  ASSUME IInv, Ladder, Straight, NEW p \in Procs, PlanShipped(p), KernelStays,
         \A q \in Procs : q # p => pc[q] = "idle"
  PROVE  Straight'
<1> DEFINE v == Plan(config[p])
<1>1. /\ pc[p] = "plan" /\ scheduled[p] # None /\ Go(p, "putPlan") /\ Still
      /\ files' = files \/ Write("plan", v)
  BY DEF PlanShipped, kernel, Still
<1>2. v.io = config[p].io /\ v.rows = config[p].rows
  BY Known DEF Plan, Strategy, Keys
<1> HIDE DEF v
<1>3. Late(p) /\ files.affine = module[p]
  BY <1>1 DEF Late, Measuring, Ladder, Rungs, Begins, Stores
<1>4. /\ files'.cpp = files.cpp /\ files'.affine = files.affine /\ files'.reuse = files.reuse
      /\ files'.plan = files.plan \/ files'.plan = v
  BY <1>1, FileWritten DEF FileNames
<1>5. EntryStraight'
  BY <1>2, <1>3, <1>4, WhileLate DEF EntryStraight, KernelStays, Shared, Sharing, Widths
<1> QED BY <1>1, <1>3, <1>4, <1>5, WhileLate, LateStep DEF Steps

LEMMA StraightPutResult ==
  ASSUME IInv, Ladder, Straight, NEW p \in Procs, PutResult(p), KernelStays,
         \A q \in Procs : q # p => pc[q] = "idle"
  PROVE  Straight'
<1>1. Still /\ Late(p)
  BY DEF PutResult, AfterWrite, kernel, Still, Late
<1>2. CASE pc[p] = "putPlan"
  <2>1. Go(p, "putHls") /\ Write("plan", config[p])
    BY <1>2 DEF PutResult, AfterWrite
  <2>2. files.affine = module[p] /\ config[p] # None
    BY <1>2, Known, Shapes DEF Ladder, Rungs, Begins, Stores
  <2>3. /\ files'.cpp = files.cpp /\ files'.affine = files.affine /\ files'.reuse = files.reuse
        /\ files'.plan = config[p]
    BY <2>1, FileWritten DEF FileNames
  <2>4. EntryStraight'
    BY <1>1, <2>2, <2>3, WhileLate DEF EntryStraight, KernelStays, Shared, Sharing, Widths
  <2> QED BY <1>1, <2>1, <2>2, <2>3, <2>4, WhileLate, LateStep DEF Steps
<1>3. CASE pc[p] \in {"putHls", "putDecisions"}
  <2>1. \/ pc[p] = "putHls" /\ Go(p, "putDecisions") /\ Write("hls", scheduled[p])
        \/ /\ pc[p] = "putDecisions" /\ Go(p, "putCpp")
           /\ Write("decisions", [values |-> config[p], trace |-> trace[p]])
    BY <1>3 DEF PutResult, AfterWrite
  <2>2. files.affine = module[p] /\ files.plan # None
    BY <1>3 DEF Straight, Explained
  <2>3. /\ files'.cpp = files.cpp /\ files'.affine = files.affine /\ files'.reuse = files.reuse
        /\ files'.plan = files.plan
        /\ pc[p] = "putDecisions" => files'.decisions = [values |-> config[p], trace |-> trace[p]]
    BY <2>1, FileWritten DEF FileNames
  <2>4. EntryStraight'
    BY <1>1, <2>2, <2>3, WhileLate DEF EntryStraight, KernelStays, Shared, Sharing
  <2>5. PICK step \in {"putDecisions", "putCpp"} :
          Go(p, step) /\ (step = "putCpp" => pc[p] = "putDecisions")
    BY <2>1
  <2> QED BY <1>1, <2>2, <2>3, <2>4, <2>5, WhileLate, LateStep DEF Steps
<1>4. CASE pc[p] = "putCpp"
  <2>1. Go(p, "replay") /\ Write("cpp", scheduled[p])
    BY <1>4 DEF PutResult, AfterWrite
  <2>2. /\ files.affine = module[p] /\ files.plan # None
        /\ files.decisions = [values |-> config[p], trace |-> trace[p]]
        /\ scheduled[p] # None
    BY <1>4 DEF Straight, Explained, IInv, Session, Accepted, Shipping
  <2>3. files.decisions.values = config[p] /\ files.decisions.trace = trace[p]
    BY <2>2
  <2>4. /\ files'.cpp = scheduled[p] /\ files'.affine = files.affine /\ files'.reuse = files.reuse
        /\ files'.plan = files.plan /\ files'.decisions = files.decisions
    BY <2>1, FileWritten DEF FileNames
  <2>5. Explains(files.decisions.trace, files.cpp)'
    BY <1>1, <2>3, <2>4, WhileLate DEF KernelStays, Explains, DesignAfter, Verdict
  <2>6. EntryStraight'
    BY <1>1, <2>2, <2>3, <2>4, <2>5, WhileLate
       DEF EntryStraight, KernelStays, Shared, Sharing, Describes
  <2>7. pc'[p] = "replay" /\ "replay" \in Steps
    BY <2>1, Moves DEF Steps
  <2>8. Starting(p)'
    BY <1>1, <2>4, <2>7, WhileLate
       DEF Starting, Works, Early, Measuring, KernelStays, Shared, Sharing, Still
  <2>9. Explained(p)'
    BY <2>2, <2>4, <2>7 DEF Explained, Late, Measuring, Trying
  <2> QED BY <2>1, <2>2, <2>4, <2>6, <2>7, <2>8, <2>9, StraightStep
<1> QED BY <1>2, <1>3, <1>4 DEF PutResult, AfterWrite

LEMMA StraightReplay ==
  ASSUME IInv, Traced, Straight, NEW p \in Procs, Replay(p), KernelStays,
         \A q \in Procs : q # p => pc[q] = "idle"
  PROVE  Straight'
<1>1. /\ pc[p] = "replay" /\ Go(p, "done") /\ files' = files
      /\ files.cpp # None /\ EntryStraight /\ config[p].reuse = Sharing
  BY DEF Replay, Straight, Explained, Starting, Works
<1>2. /\ files.decisions # None /\ DesignKeeps(files.cpp) /\ files.affine # None
      /\ files.cpp \in Designs
  BY <1>1, Shapes DEF IInv, Entry, EntryStraight, Designs
<1> DEFINE c == [k \in Keys |-> IF k \in derived /\ k # "reuse"
                                THEN files.decisions.values[k] ELSE config[p][k]]
<1>3. /\ config' = [config EXCEPT ![p] = c]
      /\ trace' = [trace EXCEPT ![p] = files.decisions.trace]
  BY <1>2 DEF Replay
<1>4. Describes(c, files.cpp)
  <2>1. Describes(files.decisions.values, files.cpp) /\ files.cpp.ir.reuse = Sharing
    BY <1>1, <1>2 DEF EntryStraight
  <2>2. /\ \A k \in {"threshold", "factor"} : k \notin derived => config[p][k] = files.cpp[k]
        /\ \A k \in {"io", "rows"} : k \notin derived => config[p][k] = files.cpp.ir[k]
    BY <1>2, Known DEF DesignKeeps, IRKeeps, Keys
  <2>3. \A k \in Keys : c[k] = IF k \in derived /\ k # "reuse"
                               THEN files.decisions.values[k] ELSE config[p][k]
    OBVIOUS
  <2> HIDE DEF c
  <2> QED BY <1>1, <2>1, <2>2, <2>3 DEF Describes, Keys
<1> HIDE DEF c
<1>5. pc'[p] = "done" /\ "done" \in Steps /\ config'[p] = c /\ trace'[p] = files.decisions.trace
  BY <1>1, <1>3, Moves DEF Steps, IInv, Types, Traced
<1>6. EntryStraight' /\ (EntryPlanned => EntryPlanned')
  BY <1>1, EntryStraightStays DEF FilesStay
<1>7. Explains(trace[p], files.cpp)'
  <2>1. Explains(files.decisions.trace, files.cpp)
    BY <1>1 DEF EntryStraight
  <2> QED BY <1>1, <1>5, <2>1 DEF KernelStays, Explains, DesignAfter, Verdict
<1>8. Describes(config[p], files.cpp)'
  BY <1>1, <1>4, <1>5 DEF Describes
<1>9. Starting(p)'
  BY <1>5 DEF Starting, Works, Early, Measuring
<1>10. Explained(p)'
  BY <1>1, <1>5, <1>7, <1>8 DEF Explained, Late, Measuring, Trying
<1> QED BY <1>1, <1>5, <1>6, <1>9, <1>10, StraightStep

LEMMA NextUndisturbed ==
  IInv /\ Traced /\ OneAtATime /\ Undisturbed /\ [Next]_vars => Undisturbed'
<1> SUFFICES ASSUME IInv, Traced, OneAtATime, Undisturbed, [Next]_vars, disturbed' = {}
             PROVE  Straight'
  BY DEF Undisturbed
<1>1. CASE UNCHANGED vars
  <2>1. Straight
    BY <1>1 DEF Undisturbed, vars, counts
  <2>2. EntryStraight' /\ (EntryPlanned => EntryPlanned')
    BY <1>1, <2>1, EntryStraightStays DEF Straight, FilesStay, KernelStays, vars, kernel
  <2>3. \A q \in Procs : (Late(q) => Late(q)') /\ Starting(q)'
    BY <1>1, <2>1 DEF Straight, Starting, Works, Early, Late, Measuring, Shared, Sharing, vars, kernel,
                      session
  <2>4. ASSUME NEW q \in Procs PROVE Explained(q)'
    <3>1. /\ pc' = pc /\ config' = config /\ module' = module /\ threshold' = threshold /\ io' = io
          /\ scheduled' = scheduled /\ trace' = trace /\ files' = files
      BY <1>1 DEF vars, session
    <3>2. KernelStays /\ Explained(q)
      BY <1>1, <2>1 DEF Straight, KernelStays, vars, kernel
    <3>3. Tried(q)' = Tried(q) /\ Rung(q)' = Rung(q)
      BY <3>1 DEF Tried, Rung
    <3>4. /\ Explains(trace[q], Tried(q)) => Explains(trace[q], Tried(q))'
          /\ Explains(trace[q], scheduled[q]) => Explains(trace[q], scheduled[q])'
      BY <3>1, <3>2, <3>3, ExplainsStays
    <3>5. Explains(trace[q], files.cpp) => Explains(trace[q], files.cpp)'
      BY <3>1, <3>2 DEF KernelStays, Explains, DesignAfter, Verdict
    <3> QED BY <3>1, <3>2, <3>3, <3>4, <3>5 DEF Explained, Late, Measuring, Trying, Describes
  <2>5. files'.cpp = files.cpp
    BY <1>1 DEF vars
  <2> QED BY <2>1, <2>2, <2>3, <2>4, <2>5 DEF Straight
<1>2. ASSUME NEW p \in Procs, Resolve(p) \/ Step(p) \/ Interrupt(p)
      PROVE  Straight'
  <2>1. disturbed = {} /\ "overlap" \notin disturbed'
    BY <1>2, SameKernel
  <2>2. Ladder /\ Straight /\ KernelStays
    BY <1>2, <2>1, SameKernel DEF OneAtATime, Undisturbed, KernelStays
  <2>3. \A q \in Procs : q # p => pc[q] = "idle"
    BY <1>2, <2>1, <2>2, OthersIdle DEF Ladder
  <2>4. CASE Resolve(p) \/ LowerKernel(p) \/ PutAffine(p) \/ AdoptReuse(p)
    BY <2>2, <2>3, <2>4, StraightResolve, StraightLower, StraightPutAffine, StraightAdoptReuse
  <2>5. CASE Measure(p) \/ PutFacts(p) \/ PlanPlacement(p) \/ CheckCached(p) \/ Schedule(p)
    BY <2>2, <2>3, <2>5, StraightMeasure, StraightPlanPlacement, StraightCheckCached, StraightSchedule
  <2>6. CASE HalveBanks(p) \/ StreamPlanes(p) \/ NarrowTransfer(p) \/ DropLanes(p) \/ GiveUp(p)
    BY <2>2, <2>3, <2>6, StraightHalveBanks, StraightStreamPlanes, StraightNarrowTransfer,
       StraightDropLanes, StraightEnd
  <2>7. CASE Commit(p) \/ DropFacts(p) \/ DropPlan(p) \/ PutRetried(p) \/ PlanShipped(p)
    BY <2>2, <2>3, <2>7, StraightCommit, StraightDrop, StraightPutRetried, StraightPlanShipped
  <2>8. CASE PutResult(p) \/ Replay(p) \/ Return(p)
    BY <2>2, <2>3, <2>8, StraightPutResult, StraightReplay, StraightEnd
  <2>9. ~Interrupt(p)
    BY DEF Interrupt
  <2> QED BY <1>2, <2>4, <2>5, <2>6, <2>7, <2>8, <2>9 DEF Step
<1> QED BY <1>1, <1>2 DEF Next

\* Where nothing was interrupted and no two compilations overlapped, the entry and
\* the compilation describe each other.
THEOREM Describing == Spec => []Undisturbed
<1>1. Init => Undisturbed /\ Traced
  BY StraightInit DEF Undisturbed, Init, Traced, Traces
<1>2. Spec => []Traced
  BY <1>1, NextTraced, Inductive, PTL DEF Spec
<1> QED BY <1>1, <1>2, NextUndisturbed, Inductive, Climbing, PTL DEF Spec

\* The configuration that compile() reports is the one the kept C++ was built
\* with, and the plan beside it is a plan of its IR (ReportsShipped), in every
\* undisturbed behaviour: also for a hit, after a retry that lowered the kernel
\* again and where a value is pinned.
THEOREM ReportsWhatShips == Spec => []ReportsShipped
<1>1. Undisturbed => ReportsShipped
  BY DEF Undisturbed, Straight, EntryStraight, Explained, Widths, PlanDescribesIR, ReportsShipped
<1> QED BY <1>1, Describing, PTL

\* The retry trace that compile() reports explains the design (TraceExplains): it
\* leads from the planned values, each retry answering a refusal of the scheduler,
\* to the C++ that is kept, for any scheduler and any number of retries.
THEOREM TraceLeadsThere == Spec => []TraceExplains
<1>1. Undisturbed => TraceExplains
  <2> SUFFICES ASSUME Straight, NEW p \in Procs, pc[p] = "done"
               PROVE  LET t == trace[p] IN
                        /\ \A n \in 0..Len(t) - 1 : Verdict(DesignAfter(t, n, files.cpp.ir.reuse)) # "fits"
                        /\ DesignAfter(t, Len(t), files.cpp.ir.reuse) = files.cpp
    BY DEF Undisturbed, TraceExplains
  <2> QED BY DEF Straight, Explained, Explains
<1> QED BY <1>1, Describing, PTL
=============================================================================
