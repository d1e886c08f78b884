---------------------------- MODULE LinePlanCache ----------------------------
(***************************************************************************)
(* LinePlanCache of runtime/SARRuntime.cpp: transform plans by line length,*)
(* the least recently used ones dropped beyond a limit.                    *)
(*                                                                         *)
(* get() has two critical sections; the plan is built between them, with   *)
(* the mutex free.  Each critical section is one action.  A plan is known  *)
(* by the length it transforms and the call that built it; a thread keeps  *)
(* its shared_ptr until its transform ends.                                *)
(***************************************************************************)
EXTENDS Naturals, Sequences, FiniteSets

CONSTANTS
  Threads,
  Sizes,        \* line lengths
  Limits,       \* values SAR_RT_FFT_PLAN_CACHE_MAX may have
  MaxBuilds,    \* bound: plans built in a behaviour
  None

ASSUME CacheAssumption ==
  /\ Limits \subseteq Nat
  /\ MaxBuilds \in Nat
  /\ None \notin [size : Sizes, build : 1..MaxBuilds]

VARIABLES
  limit,    \* read from the environment when the cache is constructed
  plans,    \* the plan of each cached length
  order,    \* cached lengths, most recently used first
  pc,
  want,     \* the length each thread asks for
  built,    \* the plan it built between the critical sections
  plan,     \* the plan its get() returned
  builds,   \* plans built so far
  recency   \* history: every length since the last clear(), latest use first

vars == <<limit, plans, order, pc, want, built, plan, builds, recency>>

Plan == [size : Sizes, build : 1..MaxBuilds]

Init ==
  /\ limit \in Limits
  /\ plans = [s \in Sizes |-> None]
  /\ order = <<>>
  /\ pc = [t \in Threads |-> "idle"]
  /\ want = [t \in Threads |-> None]
  /\ built = [t \in Threads |-> None]
  /\ plan = [t \in Threads |-> None]
  /\ builds = 0
  /\ recency = <<>>

-----------------------------------------------------------------------------
Place(q, s) == {i \in 1..Len(q) : q[i] = s}

\* order.splice(order.begin(), order, found->second.order)
MoveToFront(q, s) ==
  LET i == CHOOSE i \in Place(q, s) : TRUE
  IN  [j \in 1..Len(q) |-> IF j = 1 THEN s ELSE IF j <= i THEN q[j - 1] ELSE q[j]]

\* order.push_front(size)
PushFront(q, s) == <<s>> \o q

\* A use of length s, in the history.
Used(s) ==
  recency' = IF Place(recency, s) # {} THEN MoveToFront(recency, s) ELSE PushFront(recency, s)

Cached == {s \in Sizes : plans[s] # None}

Return(t, p) ==
  /\ pc' = [pc EXCEPT ![t] = "use"]
  /\ plan' = [plan EXCEPT ![t] = p]

\* A transform of length s begins.  With the cache disabled the plan is built
\* for this call alone.
Get(t, s) ==
  /\ pc[t] = "idle"
  /\ want' = [want EXCEPT ![t] = s]
  /\ IF limit = 0
     THEN /\ builds < MaxBuilds
          /\ builds' = builds + 1
          /\ Return(t, [size |-> s, build |-> builds + 1])
     ELSE /\ pc' = [pc EXCEPT ![t] = "find"]
          /\ UNCHANGED <<builds, plan>>
  /\ UNCHANGED <<limit, plans, order, built, recency>>

\* Mutated form: a hit leaves the order alone.
FindKeepsOrder(t) ==
  /\ pc[t] = "find"
  /\ IF want[t] \in Cached
     THEN Return(t, plans[want[t]]) /\ Used(want[t])
     ELSE pc' = [pc EXCEPT ![t] = "build"] /\ UNCHANGED <<plan, recency>>
  /\ UNCHANGED <<limit, plans, order, want, built, builds>>

\* The first critical section.
Find(t) ==
  /\ pc[t] = "find"
  /\ IF want[t] \in Cached
     THEN /\ order' = MoveToFront(order, want[t])
          /\ Return(t, plans[want[t]])
          /\ Used(want[t])
     ELSE /\ pc' = [pc EXCEPT ![t] = "build"]
          /\ UNCHANGED <<order, plan, recency>>
  /\ UNCHANGED <<limit, plans, want, built, builds>>

\* Mutated form: what is built is kept in a member, not in a local variable.
BuildShared(t) ==
  /\ pc[t] = "build"
  /\ builds < MaxBuilds
  /\ builds' = builds + 1
  /\ built' = [u \in Threads |-> IF u = t \/ pc[u] = "insert"
                                THEN [size |-> want[t], build |-> builds + 1] ELSE built[u]]
  /\ pc' = [pc EXCEPT ![t] = "insert"]
  /\ UNCHANGED <<limit, plans, order, want, plan, recency>>

\* std::make_shared<const LinePlan>(size), with the mutex free.
Build(t) ==
  /\ pc[t] = "build"
  /\ builds < MaxBuilds
  /\ builds' = builds + 1
  /\ built' = [built EXCEPT ![t] = [size |-> want[t], build |-> builds + 1]]
  /\ pc' = [pc EXCEPT ![t] = "insert"]
  /\ UNCHANGED <<limit, plans, order, want, plan, recency>>

Kept == limit

\* Mutated form: the length is not looked up again.
InsertBlindly(t) ==
  /\ pc[t] = "insert"
  /\ LET pushed == PushFront(order, want[t])
         keep == IF Len(pushed) > Kept THEN Kept ELSE Len(pushed)
     IN  /\ order' = SubSeq(pushed, 1, keep)
         /\ plans' = [s \in Sizes |->
               IF \E i \in keep + 1..Len(pushed) : pushed[i] = s THEN None
               ELSE IF s = want[t] THEN built[t] ELSE plans[s]]
  /\ Return(t, built[t])
  /\ Used(want[t])
  /\ built' = [built EXCEPT ![t] = None]
  /\ UNCHANGED <<limit, want, builds>>

\* The second critical section: the copy of another thread is preferred, else
\* the plan is entered and the lengths at the back are dropped.
Insert(t) ==
  /\ pc[t] = "insert"
  /\ IF want[t] \in Cached
     THEN /\ order' = MoveToFront(order, want[t])
          /\ Return(t, plans[want[t]])
          /\ UNCHANGED plans
     ELSE LET pushed == PushFront(order, want[t])
              keep == IF Len(pushed) > Kept THEN Kept ELSE Len(pushed)
          IN  /\ order' = SubSeq(pushed, 1, keep)
              /\ plans' = [s \in Sizes |->
                    IF \E i \in keep + 1..Len(pushed) : pushed[i] = s THEN None
                    ELSE IF s = want[t] THEN built[t] ELSE plans[s]]
              /\ Return(t, built[t])
  /\ Used(want[t])
  /\ built' = [built EXCEPT ![t] = None]
  /\ UNCHANGED <<limit, want, builds>>

\* The transform ends and its reference goes.
Drop(t) ==
  /\ pc[t] = "use"
  /\ pc' = [pc EXCEPT ![t] = "idle"]
  /\ want' = [want EXCEPT ![t] = None]
  /\ plan' = [plan EXCEPT ![t] = None]
  /\ UNCHANGED <<limit, plans, order, built, builds, recency>>

\* Mutated form: the list is forgotten.
ClearPlansOnly(t) ==
  /\ pc[t] = "idle"
  /\ plans' = [s \in Sizes |-> None]
  /\ recency' = <<>>
  /\ UNCHANGED <<limit, order, pc, want, built, plan, builds>>

\* clear(), from a thread that is not in a transform.
Clear(t) ==
  /\ pc[t] = "idle"
  /\ plans' = [s \in Sizes |-> None]
  /\ order' = <<>>
  /\ recency' = <<>>
  /\ UNCHANGED <<limit, pc, want, built, plan, builds>>

Next ==
  \E t \in Threads :
    \/ \E s \in Sizes : Get(t, s)
    \/ Find(t) \/ Build(t) \/ Insert(t) \/ Drop(t) \/ Clear(t)

Spec == Init /\ [][Next]_vars

-----------------------------------------------------------------------------
(***************************************************************************)
(* Properties                                                              *)
(***************************************************************************)

\* The variables have their shapes and a thread has a plan exactly while it
\* runs a transform.
TypeOK ==
  /\ limit \in Limits
  /\ plans \in [Sizes -> Plan \cup {None}]
  /\ order \in Seq(Sizes) /\ recency \in Seq(Sizes)
  /\ pc \in [Threads -> {"idle", "find", "build", "insert", "use"}]
  /\ want \in [Threads -> Sizes \cup {None}]
  /\ built \in [Threads -> Plan \cup {None}]
  /\ plan \in [Threads -> Plan \cup {None}]
  /\ builds \in 0..MaxBuilds
  /\ \A t \in Threads : /\ pc[t] # "idle" => want[t] \in Sizes
                        /\ pc[t] = "insert" <=> built[t] # None
                        /\ pc[t] = "use" <=> plan[t] # None

\* The list and the map agree: each cached length has one place in the list,
\* which is what a later splice and a later eviction rely on.
Coherent ==
  /\ \A s \in Sizes : s \in Cached <=> Place(order, s) # {}
  /\ \A i, j \in 1..Len(order) : order[i] = order[j] => i = j

\* A thread transforms its lines with a plan of their length, whatever other
\* threads built, evicted or cleared since it asked.
RightPlan ==
  /\ \A s \in Cached : plans[s].size = s
  /\ \A t \in Threads : pc[t] = "use" => plan[t].size = want[t]

\* The cached lengths are the most recently used ones, in order: as many as the
\* limit allows, none when the cache is disabled.
LeastRecentEvicted ==
  order = SubSeq(recency, 1, IF Len(recency) < limit THEN Len(recency) ELSE limit)

\* get() returns the plan that is in the cache when it leaves: two threads that
\* build the same length at once end up with one copy of it.
OneCopy ==
  [][ \A t \in Threads : limit # 0 /\ pc[t] # "use" /\ pc'[t] = "use" =>
        /\ plans'[want[t]] = plan'[t]
        /\ plans[want[t]] # None => plan'[t] = plans[want[t]] ]_vars
=============================================================================
