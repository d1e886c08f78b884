---------------------------- MODULE MCKernelCache ----------------------------
(***************************************************************************)
(* Small instances of KernelCache: a behaviour is one of three scenarios,  *)
(* each of which leaves some processes idle, some keys unused and some     *)
(* events out.                                                             *)
(*   share  two processes compile one kernel, and one of them may crash;   *)
(*   prune  a process that may crash compiles into a cache that is full;   *)
(*   clear  two processes compile while a third one clears the cache.      *)
(***************************************************************************)
EXTENDS KernelCache, TLC

CONSTANTS p1, p2, r1, k1, k2

VARIABLE scenario

TwoCompilers == {p1, p2}
OneClearer == {r1}
TwoKeys == {k1, k2}
OneText == <<"ll">>

Scenarios ==
  ("share" :> [procs |-> {p1, p2}, keys |-> {k1}, lookups |-> {TRUE, FALSE},
               most |-> [compile |-> 3, clear |-> 0, crash |-> 1, age |-> 0]]) @@
  ("prune" :> [procs |-> {p1}, keys |-> {k1, k2}, lookups |-> {TRUE},
               most |-> [compile |-> 2, clear |-> 0, crash |-> 1, age |-> 1]]) @@
  ("clear" :> [procs |-> {p1, p2, r1}, keys |-> {k1}, lookups |-> {TRUE},
               most |-> [compile |-> 2, clear |-> 2, crash |-> 0, age |-> 0]])

Within(s) ==
  /\ \A p \in Procs \ s.procs : pc[p] = "idle"
  /\ \A k \in Keys \ s.keys : ~Exists(k)
  /\ \A p \in Compilers : enabled[p] \in s.lookups
  /\ \A event \in DOMAIN s.most : calls[event] <= s.most[event]

MCInit == Init /\ scenario \in DOMAIN Scenarios /\ Within(Scenarios[scenario])

Step(s) == scenario = s /\ Next /\ Within(Scenarios[s])' /\ UNCHANGED scenario

MCNext == \E s \in DOMAIN Scenarios : Step(s)

\* Every process that is in a call runs on; nobody is obliged to call.
Compiling(p) == scenario = "share" /\ ProcStep(p) /\ UNCHANGED scenario

MCSpec ==
  MCInit /\ [][MCNext]_<<vars, scenario>> /\ \A p \in Compilers : WF_<<vars, scenario>>(Compiling(p))

-----------------------------------------------------------------------------
(***************************************************************************)
(* A property of one scenario.                                             *)
(***************************************************************************)

\* Every compile() returns or raises: no process waits for a lock for ever.
SharersEnd ==
  \A p \in Compilers :
    scenario = "share" /\ pc[p] = "mkdir" ~> (scenario = "share" => pc[p] \in Finished)
=============================================================================
