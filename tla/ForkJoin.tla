------------------------------ MODULE ForkJoin ------------------------------
(***************************************************************************)
(* What parallelFor promises, with no pool, lock or generation: a call over *)
(* [0, n) hands each index to the caller's function once, in parts that are *)
(* worked on between its start and its return, and not otherwise.  Calls of *)
(* more than one index take turns; a single index is executed at once.     *)
(***************************************************************************)
EXTENDS Integers

CONSTANTS Callers, MaxTotal

Indices == 0..(MaxTotal - 1)

VARIABLES
  status,   \* of each caller: "idle", "waiting" for its turn, "running", or "alone"
  length,   \* of its last call
  count     \* how often each index has been handed to the function of that call

vars == <<status, length, count>>

Init ==
  /\ status = [c \in Callers |-> "idle"]
  /\ length = [c \in Callers |-> 0]
  /\ count = [c \in Callers |-> [i \in Indices |-> 0]]

Begin(c, n) ==
  /\ status[c] = "idle"
  /\ status' = [status EXCEPT ![c] = IF n = 1 THEN "alone" ELSE "waiting"]
  /\ length' = [length EXCEPT ![c] = n]
  /\ count' = [count EXCEPT ![c] = [i \in Indices |-> 0]]

Start(c) ==
  /\ status[c] = "waiting"
  /\ \A d \in Callers : status[d] # "running"
  /\ status' = [status EXCEPT ![c] = "running"]
  /\ UNCHANGED <<length, count>>

\* Indices of the call that nobody has executed.
ToDo(c) == {i \in 0..(length[c] - 1) : count[c][i] = 0}

Work(c, S) ==
  /\ status[c] \in {"running", "alone"}
  /\ S # {}
  /\ S \subseteq ToDo(c)
  /\ count' = [count EXCEPT ![c] = [i \in Indices |-> IF i \in S THEN 1 ELSE @[i]]]
  /\ UNCHANGED <<status, length>>

Return(c) ==
  /\ status[c] \in {"running", "alone"}
  /\ ToDo(c) = {}
  /\ status' = [status EXCEPT ![c] = "idle"]
  /\ UNCHANGED <<length, count>>

Next ==
  \E c \in Callers :
    \/ \E n \in 1..MaxTotal : Begin(c, n)
    \/ Start(c)
    \/ \E S \in SUBSET Indices : Work(c, S)
    \/ Return(c)

Spec == Init /\ [][Next]_vars
=============================================================================
