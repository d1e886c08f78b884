----------------------------- MODULE Allocator -----------------------------
(***************************************************************************)
(* What a kernel expects of its allocation hooks, as of malloc and free: a *)
(* request is answered with an address nobody holds, until it is released. *)
(***************************************************************************)
CONSTANTS Addresses, Requests, NoRequest

VARIABLE held   \* for each address, the request it answers, or NoRequest

Init == held = [p \in Addresses |-> NoRequest]

Allocate(p, r) == held[p] = NoRequest /\ held' = [held EXCEPT ![p] = r]

Release(p) == held[p] # NoRequest /\ held' = [held EXCEPT ![p] = NoRequest]

Next == \E p \in Addresses : Release(p) \/ \E r \in Requests : Allocate(p, r)

Spec == Init /\ [][Next]_held
=============================================================================
