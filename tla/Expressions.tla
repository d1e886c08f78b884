------------------------------- MODULE Expressions -------------------------------
(***************************************************************************)
(* Programs of the SAR dialect as whole expressions: what a module that    *)
(* the verifiers admit computes from its arguments.  Tensor has the single *)
(* operations and, other than this module, no recursion.                   *)
(***************************************************************************)
EXTENDS Tensor

RECURSIVE AllVerified(_)
AllVerified(e) == Verified(e) /\ \A k \in DOMAIN e.args : AllVerified(e.args[k])

\* The carries after n trips; the body sees the index first, if it takes one.
RECURSIVE Meaning(_, _, _), After(_, _, _, _)
Meaning(e, inputs, block) ==
  CASE e.op = "constant" -> Elements(e)
    [] e.op = "arg" -> inputs[e.attr[1][1]]
    [] e.op = "block" -> block[e.attr[1][1]]
    [] e.op = "iterate" ->
         After(e, inputs, [k \in 1..Carries(e) |-> Meaning(e.args[k], inputs, block)] \o <<>>, 0)[e.attr[1][3]]
    [] OTHER -> LET v == [k \in DOMAIN e.args |-> Meaning(e.args[k], inputs, block)] \o <<>>
                IN  Strict([x \in Indices(e.shape) |-> ElementOf(e, v, x)])
After(e, inputs, carries, trip) ==
  IF trip = e.attr[1][1] THEN carries
  ELSE LET block == (IF e.attr[1][2] = 1 THEN <<(<<0>> :> trip)>> ELSE <<>>) \o carries
       IN  After(e, inputs, [k \in 1..Carries(e) |-> Meaning(e.args[Carries(e) + k], inputs, block)] \o <<>>, trip + 1)
=============================================================================
