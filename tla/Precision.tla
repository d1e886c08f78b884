-------------------------------- MODULE Precision --------------------------------
(***************************************************************************)
(* The precision contract of a compilation (VerifyPrecision.cpp): every    *)
(* floating-point value of the function has the width the policy asks for, *)
(* but for sampling positions and the arithmetic that only feeds them,     *)
(* which a worklist finds backwards from the operations that sample.       *)
(***************************************************************************)
EXTENDS Naturals, Sequences, SequencesExt

CONSTANT Programs  \* args: the widths of the arguments, 0 for integers;
                   \* ops: [sample, positions, operands, width], one result each

VARIABLES
  program,
  policy,     \* "native", "f32", "f64", or a word the pass does not know
  pc,
  worklist,
  positions,  \* the values exempt from the policy
  accepted

vars == <<program, policy, pc, worklist, positions, accepted>>

\* Values are numbered: the arguments, then the results in order.
Args(p) == Len(p.args)
Values(p) == 1..(Args(p) + Len(p.ops))
WidthOf(p, v) == IF v <= Args(p) THEN p.args[v] ELSE p.ops[v - Args(p)].width
Operands(op) == op.positions \o op.operands
Users(p, v) == {k \in DOMAIN p.ops : Contains(Operands(p.ops[k]), v)}

PolicyWidth(word) == CASE word = "f32" -> 32 [] word = "f64" -> 64 [] OTHER -> 0
ConflictsWith(width, policyWidth) == width # 0 /\ width # policyWidth

-----------------------------------------------------------------------------
\* seed: a value enters the worklist when it enters the set.
Seed(s, values) ==
  FoldLeft(LAMBDA acc, v : IF v \in acc.positions THEN acc
                           ELSE [positions |-> acc.positions \cup {v}, worklist |-> Append(acc.worklist, v)],
           s, values)

Init ==
  /\ program \in Programs
  /\ policy \in {"native", "f32", "f64", "f16"}
  /\ pc = "find"
  /\ LET sampled == FlattenSeq([k \in DOMAIN program.ops |-> program.ops[k].positions])
         seeded == Seed([positions |-> {}, worklist |-> <<>>], sampled)
     IN  worklist = seeded.worklist /\ positions = seeded.positions
  /\ accepted = FALSE

\* The last value found is tried first; it is tried once.
PopBack ==
  /\ pc = "find" /\ PolicyWidth(policy) # 0 /\ worklist # <<>>
  /\ LET v == Last(worklist)
         rest == Front(worklist)
         proven == \A k \in Users(program, v) : program.ops[k].sample \/ Args(program) + k \in positions
         found == IF v > Args(program) /\ proven
                  THEN Seed([positions |-> positions, worklist |-> rest], Operands(program.ops[v - Args(program)]))
                  ELSE [positions |-> positions, worklist |-> rest]
     IN  worklist' = found.worklist /\ positions' = found.positions
  /\ UNCHANGED <<program, policy, pc, accepted>>

Check ==
  /\ pc = "find"
  /\ policy = "native" \/ PolicyWidth(policy) = 0 \/ worklist = <<>>
  /\ accepted' = (\/ policy = "native"
                  \/ /\ PolicyWidth(policy) # 0
                     /\ \A v \in Values(program) \ positions : ~ConflictsWith(WidthOf(program, v), PolicyWidth(policy)))
  /\ pc' = "done"
  /\ UNCHANGED <<program, policy, worklist, positions>>

Next == PopBack \/ Check

Spec == Init /\ [][Next]_vars

-----------------------------------------------------------------------------
(***************************************************************************)
(* Properties                                                              *)
(***************************************************************************)

\* The comment's words: positions, and everything computed solely to produce
\* them; a value used anywhere else is data.
Exempt(p) ==
  LET n == Args(p) + Len(p.ops)
      solely[v \in Values(p)] ==
        /\ Users(p, v) # {}
        /\ \A k \in Users(p, v) : IF p.ops[k].sample THEN ~Contains(p.ops[k].operands, v)
                                  ELSE solely[Args(p) + k]
  IN  {v \in Values(p) : solely[v]}

\* The pass accepts a function exactly when every value that is data has the
\* width of the policy.
AcceptsConformingData ==
  pc = "done" /\ PolicyWidth(policy) # 0 =>
    (accepted <=> \A v \in Values(program) \ Exempt(program) :
                    ~ConflictsWith(WidthOf(program, v), PolicyWidth(policy)))
=============================================================================
