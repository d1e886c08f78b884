---------------------------- MODULE Displacement ----------------------------
(***************************************************************************)
(* The positions of a resampling stage as a tensor expression: its value   *)
(* (element by element, the way the gather recomputes it), and the bound   *)
(* the compiler derives for positions - coordinate                         *)
(* (lib/Analysis/DisplacementRange.cpp).                                   *)
(*                                                                         *)
(* Numbers count quarters.  Each operation of the program rounds to its    *)
(* grid: quarters in f64, whole numbers in f32.  The compiler's own        *)
(* arithmetic is exact in the C++ up to the last bit; here the ends of an  *)
(* interval round outward to a quarter.                                    *)
(***************************************************************************)
EXTENDS Integers, Sequences

CONSTANT NotFinite  \* NaN or an infinity

Unit4 == 4
NoRamp == -1

Low(S) == CHOOSE x \in S : \A y \in S : x <= y
High(S) == CHOOSE x \in S : \A y \in S : x >= y

\* floor and ceiling of a / b, b # 0.
DivDown(a, b) == IF b > 0 THEN a \div b ELSE (0 - a) \div (0 - b)
DivUp(a, b) == 0 - DivDown(0 - a, b)

RootDown(v) == CHOOSE r \in 0..v : r * r <= v /\ (r + 1) * (r + 1) > v
RootUp(v) == IF RootDown(v) * RootDown(v) = v THEN RootDown(v) ELSE RootDown(v) + 1

Indices(shape) == IF Len(shape) = 1 THEN {<<k>> : k \in 0..(shape[1] - 1)}
                  ELSE (0..(shape[1] - 1)) \X (0..(shape[2] - 1))

-----------------------------------------------------------------------------
(***************************************************************************)
(* Expressions.  A node has its op, shape and operands; op "constant" and  *)
(* "argument" carry their elements.                                        *)
(***************************************************************************)

Round(e, v) == IF e.f32 /\ v # NotFinite THEN (v \div Unit4) * Unit4 ELSE v

Arith(op, a, b) ==
  IF a = NotFinite \/ b = NotFinite THEN NotFinite
  ELSE CASE op \in {"add", "add_scalar"} -> a + b
         [] op = "sub" -> a - b
         [] op \in {"mul", "mul_scalar"} -> (a * b) \div Unit4
         [] op = "div" -> IF b = 0 THEN NotFinite ELSE DivDown(Unit4 * a, b)

Compare(pred, a, b) ==
  CASE pred = "gt" -> a > b
    [] pred = "le" -> a <= b

\* A function with the period of its argument's turn, for cos and the like.
Wave(v) == <<Unit4, 0, 0 - Unit4, 0>>[((v \div Unit4) % 4) + 1]

BroadcastIndex(e, x) == <<x[e.dim + 1]>>

RECURSIVE Scalarize(_, _)
Scalarize(e, x) ==
  CASE e.op \in {"constant", "argument"} -> e.at[x]
    [] e.op = "broadcast" -> Scalarize(e.arg, BroadcastIndex(e, x))
    [] e.op = "transpose" -> Scalarize(e.arg, <<x[2], x[1]>>)
    [] e.op \in {"add", "sub", "mul", "div"} -> Round(e, Arith(e.op, Scalarize(e.l, x), Scalarize(e.r, x)))
    [] e.op \in {"add_scalar", "mul_scalar"} -> Round(e, Arith(e.op, Scalarize(e.arg, x), e.s))
    [] e.op = "sqrt" -> LET v == Scalarize(e.arg, x)
                        IN  IF v = NotFinite \/ v < 0 THEN NotFinite ELSE Round(e, RootDown(Unit4 * v))
    [] e.op = "cos" -> LET v == Scalarize(e.arg, x) IN IF v = NotFinite THEN v ELSE Wave(v)
    [] e.op = "cast" -> Round(e, Scalarize(e.arg, x))
    [] e.op = "cmp" -> LET a == Scalarize(e.l, x)
                           b == Scalarize(e.r, x)
                       IN  IF a # NotFinite /\ b # NotFinite /\ Compare(e.pred, a, b) THEN Unit4 ELSE 0
    [] e.op = "where" -> IF Scalarize(e.mask, x) # 0 THEN Scalarize(e.l, x) ELSE Scalarize(e.r, x)

\* The whole tensor, an operation after the other: what the positions are when
\* they are materialized, and what folding them at compile time computes.
RECURSIVE Plane(_)
Plane(e) ==
  LET all == Indices(e.shape)
      of == Plane(e.arg)
      left == Plane(e.l)
      right == Plane(e.r)
      apply(a, b) == Round(e, Arith(e.op, a, b))
  IN  CASE e.op \in {"constant", "argument"} -> e.at
        [] e.op = "broadcast" -> [x \in all |-> of[<<IF e.dim = 0 THEN x[1] ELSE x[2]>>]]
        [] e.op = "transpose" -> [x \in all |-> of[<<x[2], x[1]>>]]
        [] e.op \in {"add", "sub", "mul", "div"} -> [x \in all |-> apply(left[x], right[x])]
        [] e.op \in {"add_scalar", "mul_scalar"} -> [x \in all |-> apply(of[x], e.s)]
        [] OTHER -> [x \in all |-> Scalarize(e, x)]

-----------------------------------------------------------------------------
(***************************************************************************)
(* Intervals, and coeff * k + offset along one axis.                       *)
(***************************************************************************)

Interval(lo, hi) == [bounded |-> TRUE, lo |-> lo, hi |-> hi]
Unbounded == [bounded |-> FALSE, lo |-> 0, hi |-> 0]
Hull(S) == Interval(Low(S), High(S))

Join(a, b) == IF a.bounded /\ b.bounded THEN Hull({a.lo, a.hi, b.lo, b.hi}) ELSE Unbounded
AddI(a, b) == IF a.bounded /\ b.bounded THEN Interval(a.lo + b.lo, a.hi + b.hi) ELSE Unbounded
SubI(a, b) == IF a.bounded /\ b.bounded THEN Interval(a.lo - b.hi, a.hi - b.lo) ELSE Unbounded
MulI(a, b) ==
  IF ~(a.bounded /\ b.bounded) THEN Unbounded
  ELSE LET h == Hull({a.lo * b.lo, a.lo * b.hi, a.hi * b.lo, a.hi * b.hi})
       IN  Interval(h.lo \div Unit4, DivUp(h.hi, Unit4))
DivI(a, b) ==
  IF ~(a.bounded /\ b.bounded) \/ (b.lo <= 0 /\ b.hi >= 0) THEN Unbounded
  ELSE LET pairs == {<<n, d>> : n \in {a.lo, a.hi}, d \in {b.lo, b.hi}}
       IN  Interval(Low({DivDown(Unit4 * p[1], p[2]) : p \in pairs}), High({DivUp(Unit4 * p[1], p[2]) : p \in pairs}))
Square(a) ==
  IF ~a.bounded THEN Unbounded
  ELSE LET lo == IF a.lo <= 0 /\ a.hi >= 0 THEN 0 ELSE Low({a.lo * a.lo, a.hi * a.hi})
       IN  Interval(lo \div Unit4, DivUp(High({a.lo * a.lo, a.hi * a.hi}), Unit4))

Affine(coeff, offset) == [coeff |-> coeff, offset |-> offset]
Constant(offset) == Affine(0, offset)
UnboundedA == Constant(Unbounded)
IsPlain(a) == a.coeff = 0
IsPoint(a) == a.coeff = 0 /\ a.offset.bounded /\ a.offset.lo = a.offset.hi

ScaleBy(a, s) == Affine((a.coeff * s) \div Unit4, MulI(a.offset, Interval(s, s)))
DivideBy(a, s) == Affine(DivDown(Unit4 * a.coeff, s), DivI(a.offset, Interval(s, s)))

MulAI(a, b) ==
  CASE IsPlain(a) /\ IsPlain(b) -> Constant(MulI(a.offset, b.offset))
    [] IsPoint(a) /\ ~IsPlain(b) -> ScaleBy(b, a.offset.lo)
    [] IsPoint(b) /\ ~IsPlain(a) -> ScaleBy(a, b.offset.lo)
    [] OTHER -> UnboundedA

DivAI(a, b) ==
  CASE IsPlain(a) /\ IsPlain(b) -> Constant(DivI(a.offset, b.offset))
    [] ~IsPlain(a) /\ IsPoint(b) /\ b.offset.lo # 0 -> DivideBy(a, b.offset.lo)
    [] OTHER -> UnboundedA

\* A constant: its hull, or its slope along the ramp axis and the residuals.
HullOf(e) ==
  LET values == {e.at[x] : x \in DOMAIN e.at}
  IN  IF NotFinite \in values THEN Unbounded ELSE Hull(values)

IsProgression(e, ramp) ==
  /\ ramp \in 0..(Len(e.shape) - 1) /\ e.shape[ramp + 1] >= 2
  /\ \A x \in DOMAIN e.at : e.at[x] # NotFinite

Progression(e, ramp) ==
  LET origin == [a \in DOMAIN e.shape |-> 0]
      slope == e.at[[origin EXCEPT ![ramp + 1] = 1]] - e.at[origin]
  IN  Affine(slope, Hull({e.at[x] - slope * x[ramp + 1] : x \in DOMAIN e.at}))

-----------------------------------------------------------------------------
(***************************************************************************)
(* The walk over the expression.                                           *)
(***************************************************************************)

\* q / (sqrt(x x + q) + x), rounded down and up.
ResidualDown(x, q) == DivDown(Unit4 * q, RootUp(x * x + Unit4 * q) + x)
ResidualUp(x, q) == DivUp(Unit4 * q, RootDown(x * x + Unit4 * q) + x)

\* The operands of a sqrt in which x * x + q is looked for: a maximum or
\* minimum over it is a where, up to two deep.
Arms(e) == IF e.op = "where" THEN <<e.l, e.r>> ELSE <<>>
Candidates(e) == <<e>> \o Arms(e) \o (IF e.op = "where" THEN Arms(e.l) \o Arms(e.r) ELSE <<>>)

RECURSIVE Analyze(_, _)

\* base and orthogonal term of x * x + q, in the order they are tried.
SquareSums(e) ==
  IF e.op # "add" THEN <<>>
  ELSE SelectSeq(<<<<e.l, e.r>>, <<e.r, e.l>>>>, LAMBDA p : p[1].op = "mul" /\ p[1].l = p[1].r)

RampSquare(p, ramp) ==
  LET base == Analyze(p[1].l, ramp)
      q == Analyze(p[2], ramp)
      hull == Analyze(p[1].l, NoRamp)
      fits == /\ base.coeff # 0 /\ IsPlain(q) /\ IsPlain(hull)
              /\ q.offset.bounded /\ hull.offset.bounded
              /\ q.offset.lo >= 0 /\ hull.offset.lo > 0
  IN  IF fits
      THEN <<Affine(base.coeff, AddI(base.offset,
               Interval(ResidualDown(hull.offset.hi, q.offset.lo), ResidualUp(hull.offset.lo, q.offset.hi))))>>
      ELSE <<>>

RECURSIVE FirstSum(_, _)
FirstSum(pairs, ramp) ==
  IF pairs = <<>> THEN <<>>
  ELSE LET found == RampSquare(Head(pairs), ramp)
       IN  IF found # <<>> THEN found ELSE FirstSum(Tail(pairs), ramp)

RECURSIVE SumsOf(_)
SumsOf(candidates) ==
  IF candidates = <<>> THEN <<>> ELSE SquareSums(Head(candidates)) \o SumsOf(Tail(candidates))

AnalyzeSqrt(e, ramp) ==
  LET sums == FirstSum(SumsOf(Candidates(e.arg)), ramp)
      src == Analyze(e.arg, ramp)
  IN  IF sums # <<>> THEN sums[1]
      ELSE IF ~IsPlain(src) \/ ~src.offset.bounded \/ src.offset.hi < 0 THEN UnboundedA
      ELSE Constant(Interval(IF src.offset.lo > 0 THEN RootDown(Unit4 * src.offset.lo) ELSE 0,
                             RootUp(Unit4 * src.offset.hi)))

\* Mutated form: an operation that rounds to f32 is trusted like one in f64.
RoundsInF32Never(e) == FALSE

RoundsInF32(e) == e.f32

\* Analyzer::analyzeOp, with what analyze says of a kernel argument.
Analyze(e, ramp) ==
  CASE e.op = "constant" ->
         IF IsProgression(e, ramp) THEN Progression(e, ramp) ELSE Constant(HullOf(e))
    [] e.op = "argument" -> UnboundedA
    [] e.op = "broadcast" -> Analyze(e.arg, IF ramp = e.dim THEN 0 ELSE NoRamp)
    [] e.op \notin {"constant", "argument", "broadcast"} /\ RoundsInF32(e) -> UnboundedA
    [] e.op = "add" -> LET a == Analyze(e.l, ramp)
                           b == Analyze(e.r, ramp)
                       IN  Affine(a.coeff + b.coeff, AddI(a.offset, b.offset))
    [] e.op = "sub" -> LET a == Analyze(e.l, ramp)
                           b == Analyze(e.r, ramp)
                       IN  Affine(a.coeff - b.coeff, SubI(a.offset, b.offset))
    [] e.op = "mul" -> LET a == Analyze(e.l, ramp)
                       IN  IF e.l = e.r /\ IsPlain(a) THEN Constant(Square(a.offset))
                           ELSE MulAI(a, Analyze(e.r, ramp))
    [] e.op = "div" -> DivAI(Analyze(e.l, ramp), Analyze(e.r, ramp))
    [] e.op = "add_scalar" -> LET a == Analyze(e.arg, ramp)
                              IN  Affine(a.coeff, AddI(a.offset, Interval(e.s, e.s)))
    [] e.op = "mul_scalar" -> ScaleBy(Analyze(e.arg, ramp), e.s)
    [] e.op = "sqrt" -> AnalyzeSqrt(e, ramp)
    [] e.op = "cast" -> Analyze(e.arg, ramp)
    [] e.op = "where" -> LET a == Analyze(e.l, ramp)
                             b == Analyze(e.r, ramp)
                         IN  IF a.coeff # b.coeff THEN UnboundedA ELSE Affine(a.coeff, Join(a.offset, b.offset))
    [] OTHER -> UnboundedA

\* ConstantFolder::eval succeeds: every leaf is a constant, no operation rounds
\* to f32, and no square root has a negative operand.
RECURSIVE Folds(_)
Folds(e) ==
  CASE e.op = "constant" -> TRUE
    [] e.op = "argument" -> FALSE
    [] e.op = "broadcast" -> Len(e.shape) = 2 /\ Folds(e.arg)
    [] e.op \notin {"constant", "argument", "broadcast"} /\ e.f32 -> FALSE
    [] e.op \in {"add", "sub", "mul", "div", "cmp"} -> Folds(e.l) /\ Folds(e.r)
    [] e.op \in {"add_scalar", "mul_scalar", "cos", "cast"} -> Folds(e.arg)
    [] e.op = "sqrt" -> Folds(e.arg) /\ \A x \in Indices(e.shape) : Scalarize(e.arg, x) >= 0
    [] e.op = "where" -> Folds(e.mask) /\ Folds(e.l) /\ Folds(e.r)
    [] OTHER -> FALSE

FoldedDisplacement(e, dim) ==
  LET plane == Plane(e)
      values == {<<plane[x], x[dim + 1]>> : x \in DOMAIN plane}
  IN  IF Folds(e) /\ \A v \in values : v[1] # NotFinite
      THEN Hull({v[1] - Unit4 * v[2] : v \in values})
      ELSE Unbounded

\* computeDisplacementRange; Unbounded when there is no bound.
DisplacementRange(e, dim) ==
  LET ai == Analyze(e, dim)
      end == (ai.coeff - Unit4) * (e.shape[dim + 1] - 1)
  IN  IF ai.offset.bounded THEN AddI(ai.offset, Hull({0, end})) ELSE FoldedDisplacement(e, dim)
=============================================================================
