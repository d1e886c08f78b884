--------------------------------- MODULE Tensor ---------------------------------
(***************************************************************************)
(* The operations of the SAR dialect on tensors: what the verifiers of     *)
(* SARDialect.cpp admit, and what an admitted operation means, in the      *)
(* words of the numpy operation it traces.                                 *)
(*                                                                         *)
(* An expression is a record with the operation, its mode (the string      *)
(* attribute), its integer attributes, its operands, and the shape and     *)
(* element type of its result.  A value used twice is written twice.       *)
(* Reals are numbers of Field, ordered around zero, with a NaN and two     *)
(* infinities; complex numbers are pairs of them; integers are integers.   *)
(***************************************************************************)
EXTENDS Field, FiniteSets, FiniteSetsExt, Functions, TLC

CONSTANTS
  IntLimit,   \* one more than the largest value of an integer type
  NaN, PosInf, NegInf

ASSUME TensorAssumption ==
  /\ IntLimit \in Nat
  /\ NaN < 0 /\ PosInf < 0 /\ NegInf < 0 /\ Cardinality({NaN, PosInf, NegInf}) = 3

-----------------------------------------------------------------------------
(***************************************************************************)
(* Shapes and elements.                                                    *)
(***************************************************************************)

Indices(shape) ==
  IF Len(shape) = 1 THEN {<<i>> : i \in 0..(shape[1] - 1)}
  ELSE (0..(shape[1] - 1)) \X (0..(shape[2] - 1))

IsComplex(elem) == elem \in {"c32", "c64"}
IsFloat(elem) == elem \in {"f32", "f64"}
FloatOf(elem) == CASE elem = "c32" -> "f32" [] elem = "c64" -> "f64" [] OTHER -> elem
ZeroOf(elem) == IF IsComplex(elem) THEN Zero ELSE 0

Value(x) == IF x = PosInf THEN P ELSE IF x = NegInf THEN 0 - P ELSE IF x > P \div 2 THEN x - P ELSE x
Below(a, b) == NaN \notin {a, b} /\ Value(a) < Value(b)
\* The order of sort and rank_filter: numbers, then NaN.
Before(a, b) == a # NaN /\ (b = NaN \/ Value(a) < Value(b))

RealArith(op, a, b) ==
  IF NaN \in {a, b} \/ (op = "div" /\ b = 0) THEN NaN
  ELSE CASE op = "add" -> (a + b) % P
         [] op = "sub" -> (a - b) % P
         [] op = "mul" -> (a * b) % P
         [] op = "div" -> (a * Over(b)) % P

ComplexArith(op, a, b) ==
  CASE op = "add" -> Plus(a, b)
    [] op = "sub" -> Minus(a, b)
    [] op = "mul" -> Times(a, b)
    [] op = "div" -> LET n == (b[1] * b[1] + b[2] * b[2]) % P
                     IN  IF n = 0 THEN <<NaN, NaN>> ELSE Scale(Times(a, Conj(b)), Over(n))

\* Truncating division; the rest as integers.
IntArith(op, a, b) ==
  CASE op = "add" -> a + b
    [] op = "sub" -> a - b
    [] op = "mul" -> a * b
    [] op = "div" -> IF (a < 0) = (b < 0) THEN a \div b ELSE 0 - ((0 - a) \div b)

Arith(op, elem, a, b) ==
  IF IsComplex(elem) THEN ComplexArith(op, a, b)
  ELSE IF IsFloat(elem) THEN RealArith(op, a, b) ELSE IntArith(op, a, b)

\* The functions of math and of complex, of which only the dependence matters.
Root(x) == IF x = NaN THEN NaN ELSE (x * x + 5 * x + 7) % P
Unary(op, x) ==
  IF x = NaN THEN NaN
  ELSE CASE op = "sqrt" -> Root(x) [] op = "cos" -> (3 * x + 1) % P [] op = "sin" -> (7 * x) % P
         [] op = "exp" -> (11 * x + 1) % P [] op = "log" -> (13 * x * x + 2) % P

Holds(predicate, a, b) ==
  CASE predicate = "eq" -> NaN \notin {a, b} /\ a = b
    [] predicate = "ne" -> NaN \in {a, b} \/ a # b
    [] predicate = "lt" -> Below(a, b)
    [] predicate = "le" -> Below(a, b) \/ (a # NaN /\ a = b)
    [] predicate = "gt" -> Below(b, a)
    [] predicate = "ge" -> Below(b, a) \/ (a # NaN /\ a = b)

\* A conversion to an integer saturates, as XLA and numpy's own loops promise.
ToInteger(x) ==
  IF x = NaN THEN 0
  ELSE IF x = PosInf THEN IntLimit - 1
  ELSE IF x = NegInf THEN 0 - IntLimit
  ELSE Max({Min({Value(x), IntLimit - 1}), 0 - IntLimit})

-----------------------------------------------------------------------------
(***************************************************************************)
(* Expressions.                                                            *)
(***************************************************************************)

Node(op, mode, attr, args, shape, elem) ==
  [op |-> op, mode |-> mode, attr |-> attr, args |-> args, shape |-> shape, elem |-> elem]

Dim(e) == e.attr[1][1]
Rank(e) == Len(e.shape)
Extent(e, d) == e.shape[d + 1]
\* Constants are stored flat, a complex element as its two parts.
Elements(e) ==
  LET step == IF IsComplex(e.elem) THEN 2 ELSE 1
      at(x) == IF Rank(e) = 1 THEN x[1] ELSE x[1] * e.shape[2] + x[2]
  IN  [x \in Indices(e.shape) |->
         IF step = 2 THEN <<e.attr[1][2 * at(x) + 1], e.attr[1][2 * at(x) + 2]>> ELSE e.attr[1][at(x) + 1]]

Binary == {"add", "sub", "mul", "div"}
OneInput == {"sqrt", "cos", "sin", "exp", "log"}
Leaves == {"constant", "arg", "block"}

-----------------------------------------------------------------------------
(***************************************************************************)
(* The verifiers.  What the operand and result types of an operation share *)
(* by its traits (SAROps.td) comes first.                                  *)
(***************************************************************************)

PositiveShape(e) == \A d \in 1..Rank(e) : e.shape[d] > 0
SameType(e, f) == e.shape = f.shape /\ e.elem = f.elem
DimInRange(e) == Dim(e) \in 0..(Rank(e) - 1)

VerifyReduceShapes(e) ==
  LET input == e.args[1]
  IN  /\ PositiveShape(input) /\ PositiveShape(e)
      /\ Rank(input) = 2 /\ Dim(e) \in {0, 1}
      /\ Rank(e) = 1 /\ Extent(e, 0) = Extent(input, 1 - Dim(e))

VerifyTranspose(e) ==
  LET input == e.args[1]
  IN  /\ PositiveShape(input) /\ PositiveShape(e)
      /\ Rank(input) = 2 /\ e.elem = input.elem
      /\ Rank(e) = 2 /\ e.shape = <<input.shape[2], input.shape[1]>>

VerifyBroadcast(e) ==
  LET input == e.args[1]
  IN  /\ PositiveShape(input) /\ PositiveShape(e)
      /\ Rank(input) = 1 /\ Rank(e) = 2 /\ e.elem = input.elem
      /\ Dim(e) \in {0, 1} /\ Extent(e, Dim(e)) = Extent(input, 0)

\* attr: offsets, sizes, strides.
VerifySlice(e) ==
  LET input == e.args[1]
  IN  /\ PositiveShape(input) /\ PositiveShape(e) /\ e.elem = input.elem
      /\ Rank(e) = Rank(input) /\ \A k \in 1..3 : Len(e.attr[k]) = Rank(input)
      /\ \A d \in 1..Rank(input) :
           /\ e.attr[3][d] >= 1 /\ e.attr[1][d] >= 0 /\ e.attr[2][d] >= 1
           /\ e.attr[1][d] + (e.attr[2][d] - 1) * e.attr[3][d] < input.shape[d]
           /\ e.shape[d] = e.attr[2][d]

VerifyDynamicOffsets(e, first, rank) ==
  /\ Len(e.args) - first + 1 = rank
  /\ \A k \in first..Len(e.args) : e.args[k].shape = <<1>> /\ e.args[k].elem = "i64"

\* attr: sizes, strides.
VerifyDynamicSlice(e) ==
  LET input == e.args[1]
  IN  /\ PositiveShape(input) /\ PositiveShape(e) /\ e.elem = input.elem
      /\ Rank(e) = Rank(input) /\ \A k \in 1..2 : Len(e.attr[k]) = Rank(input)
      /\ VerifyDynamicOffsets(e, 2, Rank(input))
      /\ \A d \in 1..Rank(input) :
           /\ e.attr[1][d] >= 1 /\ e.attr[2][d] >= 1
           /\ e.attr[1][d] <= 1 + (input.shape[d] - 1) \div e.attr[2][d]
           /\ e.shape[d] = e.attr[1][d]

VerifyDynamicUpdateSlice(e) ==
  LET input == e.args[1]
      update == e.args[2]
  IN  /\ PositiveShape(input) /\ PositiveShape(update)
      /\ SameType(e, input) /\ Rank(update) = Rank(input) /\ update.elem = input.elem
      /\ VerifyDynamicOffsets(e, 3, Rank(input))
      /\ \A d \in 1..Rank(input) : update.shape[d] <= input.shape[d]

VerifyConcat(e) ==
  LET l == e.args[1]
      r == e.args[2]
  IN  /\ PositiveShape(l) /\ PositiveShape(r) /\ PositiveShape(e)
      /\ l.elem = r.elem /\ l.elem = e.elem
      /\ Rank(r) = Rank(l) /\ Rank(e) = Rank(l) /\ DimInRange(e)
      /\ \A d \in 0..(Rank(l) - 1) :
           IF d = Dim(e) THEN Extent(e, d) = Extent(l, d) + Extent(r, d)
           ELSE Extent(r, d) = Extent(l, d) /\ Extent(e, d) = Extent(l, d)

\* attr: low, high, the value.
VerifyPad(e) ==
  LET input == e.args[1]
  IN  /\ PositiveShape(input) /\ PositiveShape(e) /\ e.elem = input.elem
      /\ Rank(e) = Rank(input) /\ \A k \in 1..2 : Len(e.attr[k]) = Rank(input)
      /\ \A d \in 1..Rank(input) :
           /\ e.attr[1][d] >= 0 /\ e.attr[2][d] >= 0
           /\ e.shape[d] = input.shape[d] + e.attr[1][d] + e.attr[2][d]

VerifyFFTLike(e) ==
  LET input == e.args[1]
  IN  /\ PositiveShape(input) /\ Rank(input) \in 1..2 /\ DimInRange(e)
      /\ Extent(input, Dim(e)) >= 2

\* The kernel attributes are those of Calls; here the data and the positions.
VerifyInterpLike(e) ==
  LET data == e.args[1]
      positions == e.args[Len(e.args)]
  IN  /\ PositiveShape(data) /\ PositiveShape(positions) /\ Dim(e) <= 1
      /\ Rank(data) = 2 /\ positions.shape = data.shape /\ positions.elem = "f64"

VerifyGatherLike(e) ==
  LET data == e.args[1]
      positions == e.args[Len(e.args)]
  IN  /\ PositiveShape(data) /\ PositiveShape(positions) /\ PositiveShape(e)
      /\ Rank(data) = 2 /\ Rank(positions) = 2 /\ positions.elem = "f64"
      /\ e.shape = positions.shape /\ e.elem = data.elem

\* attr: trips, whether the body takes the index, which result this is.  The
\* operands are the initial carries and then what the body yields.
Carries(e) == Len(e.args) \div 2
VerifyIterate(e) ==
  /\ e.attr[1][1] >= 1
  /\ \A k \in 1..Carries(e) : SameType(e.args[k], e.args[Carries(e) + k])
  /\ SameType(e, e.args[e.attr[1][3]])

VerifyCumsum(e) == PositiveShape(e.args[1]) /\ Rank(e) \in 1..2 /\ ~(e.elem = "i64") /\ DimInRange(e)
\* attr: dim, window, rank.
VerifyRankFilter(e) ==
  /\ PositiveShape(e.args[1]) /\ Rank(e) \in 1..2 /\ IsFloat(e.elem)
  /\ e.attr[1][2] >= 1 /\ e.attr[1][2] % 2 = 1
  /\ e.attr[1][3] >= 0 /\ e.attr[1][3] < e.attr[1][2] /\ DimInRange(e)
VerifySort(e) == PositiveShape(e.args[1]) /\ Rank(e) \in 1..2 /\ IsFloat(e.elem) /\ DimInRange(e)

VerifyCast(in, out) == ~(IsComplex(in) /\ ~IsComplex(out)) /\ ~(in = "i64" /\ IsComplex(out))

\* SameOperandsAndResultType and the operand classes of SAROps.td.
SameAsOperands ==
  Binary \cup OneInput \cup {"add_scalar", "mul_scalar", "atan2", "conj", "cmp", "reverse", "fftshift",
                             "fft", "ifft", "fft_split", "cumsum", "rank_filter", "sort"}

Verified(e) ==
  /\ e.op \in SameAsOperands => \A k \in DOMAIN e.args : SameType(e, e.args[k])
  /\ CASE e.op \in Leaves \cup Binary \cup {"add_scalar", "mul_scalar"} -> TRUE
       [] e.op \in OneInput \cup {"atan2"} -> IsFloat(e.elem)
       [] e.op = "conj" -> IsComplex(e.elem)
       [] e.op = "cmp" -> IsFloat(e.elem) /\ e.mode \in {"eq", "ne", "lt", "le", "gt", "ge"}
       [] e.op = "where" -> /\ SameType(e, e.args[2]) /\ SameType(e, e.args[3])
                            /\ e.args[1].shape = e.shape /\ FloatOf(e.elem) = e.args[1].elem
       [] e.op \in {"real", "imag"} -> /\ IsComplex(e.args[1].elem) /\ e.args[1].shape = e.shape
                                       /\ FloatOf(e.args[1].elem) = e.elem
       [] e.op = "abs" -> e.args[1].shape = e.shape /\ FloatOf(e.args[1].elem) = e.elem
       [] e.op = "complex" -> /\ IsComplex(e.elem) /\ SameType(e.args[1], e.args[2])
                              /\ e.args[1].shape = e.shape /\ e.args[1].elem = FloatOf(e.elem)
       [] e.op = "cast" -> e.args[1].shape = e.shape /\ VerifyCast(e.args[1].elem, e.elem)
       [] e.op = "reduce" -> /\ VerifyReduceShapes(e) /\ e.elem = e.args[1].elem
                             /\ e.mode \in {"sum", "max", "min"} /\ (e.mode # "sum" => ~IsComplex(e.elem))
       [] e.op = "argmax" -> VerifyReduceShapes(e) /\ e.elem = "i64" /\ IsFloat(e.args[1].elem)
       [] e.op = "transpose" -> VerifyTranspose(e)
       [] e.op = "broadcast" -> VerifyBroadcast(e)
       [] e.op = "slice" -> VerifySlice(e)
       [] e.op = "dynamic_slice" -> VerifyDynamicSlice(e)
       [] e.op = "dynamic_update_slice" -> VerifyDynamicUpdateSlice(e)
       [] e.op = "concat" -> VerifyConcat(e)
       [] e.op = "pad" -> VerifyPad(e)
       [] e.op \in {"reverse", "fftshift"} -> PositiveShape(e.args[1]) /\ DimInRange(e)
       [] e.op \in {"fft", "ifft"} -> IsComplex(e.elem) /\ VerifyFFTLike(e)
       [] e.op = "fft_split" -> IsFloat(e.elem) /\ VerifyFFTLike(e)
       [] e.op \in {"interp1d", "interp1d_split"} -> VerifyInterpLike(e) /\ SameType(e, e.args[1])
       [] e.op \in {"gather2d", "gather2d_split"} -> VerifyGatherLike(e)
       [] e.op = "iterate" -> VerifyIterate(e)
       [] e.op = "cumsum" -> VerifyCumsum(e)
       [] e.op = "rank_filter" -> VerifyRankFilter(e)
       [] e.op = "sort" -> VerifySort(e)

-----------------------------------------------------------------------------
(***************************************************************************)
(* What an operation means.  v holds the operands.                         *)
(***************************************************************************)

Put(x, d, k) == [x EXCEPT ![d + 1] = k]
Joined(x, d, k) == IF d = 0 THEN <<k, x[1]>> ELSE <<x[1], k>>
Line(t, x, d, n) == [k \in 0..(n - 1) |-> t[Put(x, d, k)]]
Clipped(i, n) == IF i < 0 THEN 0 ELSE IF i >= n THEN n - 1 ELSE i
TotalOf(elem, f) ==
  IF IsComplex(elem) THEN FoldFunction(Plus, Zero, f)
  ELSE FoldFunction(LAMBDA a, b : RealArith("add", a, b), 0, f)

\* Element by element, in numpy and in the body of a linalg.generic alike.
ScalarOf(e) == IF IsComplex(e.elem) THEN <<e.attr[1][1] % P, 0>>
               ELSE IF IsFloat(e.elem) THEN e.attr[1][1] % P ELSE e.attr[1][1]
Magnitude(elem, x) ==
  IF IsComplex(elem) THEN Root((x[1] * x[1] + x[2] * x[2]) % P)
  ELSE IF x \in {PosInf, NegInf} THEN PosInf ELSE IF x = NaN THEN NaN ELSE IF Value(x) < 0 THEN (0 - x) % P ELSE x
Converted(in, out, x) ==
  IF IsComplex(in) THEN x
  ELSE IF IsComplex(out) THEN <<x, 0>>
  ELSE IF IsFloat(in) THEN IF IsFloat(out) THEN x ELSE ToInteger(x)
  ELSE IF IsFloat(out) THEN x % P ELSE x

ScalarwiseOps == Binary \cup OneInput \cup
  {"add_scalar", "mul_scalar", "atan2", "abs", "conj", "real", "imag", "complex", "cmp", "where", "cast"}
Scalarwise(e, v, x) ==
  CASE e.op \in Binary -> Arith(e.op, e.elem, v[1][x], v[2][x])
    [] e.op = "add_scalar" -> Arith("add", e.elem, v[1][x], ScalarOf(e))
    [] e.op = "mul_scalar" -> Arith("mul", e.elem, v[1][x], ScalarOf(e))
    [] e.op \in OneInput -> Unary(e.op, v[1][x])
    [] e.op = "atan2" -> RealArith("add", RealArith("mul", 5, v[1][x]), v[2][x])
    [] e.op = "abs" -> Magnitude(e.args[1].elem, v[1][x])
    [] e.op = "conj" -> Conj(v[1][x])
    [] e.op = "real" -> v[1][x][1]
    [] e.op = "imag" -> v[1][x][2]
    [] e.op = "complex" -> <<v[1][x], v[2][x]>>
    [] e.op = "cmp" -> IF Holds(e.mode, v[1][x], v[2][x]) THEN 1 ELSE 0
    [] e.op = "where" -> IF v[1][x] # 0 THEN v[2][x] ELSE v[3][x]
    [] e.op = "cast" -> Converted(e.args[1].elem, e.elem, v[1][x])

\* Order statistic k of a line: as many elements before it as its rank asks.
Kth(line, k) ==
  line[CHOOSE i \in DOMAIN line :
         LET before == Cardinality({j \in DOMAIN line : Before(line[j], line[i])})
             after == Cardinality({j \in DOMAIN line : Before(line[i], line[j])})
         IN  before <= k /\ k < Cardinality(DOMAIN line) - after]

Reduced(mode, elem, line) ==
  IF mode = "sum" THEN TotalOf(elem, line)
  ELSE IF \E k \in DOMAIN line : line[k] = NaN THEN NaN
  ELSE line[CHOOSE k \in DOMAIN line : \A m \in DOMAIN line :
              IF mode = "max" THEN ~Below(line[k], line[m]) ELSE ~Below(line[m], line[k])]

FirstMaximum(line) ==
  LET best(k) == \/ line[k] = NaN
                 \/ \A m \in DOMAIN line : line[m] # NaN /\ ~Below(line[k], line[m])
  IN  CHOOSE k \in DOMAIN line : best(k) /\ \A m \in DOMAIN line : best(m) => k <= m

\* The position in 0..last nearest to an offset.
Start(offset, last) == IF offset < 0 THEN 0 ELSE IF offset > last THEN last ELSE offset
Starts(e, v, first, spans) ==
  [d \in DOMAIN spans |-> Start(v[first + d - 1][<<0>>], e.args[1].shape[d] - spans[d])]
Apart(x, y) == [d \in DOMAIN x |-> x[d] - y[d]]

Fourier(line, n, k, inverse) ==
  LET term == [i \in 0..(n - 1) |-> Times(line[i], Unit(IF inverse THEN i * k ELSE 0 - i * k, n))]
  IN  Scale(Sum(term, n), IF inverse THEN Over(n) ELSE 1)
Part(mode, z) == IF mode = "re" THEN z[1] ELSE z[2]

Moved(e, v, x) ==
  CASE e.op = "transpose" -> v[1][<<x[2], x[1]>>]
    [] e.op = "broadcast" -> v[1][<<x[Dim(e) + 1]>>]
    [] e.op = "slice" -> v[1][[d \in DOMAIN x |-> e.attr[1][d] + x[d] * e.attr[3][d]]]
    [] e.op = "dynamic_slice" ->
         LET at == Starts(e, v, 2, [d \in DOMAIN x |-> (e.attr[1][d] - 1) * e.attr[2][d] + 1])
         IN  v[1][[d \in DOMAIN x |-> at[d] + x[d] * e.attr[2][d]]]
    [] e.op = "dynamic_update_slice" ->
         LET y == Apart(x, Starts(e, v, 3, e.args[2].shape))
         IN  IF y \in DOMAIN v[2] THEN v[2][y] ELSE v[1][x]
    [] e.op = "concat" -> IF x \in DOMAIN v[1] THEN v[1][x]
                          ELSE v[2][Put(x, Dim(e), x[Dim(e) + 1] - Extent(e.args[1], Dim(e)))]
    [] e.op = "pad" -> LET y == Apart(x, e.attr[1])
                       IN  IF y \in DOMAIN v[1] THEN v[1][y]
                           ELSE IF IsComplex(e.elem) THEN <<e.attr[3][1] % P, 0>> ELSE e.attr[3][1] % P
    [] e.op = "reverse" -> v[1][Put(x, Dim(e), Extent(e, Dim(e)) - 1 - x[Dim(e) + 1])]
    [] e.op = "fftshift" -> \* np.roll by n // 2, or back by n // 2
         LET n == Extent(e, Dim(e))
             by == IF e.attr[1][2] = 1 THEN 0 - (n \div 2) ELSE n \div 2
         IN  v[1][Put(x, Dim(e), (x[Dim(e) + 1] - by) % n)]

ElementOf(e, v, x) ==
  CASE e.op \in ScalarwiseOps -> Scalarwise(e, v, x)
    [] e.op \in {"reduce", "argmax"} ->
         LET n == Extent(e.args[1], Dim(e))
             line == [k \in 0..(n - 1) |-> v[1][Joined(x, Dim(e), k)]]
         IN  IF e.op = "argmax" THEN FirstMaximum(line) ELSE Reduced(e.mode, e.elem, line)
    [] e.op \in {"fft", "ifft"} ->
         Fourier(Line(v[1], x, Dim(e), Extent(e, Dim(e))), Extent(e, Dim(e)), x[Dim(e) + 1], e.op = "ifft")
    [] e.op = "fft_split" ->
         LET n == Extent(e, Dim(e))
             at(k) == Put(x, Dim(e), k)
         IN  Part(e.mode, Fourier([k \in 0..(n - 1) |-> <<v[1][at(k)], v[2][at(k)]>>],
                                  n, x[Dim(e) + 1], e.attr[1][2] = 1))
    [] e.op = "interp1d" -> v[1][Put(x, Dim(e), Clipped(Value(v[2][x]), Extent(e, Dim(e))))]
    [] e.op = "interp1d_split" ->
         v[IF e.mode = "re" THEN 1 ELSE 2][Put(x, Dim(e), Clipped(Value(v[3][x]), Extent(e, Dim(e))))]
    [] e.op = "gather2d" -> v[1][<<Clipped(Value(v[2][x]), e.args[1].shape[1]),
                                   Clipped(Value(v[3][x]), e.args[1].shape[2])>>]
    [] e.op = "gather2d_split" ->
         v[IF e.mode = "re" THEN 1 ELSE 2][<<Clipped(Value(v[3][x]), e.args[1].shape[1]),
                                             Clipped(Value(v[4][x]), e.args[1].shape[2])>>]
    [] e.op = "cumsum" -> TotalOf(e.elem, [k \in 0..x[Dim(e) + 1] |-> v[1][Put(x, Dim(e), k)]])
    [] e.op = "rank_filter" ->
         Kth([k \in 0..(e.attr[1][2] - 1) |->
                v[1][Put(x, Dim(e), Clipped(x[Dim(e) + 1] + k - e.attr[1][2] \div 2, Extent(e, Dim(e))))]],
             e.attr[1][3])
    [] e.op = "sort" -> Kth(Line(v[1], x, Dim(e), Extent(e, Dim(e))), x[Dim(e) + 1])
    [] OTHER -> Moved(e, v, x)

Strict(f) == f @@ <<>>
=============================================================================
