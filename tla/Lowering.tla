-------------------------------- MODULE Lowering --------------------------------
(***************************************************************************)
(* A program of the SAR dialect on its way to loops: the canonicalizer     *)
(* rewrites it one match at a time, in any order (SARDialect.cpp); the HLS *)
(* path splits its complex values into planes (Decomplexify.cpp); and each *)
(* operation becomes loops (SARToLinalg.cpp), which then run.  What the    *)
(* loops of SARToLinalg compute is written down element by element, with   *)
(* every index they read.                                                  *)
(***************************************************************************)
EXTENDS Expressions

CONSTANTS
  Programs,   \* [path, inputs, results]: expressions over the inputs
  MaxFolded   \* kMaxFoldedPermutationElements

VARIABLES
  program,
  pc,         \* "canonicalize", "lower", "done", or "rejected" by a verifier
  inputs,     \* of the function, as its signature now splits them
  results,    \* the expressions it returns
  out         \* what the loops leave in the result tensors

vars == <<program, pc, inputs, results, out>>

-----------------------------------------------------------------------------
(***************************************************************************)
(* Canonicalization.                                                       *)
(***************************************************************************)

Size(e) == Cardinality(Indices(e.shape))
IndexOf(e, n) == IF Rank(e) = 1 THEN <<n>> ELSE <<n \div e.shape[2], n % e.shape[2]>>
Splat(e) == \A x, y \in Indices(e.shape) : Elements(e)[x] = Elements(e)[y]

\* A constant rotated or reversed along the dimension of e; a splat is itself.
FoldPermutedConstant(e) ==
  LET c == e.args[1]
      n == Extent(e, Dim(e))
      split == IF e.attr[1][2] = 1 THEN n \div 2 ELSE n - n \div 2
      source(x) == Put(x, Dim(e), IF e.op = "reverse" THEN n - 1 - x[Dim(e) + 1] ELSE (x[Dim(e) + 1] + split) % n)
      data(i) == IF IsComplex(c.elem)
                 THEN Elements(c)[source(IndexOf(c, (i - 1) \div 2))][((i - 1) % 2) + 1]
                 ELSE Elements(c)[source(IndexOf(c, i - 1))]
  IN  IF c.op # "constant" \/ Size(c) > MaxFolded THEN {}
      ELSE IF Splat(c) THEN {c} ELSE {[c EXCEPT !.attr = <<[i \in DOMAIN c.attr[1] |-> data(i)]>>]}

FoldTranspose(e) == IF e.op = "transpose" /\ e.args[1].op = "transpose" THEN {e.args[1].args[1]} ELSE {}

FoldFFTShift(e) ==
  IF e.op # "fftshift" THEN {}
  ELSE LET inner == e.args[1]
       IN  IF inner.op = "fftshift" /\ Dim(inner) = Dim(e) /\ inner.attr[1][2] # e.attr[1][2] THEN {inner.args[1]}
           ELSE FoldPermutedConstant(e)

FoldReverse(e) ==
  IF e.op # "reverse" THEN {}
  ELSE IF e.args[1].op = "reverse" /\ Dim(e.args[1]) = Dim(e) THEN {e.args[1].args[1]}
  ELSE FoldPermutedConstant(e)

FoldMulScalar(e) == IF e.op = "mul_scalar" /\ e.attr[1][1] = 1 THEN {e.args[1]} ELSE {}
FoldConj(e) == IF e.op = "conj" /\ e.args[1].op = "conj" THEN {e.args[1].args[1]} ELSE {}
FoldReal(e) == IF e.op = "real" /\ e.args[1].op = "complex" THEN {e.args[1].args[1]} ELSE {}
FoldImag(e) == IF e.op = "imag" /\ e.args[1].op = "complex" THEN {e.args[1].args[2]} ELSE {}

\* Mutated form: the positions stay as they are.
NormalizeDataAlone(e) ==
  IF e.op = "interp1d" /\ Dim(e) = 0
  THEN LET data == Node("transpose", "", <<>>, <<e.args[1]>>, <<e.shape[2], e.shape[1]>>, e.elem)
           interp == Node("interp1d", e.mode, <<<<1>>>>, <<data, e.args[2]>>, data.shape, e.elem)
       IN  {Node("transpose", "", <<>>, <<interp>>, e.shape, e.elem)}
  ELSE {}

\* Mutated form: shifts by different amounts count as one.
HoistShiftOverBinaryAnyway(e) ==
  IF e.op \in Binary /\ e.args[1].op = "fftshift" /\ e.args[2].op = "fftshift" /\ Dim(e.args[1]) = Dim(e.args[2])
  THEN {[e.args[1] EXCEPT !.args = <<[e EXCEPT !.args = <<e.args[1].args[1], e.args[2].args[1]>>]>>]}
  ELSE {}

HoistShiftOverBinary(e) ==
  IF e.op \in Binary /\ e.args[1].op = "fftshift" /\ e.args[2].op = "fftshift" /\ e.args[1].attr = e.args[2].attr
  THEN {[e.args[1] EXCEPT !.args = <<[e EXCEPT !.args = <<e.args[1].args[1], e.args[2].args[1]>>]>>]}
  ELSE {}

HoistShiftOverUnary(e) ==
  IF e.op \in {"conj", "real", "imag", "abs", "mul_scalar", "add_scalar"} /\ e.args[1].op = "fftshift"
  THEN {[e.args[1] EXCEPT !.args = <<[e EXCEPT !.args = e.args[1].args]>>, !.elem = e.elem]}
  ELSE {}

Transposed(e) == Node("transpose", "", <<>>, <<e>>, <<e.shape[2], e.shape[1]>>, e.elem)
NormalizeInterp1DDim(e) ==
  IF e.op = "interp1d" /\ Dim(e) = 0
  THEN LET data == Transposed(e.args[1])
       IN  {Transposed(Node("interp1d", e.mode, <<<<1>>>>, <<data, Transposed(e.args[2])>>, data.shape, e.elem))}
  ELSE {}

Rewritten(e) ==
  FoldTranspose(e) \cup FoldFFTShift(e) \cup FoldReverse(e) \cup FoldMulScalar(e) \cup FoldConj(e)
    \cup FoldReal(e) \cup FoldImag(e)
    \cup HoistShiftOverBinary(e) \cup HoistShiftOverUnary(e) \cup NormalizeInterp1DDim(e)

\* One match anywhere in the expression.
RECURSIVE Rewrites(_)
Rewrites(e) ==
  Rewritten(e) \cup UNION {{[e EXCEPT !.args[k] = f] : f \in Rewrites(e.args[k])} : k \in DOMAIN e.args}

Canonical == \A k \in DOMAIN results : Rewrites(results[k]) = {}

-----------------------------------------------------------------------------
(***************************************************************************)
(* Split complex values.                                                   *)
(***************************************************************************)

RECURSIVE Flattened(_)
Flattened(s) == IF s = <<>> THEN <<>> ELSE Head(s) \o Flattened(Tail(s))

\* Where the planes of the n-th of some values begin, when each complex one
\* takes two places.
Place(elems, n) == n + Cardinality({k \in 1..(n - 1) : IsComplex(elems[k])})

PlaneOf(elem) == FloatOf(elem)
Real2(op, a, b) == Node(op, "", <<>>, <<a, b>>, a.shape, a.elem)
OnPlane(e, planes, i) ==
  [e EXCEPT !.elem = PlaneOf(e.elem),
            !.args = [k \in DOMAIN planes |-> planes[k][IF Len(planes[k]) = 2 THEN i ELSE 1]]]
SplitComplexAttr(e, i) ==
  [e EXCEPT !.elem = PlaneOf(e.elem), !.attr = <<[n \in 1..Size(e) |-> e.attr[1][2 * n - 2 + i]]>>]

PaddedPlanes(e, p) == <<OnPlane(e, p, 1), [OnPlane(e, p, 2) EXCEPT !.attr[3] = <<0>>]>>

Product(a, b, c, d) == <<Real2("sub", Real2("mul", a, c), Real2("mul", b, d)),
                         Real2("add", Real2("mul", a, d), Real2("mul", b, c))>>
Quotient(a, b, c, d) ==
  LET denom == Real2("add", Real2("mul", c, c), Real2("mul", d, d))
  IN  <<Real2("div", Real2("add", Real2("mul", a, c), Real2("mul", b, d)), denom),
        Real2("div", Real2("sub", Real2("mul", b, c), Real2("mul", a, d)), denom)>>
CastPlanes(e, p) ==
  LET plane(v) == IF v.elem = PlaneOf(e.elem) THEN v
                  ELSE Node("cast", "", <<>>, <<v>>, e.shape, PlaneOf(e.elem))
      zero == Node("constant", "", <<[n \in 1..Size(e) |-> 0]>>, <<>>, e.shape, PlaneOf(e.elem))
  IN  IF Len(p[1]) = 2 THEN <<plane(p[1][1]), plane(p[1][2])>> ELSE <<plane(p[1][1]), zero>>

TwoResults(op, e, planes, attr) ==
  [i \in 1..2 |-> Node(op, IF i = 1 THEN "re" ELSE "im", attr, planes, e.shape, PlaneOf(e.elem))]

\* rewriteOp: the planes of an operation from those of its operands.
RewriteOp(e, p) ==
  LET complex == IsComplex(e.elem) \/ \E k \in DOMAIN e.args : IsComplex(e.args[k].elem)
  IN  CASE ~complex -> <<[e EXCEPT !.args = [k \in DOMAIN p |-> p[k][1]]]>>
        [] e.op = "constant" -> <<SplitComplexAttr(e, 1), SplitComplexAttr(e, 2)>>
        [] e.op = "mul" -> Product(p[1][1], p[1][2], p[2][1], p[2][2])
        [] e.op = "div" -> Quotient(p[1][1], p[1][2], p[2][1], p[2][2])
        [] e.op = "add_scalar" -> <<OnPlane(e, p, 1), p[1][2]>>
        [] e.op = "abs" -> <<Node("sqrt", "", <<>>,
             <<Real2("add", Real2("mul", p[1][1], p[1][1]), Real2("mul", p[1][2], p[1][2]))>>, e.shape, e.elem)>>
        [] e.op = "conj" ->
             <<p[1][1], Node("mul_scalar", "", <<<<0 - 1>>>>, <<p[1][2]>>, e.shape, PlaneOf(e.elem))>>
        [] e.op = "real" -> <<p[1][1]>>
        [] e.op = "imag" -> <<p[1][2]>>
        [] e.op = "complex" -> <<p[1][1], p[2][1]>>
        [] e.op = "cast" -> CastPlanes(e, p)
        [] e.op = "pad" -> PaddedPlanes(e, p)
        [] e.op \in {"fft", "ifft"} ->
             TwoResults("fft_split", e, p[1], <<<<Dim(e), IF e.op = "ifft" THEN 1 ELSE 0>>>>)
        [] e.op = "interp1d" -> TwoResults("interp1d_split", e, p[1] \o p[2], e.attr)
        [] e.op = "gather2d" -> TwoResults("gather2d_split", e, p[1] \o p[2] \o p[3], e.attr)
        [] OTHER -> \* add, sub, mul_scalar, where, reduce, cumsum and what moves elements
             <<OnPlane(e, p, 1), OnPlane(e, p, 2)>>

\* Arguments and carries take their places in the new signature; the index of
\* a loop body keeps its place before the carries.
RECURSIVE Planes(_, _, _)
Planes(e, args, block) ==
  LET at(n) == [e EXCEPT !.attr = <<<<n>>>>, !.elem = PlaneOf(e.elem)]
      leaf(elems) == LET n == Place(elems, e.attr[1][1])
                     IN  IF IsComplex(e.elem) THEN <<at(n), at(n + 1)>> ELSE <<at(n)>>
  IN  CASE e.op = "arg" -> leaf(args)
        [] e.op = "block" -> leaf(block)
        [] e.op = "iterate" ->
             LET carried == [k \in 1..Carries(e) |-> e.args[k].elem]
                 inner == (IF e.attr[1][2] = 1 THEN <<"i64">> ELSE <<>>) \o carried
                 planes == Flattened([k \in DOMAIN e.args |->
                             Planes(e.args[k], args, IF k <= Carries(e) THEN block ELSE inner)])
                 result(i) == [e EXCEPT !.args = planes, !.elem = PlaneOf(e.elem),
                                        !.attr = <<<<e.attr[1][1], e.attr[1][2], Place(carried, e.attr[1][3]) + i>>>>]
             IN  IF IsComplex(e.elem) THEN <<result(0), result(1)>> ELSE <<result(0)>>
        [] OTHER -> RewriteOp(e, [k \in DOMAIN e.args |-> Planes(e.args[k], args, block)] \o <<>>)

\* A tensor as the planes the caller passes for it.
TensorPlanes(elem, t) ==
  IF IsComplex(elem) THEN <<[x \in DOMAIN t |-> t[x][1]], [x \in DOMAIN t |-> t[x][2]]>> ELSE <<t>>

-----------------------------------------------------------------------------
(***************************************************************************)
(* Loops.                                                                  *)
(***************************************************************************)

\* Reductions carry a value along the dimension, in order.
Combine(mode, elem, l, r) ==
  IF mode = "sum" THEN Arith("add", elem, l, r)
  ELSE IF l = NaN THEN l ELSE IF r = NaN THEN r
  ELSE IF (IF mode = "max" THEN Below(r, l) ELSE Below(l, r)) THEN l ELSE r
Identity(e) == CASE e.mode = "sum" -> ZeroOf(e.elem) [] e.mode = "max" -> NegInf [] e.mode = "min" -> PosInf

LoopReduce(e, v, x) ==
  LET n == Extent(e.args[1], Dim(e))
      acc[k \in 0..n] == IF k = 0 THEN Identity(e)
                         ELSE Combine(e.mode, e.elem, v[1][Joined(x, Dim(e), k - 1)], acc[k - 1])
  IN  acc[n]

LoopArgMax(e, v, x) ==
  LET n == Extent(e.args[1], Dim(e))
      at(k) == v[1][Joined(x, Dim(e), k)]
      better(a, b) == b # NaN /\ (a = NaN \/ Below(b, a))
      best[k \in 0..n] == IF k = 0 THEN <<NegInf, 0>>
                          ELSE IF better(at(k - 1), best[k - 1][1]) THEN <<at(k - 1), k - 1>> ELSE best[k - 1]
  IN  best[n][2]

\* out[k] = out[k - 1] + in[k], read back from the result.
LoopCumsum(e, v, x) ==
  LET at(k) == v[1][Put(x, Dim(e), k)]
      sums[k \in 0..x[Dim(e) + 1]] == IF k = 0 THEN at(0) ELSE Arith("add", e.elem, sums[k - 1], at(k))
  IN  sums[x[Dim(e) + 1]]

\* The pair in order, with NaN after every number.
OrderedFloatPair(a, b) ==
  IF b = NaN \/ (NaN \notin {a, b} /\ ~Below(b, a)) THEN <<a, b>> ELSE <<b, a>>
Exchanged(taps, j) ==
  LET pair == OrderedFloatPair(taps[j], taps[j + 1]) IN [taps EXCEPT ![j] = pair[1], ![j + 1] = pair[2]]

RECURSIVE Upward(_, _, _), Downward(_, _, _), UpwardPasses(_, _, _, _), DownwardPasses(_, _, _, _)
Upward(taps, j, end) == IF j + 1 >= end THEN taps ELSE Upward(Exchanged(taps, j), j + 1, end)
Downward(taps, j, i) == IF j <= i THEN taps ELSE Downward(Exchanged(taps, j - 1), j - 1, i)
UpwardPasses(taps, window, i, n) ==
  IF i = n THEN taps ELSE UpwardPasses(Upward(taps, 0, window - i), window, i + 1, n)
DownwardPasses(taps, window, i, n) ==
  IF i = n THEN taps ELSE DownwardPasses(Downward(taps, window - 1, i), window, i + 1, n)

LoopRankFilter(e, v, x) ==
  LET window == e.attr[1][2]
      rank == e.attr[1][3]
      taps == [t \in 0..(window - 1) |->
                 v[1][Put(x, Dim(e), Clipped(x[Dim(e) + 1] + t - window \div 2, Extent(e, Dim(e))))]]
  IN  IF window - rank <= rank + 1 THEN UpwardPasses(taps, window, 0, window - rank)[rank]
      ELSE DownwardPasses(taps, window, 0, rank + 1)[rank]

RECURSIVE OddEvenMergeStages(_, _, _)
OddEvenMergeStages(n, p, k) ==
  IF p >= n THEN <<>>
  ELSE IF k = 0 THEN OddEvenMergeStages(n, 2 * p, 2 * p)
  ELSE <<<<p, k>>>> \o OddEvenMergeStages(n, p, k \div 2)

\* Mutated form: comparators may straddle a merge boundary.
IsLowAcross(i, p, k, n) == (i % (2 * k)) \in (k % p)..((k % p) + k - 1) /\ i + k < n

\* Element i heads a comparator of stage (p, k).
IsLow(i, p, k, n) ==
  /\ (i % (2 * k)) \in (k % p)..((k % p) + k - 1)
  /\ i + k < n
  /\ i \div (2 * p) = (i + k) \div (2 * p)

SortStage(e, t, p, k) ==
  LET n == Extent(e, Dim(e))
      element(x) ==
        LET i == x[Dim(e) + 1]
            at(m) == t[Put(x, Dim(e), m)]
            below == IF i >= k THEN i - k ELSE 0
        IN  IF IsLow(i, p, k, n) THEN OrderedFloatPair(t[x], at(Min({i + k, n - 1})))[1]
            ELSE IF i >= k /\ IsLow(below, p, k, n) THEN OrderedFloatPair(at(below), t[x])[2]
            ELSE t[x]
  IN  Strict([x \in DOMAIN t |-> element(x)])

RECURSIVE SortStages(_, _, _)
SortStages(e, t, stages) ==
  IF stages = <<>> THEN t ELSE SortStages(e, SortStage(e, t, stages[1][1], stages[1][2]), Tail(stages))

\* The loops that move elements: the elements they extract from their operands, at
\* any index of the result, and the one they take (0 for the fill value).
Extract(indices, taken) == [at |-> indices, taken |-> taken]
ClampedOffset(t, maximum) == Min({Max({t[<<0>>], 0}), maximum})
Confined(x, shape) == [d \in DOMAIN x |-> Clipped(x[d], shape[d])]
Inside(x, shape) == \A d \in DOMAIN x : x[d] \in 0..(shape[d] - 1)

ExtractSlice(e, x) == Extract(<<[d \in DOMAIN x |-> x[d] * e.attr[3][d] + e.attr[1][d]]>>, 1)

ExtractDynamicSlice(e, v, x) ==
  LET Span(d) == (e.attr[1][d] - 1) * e.attr[2][d] + 1
      Offset(d) == ClampedOffset(v[d + 1], e.args[1].shape[d] - Span(d))
  IN  Extract(<<[d \in DOMAIN x |-> x[d] * e.attr[2][d] + Offset(d)]>>, 1)

ExtractDynamicUpdateSlice(e, v, x) ==
  LET span == e.args[2].shape
      relative == [d \in DOMAIN x |-> x[d] - ClampedOffset(v[d + 2], e.shape[d] - span[d])]
  IN  Extract(<<x, Confined(relative, span)>>, IF Inside(relative, span) THEN 2 ELSE 1)

ExtractConcat(e, x) ==
  LET split == Extent(e.args[1], Dim(e))
      i == x[Dim(e) + 1]
  IN  Extract(<<Put(x, Dim(e), Min({i, split - 1})),
                Put(x, Dim(e), Min({Max({i - split, 0}), Extent(e.args[2], Dim(e)) - 1}))>>,
              IF i < split THEN 1 ELSE 2)

ExtractPad(e, x) ==
  LET source == [d \in DOMAIN x |-> x[d] - e.attr[1][d]]
  IN  Extract(<<Confined(source, e.args[1].shape)>>, IF Inside(source, e.args[1].shape) THEN 1 ELSE 0)

ExtractReverse(e, x) == Extract(<<Put(x, Dim(e), Extent(e, Dim(e)) - 1 - x[Dim(e) + 1])>>, 1)
ExtractTranspose(x) == Extract(<<<<x[2], x[1]>>>>, 1)
ExtractBroadcast(e, x) == Extract(<<<<x[Dim(e) + 1]>>>>, 1)

ExtractFFTShift(e, x) ==
  LET n == Extent(e, Dim(e))
      offset == IF e.attr[1][2] = 1 THEN n \div 2 ELSE n - n \div 2
  IN  Extract(<<Put(x, Dim(e), (x[Dim(e) + 1] + offset) % n)>>, 1)

Extracted(e, v, x) ==
  CASE e.op = "slice" -> ExtractSlice(e, x)
    [] e.op = "dynamic_slice" -> ExtractDynamicSlice(e, v, x)
    [] e.op = "dynamic_update_slice" -> ExtractDynamicUpdateSlice(e, v, x)
    [] e.op = "concat" -> ExtractConcat(e, x)
    [] e.op = "pad" -> ExtractPad(e, x)
    [] e.op = "reverse" -> ExtractReverse(e, x)
    [] e.op = "transpose" -> ExtractTranspose(x)
    [] e.op = "broadcast" -> ExtractBroadcast(e, x)
    [] e.op = "fftshift" -> ExtractFFTShift(e, x)

\* An extract outside its tensor leaves a value no program computes.
LoopMove(e, v, x) ==
  LET k == Extracted(e, v, x).taken
      ys == Extracted(e, v, x).at
      Number(n) == IF IsComplex(e.elem) THEN <<n, 0>> ELSE n
  IN  IF \E n \in DOMAIN ys : ys[n] \notin DOMAIN v[n] THEN Number(0 - 2 * P)
      ELSE IF k # 0 THEN v[k][ys[k]] ELSE Number(e.attr[3][1] % P)

Moves == {"transpose", "broadcast", "slice", "dynamic_slice", "dynamic_update_slice", "concat", "pad",
          "reverse", "fftshift"}

\* The transforms and the resampling operations have lowerings of their own.
Loops(e, v) ==
  IF e.op = "sort" THEN SortStages(e, v[1], OddEvenMergeStages(Extent(e, Dim(e)), 1, 1))
  ELSE Strict([x \in Indices(e.shape) |->
         CASE e.op \in ScalarwiseOps -> Scalarwise(e, v, x)
           [] e.op = "reduce" -> LoopReduce(e, v, x)
           [] e.op = "argmax" -> LoopArgMax(e, v, x)
           [] e.op = "cumsum" -> LoopCumsum(e, v, x)
           [] e.op = "rank_filter" -> LoopRankFilter(e, v, x)
           [] e.op \in Moves -> LoopMove(e, v, x)
           [] OTHER -> ElementOf(e, v, x)])

RECURSIVE Lowered(_, _, _), Iterations(_, _, _, _)
Operands(e, ins, block) == [k \in DOMAIN e.args |-> Lowered(e.args[k], ins, block)] \o <<>>
Lowered(e, ins, block) ==
  CASE e.op = "constant" -> Elements(e)
    [] e.op = "arg" -> ins[e.attr[1][1]]
    [] e.op = "block" -> block[e.attr[1][1]]
    [] e.op = "iterate" ->
         Iterations(e, ins, [k \in 1..Carries(e) |-> Lowered(e.args[k], ins, block)] \o <<>>, 0)[e.attr[1][3]]
    [] OTHER -> LET v == Operands(e, ins, block) IN Loops(e, v)
Iterations(e, ins, carries, trip) ==
  IF trip = e.attr[1][1] THEN carries
  ELSE LET counter == IF e.attr[1][2] = 1 THEN <<(<<0>> :> trip)>> ELSE <<>>
       IN  Iterations(e, ins, [k \in 1..Carries(e) |-> Lowered(e.args[Carries(e) + k], ins, counter \o carries)] \o <<>>,
                      trip + 1)

-----------------------------------------------------------------------------
(***************************************************************************)
(* The machine.                                                            *)
(***************************************************************************)

Begin ==
  /\ pc = IF \A k \in DOMAIN program.results : AllVerified(program.results[k]) THEN "canonicalize" ELSE "rejected"
  /\ inputs = program.inputs
  /\ results = program.results
  /\ out = <<>>

Init == program \in Programs /\ Begin

Canonicalize ==
  /\ pc = "canonicalize"
  /\ \E k \in DOMAIN results : \E e \in Rewrites(results[k]) : results' = [results EXCEPT ![k] = e]
  /\ UNCHANGED <<program, pc, inputs, out>>

\* FunctionDecomplexifier::run: the signature, the body and the values returned.
Decomplexify ==
  /\ pc = "canonicalize" /\ Canonical
  /\ program.path = "hls"
  /\ results' = Flattened([k \in DOMAIN results |-> Planes(results[k], program.elems, <<>>)])
  /\ inputs' = Flattened([k \in DOMAIN inputs |-> TensorPlanes(program.elems[k], inputs[k])])
  /\ pc' = "lower"
  /\ UNCHANGED <<program, out>>

KeepComplex ==
  /\ pc = "canonicalize" /\ Canonical
  /\ program.path = "host"
  /\ pc' = "lower"
  /\ UNCHANGED <<program, inputs, results, out>>

ConvertSARToLinalg ==
  /\ pc = "lower"
  /\ out' = [k \in DOMAIN results |-> Lowered(results[k], inputs, <<>>)]
  /\ pc' = "done"
  /\ UNCHANGED <<program, inputs, results>>

Next == Canonicalize \/ Decomplexify \/ KeepComplex \/ ConvertSARToLinalg

Spec == Init /\ [][Next]_vars

-----------------------------------------------------------------------------
(***************************************************************************)
(* Properties                                                              *)
(***************************************************************************)

Split == pc \in {"lower", "done"} /\ program.path = "hls"

\* What the function returns, as the caller sees it: tensors, or their planes.
Reference ==
  LET whole == [k \in DOMAIN program.results |-> Meaning(program.results[k], program.inputs, <<>>)] \o <<>>
  IN  IF Split THEN Flattened([k \in DOMAIN whole |-> TensorPlanes(program.results[k].elem, whole[k])]) ELSE whole

\* Every operation a rewrite or the splitting leaves behind passes its verifier.
StaysVerified == pc # "rejected" => \A k \in DOMAIN results : AllVerified(results[k])

\* The canonicalizer, in whatever order it finds its matches, and the split
\* into planes change no result: as promised, no rewrite is inexact.
MeaningKept ==
  pc # "rejected" => \E reference \in {Reference} :
    /\ Len(results) = Len(reference)
    /\ \A k \in DOMAIN results : Meaning(results[k], inputs, <<>>) = reference[k]

\* The loops of a verified program read inside their tensors only, also where
\* the element read is then discarded, and leave what the operations mean.
LoopsAgree ==
  pc = "done" => \E reference \in {Reference} :
    Len(out) = Len(reference) /\ \A k \in DOMAIN out : out[k] = reference[k]
=============================================================================
