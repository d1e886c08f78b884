-------------------------------- MODULE MCPrograms --------------------------------
(***************************************************************************)
(* The programs of the SAR dialect that MCCompiler lowers, and the         *)
(* functions of loop nests it takes through the buffer passes.             *)
(***************************************************************************)
EXTENDS Tensor, SequencesExt

IR == INSTANCE LoopIR

-----------------------------------------------------------------------------
(***************************************************************************)
(* Programs of the dialect.                                                *)
(***************************************************************************)

\* The arguments: complex planes, real planes (one with NaN), positions, an
\* offset, vectors.
Elems == <<"c64", "f64", "f64", "f64", "i64", "c64", "f64">>
Shape(n) == CASE n \in 1..4 -> <<2, 3>> [] n = 5 -> <<1>> [] n = 6 -> <<3>> [] n = 7 -> <<7>>
RealData(n) == CASE n = 2 -> <<4, 3355, 9, 0, 2, 4>> [] n = 3 -> <<5, NaN, 1, 1, 7, 0>>
                 [] n = 4 -> <<3358, 2, 1, 0, 7, 1>> [] n = 5 -> <<2>>
                 [] n = 7 -> <<6, 3300, NaN, PosInf, NegInf, 6, 1>>
Flat(n, x) == IF Len(x) = 1 THEN x[1] + 1 ELSE x[1] * Shape(n)[2] + x[2] + 1
Input(n) == [x \in Indices(Shape(n)) |->
               IF n \in {1, 6} THEN <<3 * Flat(n, x) + 1, 7 * Flat(n, x) * Flat(n, x)>> ELSE RealData(n)[Flat(n, x)]]
Inputs == [n \in 1..7 |-> Input(n)]
Arg(n) == Node("arg", "", <<<<n>>>>, <<>>, Shape(n), Elems[n])
Const(data, sh, elem) == Node("constant", "", <<data>>, <<>>, sh, elem)
Table == Const(<<1, 2, 3, 4, 5, 6>>, <<3>>, "c64")
Bins == Const(<<1, 2, 3, 4>>, <<4>>, "f64")
Flatness == Const(<<8, 8, 8>>, <<3>>, "f64")
Like(op, mode, attr, args) == Node(op, mode, attr, args, args[1].shape, args[1].elem)
Shaped(op, mode, attr, args, sh) == Node(op, mode, attr, args, sh, args[1].elem)
Offset(k) == Const(<<k>>, <<1>>, "i64")

Shifts(e) == {Like("fftshift", "", <<<<d, i>>>>, <<e>>) : d \in 0..(Rank(e) - 1), i \in {0, 1}}
Reverses(e) == {Like("reverse", "", <<<<d>>>>, <<e>>) : d \in 0..(Rank(e) - 1)}

\* Operations on any plane.
OfAny(e) == Shifts(e) \cup Reverses(e) \cup
  { Like("mul_scalar", "", <<<<1>>>>, <<e>>), Like("mul_scalar", "", <<<<3>>>>, <<e>>),
    Like("add_scalar", "", <<<<2>>>>, <<e>>), Like("add", "", <<>>, <<e, e>>) }
OfFloat(e) ==
  { Like("sqrt", "", <<>>, <<e>>), Like("sort", "", <<<<0>>>>, <<e>>), Like("cumsum", "", <<<<0>>>>, <<e>>),
    Like("cmp", "le", <<>>, <<e, Like("mul_scalar", "", <<<<2>>>>, <<e>>)>>),
    Like("rank_filter", "", <<<<0, 3, 0>>>>, <<e>>), Like("rank_filter", "", <<<<0, 3, 2>>>>, <<e>>),
    Like("rank_filter", "", <<<<0, 3, 1>>>>, <<e>>), Like("abs", "", <<>>, <<e>>),
    Node("cast", "", <<>>, <<e>>, e.shape, "c64"), Node("complex", "", <<>>, <<e, e>>, e.shape, "c64"),
    Shaped("pad", "", <<[d \in 1..Rank(e) |-> 1], [d \in 1..Rank(e) |-> 2], <<4>>>>, <<e>>,
           [d \in 1..Rank(e) |-> e.shape[d] + 3]) }
OfComplex(e) ==
  { Like("conj", "", <<>>, <<e>>), Node("real", "", <<>>, <<e>>, e.shape, "f64"),
    Node("imag", "", <<>>, <<e>>, e.shape, "f64"), Node("abs", "", <<>>, <<e>>, e.shape, "f64"),
    Like("mul", "", <<>>, <<e, e>>), Like("cumsum", "", <<<<0>>>>, <<e>>),
    Node("cast", "", <<>>, <<e>>, e.shape, "c32"), Like("sub", "", <<>>, <<Like("conj", "", <<>>, <<e>>), e>>),
    Shaped("pad", "", <<[d \in 1..Rank(e) |-> 1], [d \in 1..Rank(e) |-> 0], <<4>>>>, <<e>>,
           [d \in 1..Rank(e) |-> e.shape[d] + 1]) }
OfPlane(e) ==
  { Shaped("transpose", "", <<>>, <<e>>, <<e.shape[2], e.shape[1]>>),
    Shaped("slice", "", <<<<0, 0>>, <<1, 2>>, <<1, 2>>>>, <<e>>, <<1, 2>>),
    Shaped("dynamic_slice", "", <<<<1, 2>>, <<1, 2>>>>, <<e, Offset(1), Arg(5)>>, <<1, 2>>),
    Like("dynamic_update_slice", "", <<>>, <<e, Shaped("slice", "", <<<<0, 0>>, <<1, 2>>, <<1, 1>>>>, <<e>>, <<1, 2>>),
                                            Offset(-1), Arg(5)>>),
    Shaped("concat", "", <<<<1>>>>, <<e, e>>, <<e.shape[1], 2 * e.shape[2]>>),
    Shaped("reduce", "sum", <<<<0>>>>, <<e>>, <<e.shape[2]>>) }
OfFloatPlane(e) ==
  { Shaped("reduce", "max", <<<<1>>>>, <<e>>, <<e.shape[1]>>), Shaped("reduce", "min", <<<<0>>>>, <<e>>, <<e.shape[2]>>),
    Node("argmax", "", <<<<1>>>>, <<e>>, <<e.shape[1]>>, "i64"), Like("sort", "", <<<<1>>>>, <<e>>) }
OfComplexPlane(e) ==
  { Like("fft", "", <<<<1>>>>, <<e>>), Like("ifft", "", <<<<0>>>>, <<e>>),
    Like("interp1d", "", <<<<0>>>>, <<e, Node("real", "", <<>>, <<e>>, e.shape, "f64")>>),
    Like("interp1d", "", <<<<1>>>>, <<e, Node("imag", "", <<>>, <<e>>, e.shape, "f64")>>),
    Shaped("gather2d", "", <<>>, <<e, Arg(3), Arg(4)>>, <<2, 3>>) }
     \cup (IF e.shape = <<2, 3>> THEN {Node("where", "", <<>>, <<Arg(3), e, Arg(1)>>, <<2, 3>>, e.elem),
                                       Like("div", "", <<>>, <<e, Arg(1)>>)} ELSE {})
OpsOn(e) ==
  IF e.elem = "i64" THEN {Like("mul_scalar", "", <<<<3>>>>, <<e>>), Node("cast", "", <<>>, <<e>>, e.shape, "f64")}
  ELSE OfAny(e) \cup (IF IsComplex(e.elem) THEN OfComplex(e) ELSE OfFloat(e))
         \cup (IF Rank(e) = 1 THEN {Shaped("broadcast", "", <<<<1>>>>, <<e>>, <<2, e.shape[1]>>)}
               ELSE OfPlane(e) \cup (IF IsComplex(e.elem) THEN OfComplexPlane(e) ELSE OfFloatPlane(e)))

Shift(e, d, i) == Like("fftshift", "", <<<<d, i>>>>, <<e>>)
Block(n, elem) == Node("block", "", <<<<n>>>>, <<>>, <<2, 3>>, elem)
Counter == Node("block", "", <<<<1>>>>, <<>>, <<1>>, "i64")

\* A loop over a complex and a real carry, with and without its index.
Loop(indexed, result) ==
  LET z == Block(indexed + 1, "c64")
      r == Block(indexed + 2, "f64")
      step == IF indexed = 1
              THEN Shaped("dynamic_slice", "", <<<<2, 1>>, <<1, 1>>>>, <<r, Offset(0), Counter>>, <<2, 1>>)
              ELSE Shaped("slice", "", <<<<0, 1>>, <<2, 1>>, <<1, 1>>>>, <<r>>, <<2, 1>>)
      wide == Shaped("concat", "", <<<<1>>>>, <<step, Shaped("slice", "", <<<<0, 0>>, <<2, 2>>, <<1, 1>>>>, <<r>>, <<2, 2>>)>>, <<2, 3>>)
      yields == <<Like("mul", "", <<>>, <<z, Node("complex", "", <<>>, <<wide, r>>, <<2, 3>>, "c64")>>),
                  Node("imag", "", <<>>, <<Like("conj", "", <<>>, <<Like("conj", "", <<>>, <<z>>)>>)>>, <<2, 3>>, "f64")>>
  IN  Node("iterate", "", <<<<3, indexed, result>>>>, <<Arg(1), Arg(2)>> \o yields, <<2, 3>>, Elems[result])

Spectrum(i, j) ==
  Shift(Like("mul", "", <<>>, <<Shift(Like("fft", "", <<<<1>>>>, <<Arg(1)>>), 1, 0),
                                Shift(Node("cast", "", <<>>, <<Arg(2)>>, <<2, 3>>, "c64"), 1, i)>>), 1, j)
Special ==
  {Loop(i, r) : i \in {0, 1}, r \in {1, 2}} \cup {Spectrum(i, j) : i \in {0, 1}, j \in {0, 1}}
    \cup UNION {Shifts(c) \cup Reverses(c) : c \in {Table, Bins, Flatness}}
    \cup { Like("sort", "", <<<<0>>>>, <<Arg(7)>>), Node("cast", "", <<>>, <<Arg(7)>>, <<7>>, "i64"),
           Shaped("dynamic_slice", "", <<<<3>>, <<2>>>>, <<Arg(7), Offset(9)>>, <<3>>),
           Shaped("slice", "", <<<<1>>, <<4>>, <<2>>>>, <<Arg(7)>>, <<4>>),
           Shaped("slice", "", <<<<1>>, <<3>>, <<2>>>>, <<Arg(7)>>, <<3>>),
           Shaped("dynamic_slice", "", <<<<5>>, <<2>>>>, <<Arg(7), Offset(0)>>, <<5>>),
           Like("dynamic_update_slice", "", <<>>, <<Arg(6), Table, Offset(1)>>),
           Shaped("concat", "", <<<<0>>>>, <<Arg(6), Table>>, <<6>>),
           Like("atan2", "", <<>>, <<Arg(3), Arg(4)>>), Like("fft", "", <<<<0>>>>, <<Arg(6)>>),
           Like("rank_filter", "", <<<<0, 5, 1>>>>, <<Arg(7)>>), Like("rank_filter", "", <<<<0, 5, 4>>>>, <<Arg(7)>>),
           Like("rank_filter", "", <<<<0, 4, 1>>>>, <<Arg(7)>>) }
    \cup {Like("cmp", c, <<>>, <<Arg(3), Arg(4)>>) : c \in {"eq", "ne", "lt", "le", "gt", "ge", "lg"}}

Once == UNION {OpsOn(Arg(n)) : n \in {1, 2, 3, 6}}
Twice == UNION {OpsOn(e) : e \in UNION {OpsOn(Arg(n)) : n \in {1, 2, 6}}}
LoweringProgramsC ==
  {[path |-> p, elems |-> Elems, inputs |-> Inputs, results |-> <<e>>] :
     p \in {"host", "hls"}, e \in Special \cup Once \cup Twice}
    \cup {[path |-> p, elems |-> Elems, inputs |-> Inputs, results |-> <<Arg(1), e, Arg(4)>>] :
            p \in {"host", "hls"}, e \in {Spectrum(0, 1), Loop(1, 1)}}

-----------------------------------------------------------------------------
(***************************************************************************)
(* Functions of loop nests.                                                *)
(***************************************************************************)

Plane == [shape |-> <<2, 2>>, size |-> 1, hinted |-> FALSE]
Wide == [Plane EXCEPT !.size = 2]
Reserved == [Plane EXCEPT !.hinted = TRUE]
Big == [Plane EXCEPT !.shape = <<4, 2>>]
Thin == [Plane EXCEPT !.shape = <<1, 4>>]
Row == [Plane EXCEPT !.shape = <<2>>]

\* The k-th nest of a program has its values and induction variables from 10k on.
IvI(k) == 10 * k + 1
IvJ(k) == 10 * k + 2
Id(k) == <<IR!Term(IvI(k)), IR!Term(IvJ(k))>>
Turned(k) == <<IR!Term(IvJ(k)), IR!Term(IvI(k))>>
Read(b, turned) == [buf |-> b, turned |-> turned]
Loop2(k, n, m, body) == IR!For(IvI(k), n, <<IR!For(IvJ(k), m, body)>>)

\* target[i, j] = f(reads...), one loop nest.
SweepOf(k, n, m, target, reads) ==
  Loop2(k, n, m,
    [r \in DOMAIN reads |-> IR!Load(IvI(k) + 1 + r, reads[r].buf, IF reads[r].turned THEN Turned(k) ELSE Id(k))]
      \o <<IR!Apply(IvI(k) + 8, k, [r \in DOMAIN reads |-> IvI(k) + 1 + r] \o <<>>), IR!Store(target, Id(k), IvI(k) + 8)>>)
Sweep(k, target, reads) == SweepOf(k, 2, 2, target, reads)

Function(n, types, ret, body) ==
  [inputs |-> n, args |-> [k \in 1..n |-> k] \o <<>>, ret |-> ret, type |-> types, fresh |-> 99, body |-> body]

Program(f, target, o) ==
  [func |-> f, target |-> target, fuse |-> o[1], blockBytes |-> o[2], minElements |-> o[3], roles |-> o[4]]
Options == {<<FALSE, 0, 4, TRUE>>, <<TRUE, 16, 4, TRUE>>, <<TRUE, 0, 100, FALSE>>, <<FALSE, 32, 1, FALSE>>}
Compiled(F) == {Program(f, "host", <<FALSE, 0, m, FALSE>>) : f \in F, m \in {1, 100}}
                 \cup {Program(f, "hls", o) : f \in F, o \in Options}
\* Each with two choices of the options only.
ForBoth(F) == {Program(f, "host", <<FALSE, 0, 1, FALSE>>) : f \in F} \cup {Program(f, "hls", <<TRUE, 16, 4, TRUE>>) : f \in F}

\* Three sweeps over the input 1 and the buffers 2, 3 and 4.
Returned == {<<4>>, <<4, 4>>, <<3, 4>>, <<4, 2, 1>>}
Allocs(late, k) == IF late THEN <<IR!Alloc(k)>> ELSE <<>>
Three(types, late, r2, r3, ret) ==
  Function(1, <<Plane>> \o types, ret,
    (IF late THEN <<>> ELSE <<IR!Alloc(2), IR!Alloc(3), IR!Alloc(4)>>)
      \o Allocs(late, 2) \o <<IR!Generic(Sweep(1, 2, <<Read(1, FALSE)>>))>>
      \o Allocs(late, 3) \o <<IR!Generic(Sweep(2, 3, r2))>>
      \o Allocs(late, 4) \o <<IR!Generic(Sweep(3, 4, r3))>>)
ThreeSweeps ==
  {Three(<<Plane, Plane, Plane>>, TRUE, r2, r3, ret) :
     r2 \in {<<Read(1, TRUE)>>, <<Read(2, FALSE), Read(1, TRUE)>>},
     r3 \in {<<Read(2, TRUE)>>, <<Read(3, TRUE), Read(1, FALSE)>>, <<Read(3, FALSE), Read(2, FALSE)>>,
             <<Read(1, FALSE), Read(1, TRUE)>>},
     ret \in Returned}

\* One loop over the row 2, of statements that store into it, under a condition
\* or not, and that load from it into a row of the result.
Next2(k) == [IR!Term(IvI(k)) EXCEPT !.add = 1, !.mod = 2]
Maps(k) == {<<IR!Term(IvI(k))>>, <<Next2(k)>>, <<IR!Number(0)>>}
Statement(s, kind, m) ==
  LET stored == IR!Apply(100 + s, s, <<IvI(2)>>)
      Loaded(iv, args) == <<IR!Load(100 + s, 2, m), IR!Apply(110 + s, s, args), IR!Store(3, <<IR!Number(s - 1), IR!Term(iv)>>, 110 + s)>>
  IN  CASE kind = "store" -> <<stored, IR!Store(2, m, 100 + s)>>
        [] kind = "guard" -> <<stored, IR!When(IvI(2), <<IR!Store(2, m, 100 + s)>>)>>
        [] kind = "load" -> Loaded(IvI(2), <<100 + s>>)
        [] kind = "inner" -> <<IR!For(120 + s, 2, Loaded(120 + s, <<100 + s, 120 + s>>))>>
Here == <<IR!Term(IvI(2))>>
Kinds == {<<k, m>> : k \in {"store", "load"}, m \in Maps(2)} \cup {<<"guard", Here>>, <<"guard", <<Next2(2)>>>>, <<"inner", Here>>}

\* A store, another one, and a store under a condition through the map of the first.
StoreOvertaken(ks) ==
  \E i, j, k \in DOMAIN ks :
    /\ i < j /\ j < k
    /\ ks[i][1] = "store" /\ ks[j][1] \in {"store", "guard"} /\ ks[k] = <<"guard", ks[i][2]>>
RowProgram(ks) ==
  [Function(1, <<Row, Row, Big>>, <<3>>,
     <<IR!Alloc(2), IR!Alloc(3), Loop2(3, 4, 2, <<IR!Apply(39, 39, <<>>), IR!Store(3, Id(3), 39)>>),
       IR!For(IvI(1), 2, <<IR!Load(12, 1, <<IR!Term(IvI(1))>>), IR!Apply(13, 9, <<12>>), IR!Store(2, <<IR!Term(IvI(1))>>, 13)>>),
       IR!For(IvI(2), 2, FlattenSeq([s \in DOMAIN ks |-> Statement(s, ks[s][1], ks[s][2])]))>>) EXCEPT !.fresh = 130]
RowPrograms ==
  {RowProgram(ks) : ks \in {l \in [1..3 -> Kinds] : ~StoreOvertaken(l) /\ l[1][1] \in {"store", "load"} /\ l[3][1] \in {"store", "load"}}}

\* Loops of two trips that carry buffers: the n-th of "carries" is computed from the
\* arguments "reads" into a buffer of its own, or is the argument "keeps".
Local(init) == <<IR!Alloc(init), IR!Generic(Sweep(1, init, <<Read(1, FALSE)>>))>>
Carry(init, arg, result, yield) == [init |-> init, arg |-> arg, result |-> result, yield |-> yield]
OneCarry(init, yield, after, ret) ==
  Function(1, <<Plane, Plane, Plane, Plane, Plane, Plane>>, ret,
    Local(2) \o <<IR!Counted(5, 2, <<Carry(init, 3, 4, yield)>>, <<IR!Alloc(5), IR!Generic(Sweep(2, 5, <<Read(3, TRUE), Read(1, FALSE)>>))>>)>>
      \o after)
Following(k, reads) == <<IR!Alloc(6), IR!Generic(Sweep(3, 6, reads))>>
TwoCarries(y1, y2) ==
  Function(1, [k \in 1..9 |-> Plane] \o <<>>, <<5, 6>>,
    Local(2) \o <<IR!Counted(5, 3, <<Carry(1, 3, 5, y1), Carry(2, 4, 6, y2)>>,
      <<IR!Alloc(7), IR!Generic(Sweep(2, 7, <<Read(3, TRUE), Read(4, FALSE)>>)),
        IR!Alloc(8), IR!Generic(Sweep(3, 8, <<Read(4, TRUE), Read(7, FALSE)>>))>>),
      IR!Alloc(9), IR!Generic(Sweep(4, 9, <<Read(1, FALSE), Read(5, FALSE)>>))>>)
Nested ==
  Function(1, [k \in 1..9 |-> Plane] \o <<>>, <<9>>,
    Local(2) \o <<IR!Counted(5, 2, <<Carry(2, 3, 4, 6)>>,
      <<IR!Counted(6, 2, <<Carry(3, 5, 6, 7)>>, <<IR!Alloc(7), IR!Generic(Sweep(2, 7, <<Read(5, TRUE), Read(3, FALSE)>>))>>)>>),
      IR!Alloc(9), IR!Generic(Sweep(3, 9, <<Read(4, FALSE), Read(1, FALSE)>>))>>)
LoopPrograms ==
  {OneCarry(2, 5, <<>>, <<4>>), OneCarry(2, 5, <<>>, <<4, 4>>), OneCarry(2, 5, Following(6, <<Read(4, TRUE)>>), <<6, 4>>),
   OneCarry(1, 5, Following(6, <<Read(4, FALSE), Read(1, FALSE)>>), <<6>>), OneCarry(2, 3, <<>>, <<4, 2>>),
   OneCarry(2, 3, Following(6, <<Read(4, FALSE)>>), <<6>>), Nested}
  \cup {TwoCarries(y[1], y[2]) : y \in {<<7, 8>>, <<4, 3>>, <<3, 8>>, <<8, 7>>, <<7, 7>>, <<8, 3>>}}

\* Storage that is and is not shared: rows of sweeps from one buffer to the next, of
\* elements of two widths.
Chain(types) ==
  LET n == Len(types)
  IN  Function(1, types, <<n>>,
        FlattenSeq([k \in 1..(n - 1) |->
          <<IR!Alloc(k + 1), IR!Generic(Sweep(k, k + 1, <<Read(IF k = 3 THEN 2 ELSE k, FALSE), Read(k, TRUE)>>))>>]))
ChainPrograms ==
  {Program(Chain(types), "host", <<FALSE, 0, 1, FALSE>>) :
     types \in {<<Plane, Wide, Wide, Plane, Plane, Plane>>, <<Plane, Plane, Reserved, Wide, Plane, Plane>>,
               <<Plane, Plane, Plane, Plane, Big, Plane>>, <<Plane, Big, Plane, Wide, Plane, Plane>>}}

\* Corner turns of planes of four rows, several loads, an inner temporary, a reduction of
\* the turned plane, and an unstaged one.
Square == [Plane EXCEPT !.shape = <<4, 4>>]
TurnOf(k, target, reads) == SweepOf(k, 4, 4, target, reads)
Buffered(k, target) ==
  Loop2(k, 4, 4, <<IR!Load(102, 1, Turned(k)), IR!Apply(103, 3, <<102>>), IR!Store(3, Id(k), 103), IR!Load(104, 3, Id(k)),
                   IR!Apply(105, 4, <<104>>), IR!Store(target, Id(k), 105)>>)
Late(k, target) ==
  Loop2(k, 4, 4, <<IR!Load(102, 3, Id(k)), IR!Load(103, 1, Turned(k)), IR!Apply(104, 3, <<102, 103>>), IR!Store(3, Id(k), 103),
                   IR!Store(target, Id(k), 104)>>)
OfSquares(body) == [Function(1, <<Square, Square, Square, Square>>, <<4>>, body) EXCEPT !.fresh = 110]
Turns ==
  { OfSquares(<<IR!Alloc(2), TurnOf(1, 2, <<Read(1, TRUE)>>), IR!Alloc(4), TurnOf(2, 4, <<Read(2, FALSE), Read(1, TRUE)>>)>>),
    OfSquares(<<IR!Alloc(2), TurnOf(1, 2, <<Read(1, FALSE)>>), IR!Alloc(4), TurnOf(2, 4, <<Read(2, TRUE), Read(1, TRUE)>>)>>),
    OfSquares(<<IR!Alloc(3), IR!Alloc(4), Buffered(1, 4)>>),
    OfSquares(<<IR!Alloc(3), TurnOf(3, 3, <<Read(1, FALSE)>>), IR!Alloc(4), Late(1, 4)>>) }
TurnPrograms == {Program(f, "hls", <<fuse, b, 4, TRUE>>) : f \in Turns, fuse \in BOOLEAN, b \in {16, 32, 64, 128}}

\* Sums along the rows of a plane, used by a loop over the sums, or by one over the plane.
SumInto(k, target, source) ==
  Loop2(k, 2, 2, <<IR!Load(IvI(k) + 2, target, <<IR!Term(IvI(k))>>), IR!Load(IvI(k) + 3, source, Id(k)),
                   IR!Apply(IvI(k) + 4, k, <<IvI(k) + 2, IvI(k) + 3>>), IR!Store(target, <<IR!Term(IvI(k))>>, IvI(k) + 4)>>)
Zeros(k, target) == IR!For(IvI(k), 2, <<IR!Apply(IvI(k) + 1, k, <<>>), IR!Store(target, <<IR!Term(IvI(k))>>, IvI(k) + 1)>>)
Sums(tail) ==
  Function(1, <<Plane, Row, Row, Plane>>, IF tail = "row" THEN <<3>> ELSE <<4>>,
    <<IR!Alloc(2), IR!Generic(Zeros(1, 2)), IR!Generic(SumInto(2, 2, 1)), IR!Alloc(3),
      IR!Generic(IR!For(IvI(3), 2, <<IR!Load(33, 2, <<IR!Term(IvI(3))>>), IR!Apply(34, 3, <<33>>), IR!Store(3, <<IR!Term(IvI(3))>>, 34)>>))>>
    \o (IF tail = "row" THEN <<>>
        ELSE <<IR!Alloc(4), IR!Generic(Loop2(4, 2, 2, <<IR!Load(43, IF tail = "plane" THEN 3 ELSE 2, <<IR!Term(IvI(4))>>), IR!Load(44, 1, Id(4)),
                                                 IR!Apply(45, 4, <<43, 44>>), IR!Store(4, Id(4), 45)>>))>>))
DirectSums ==
  Function(1, <<Plane, Row, Row, Plane>>, <<4>>,
    <<IR!Alloc(2), IR!Generic(Zeros(1, 2)), IR!Generic(SumInto(2, 2, 1)),
      IR!Alloc(4), IR!Generic(Loop2(4, 2, 2, <<IR!Load(43, 2, <<IR!Term(IvI(4))>>), IR!Load(44, 1, Id(4)),
                                         IR!Apply(45, 4, <<43, 44>>), IR!Store(4, Id(4), 45)>>))>>)

\* Results that are inputs, one-row planes, and copies between them.
Thins == [Function(1, <<Thin, Thin, Thin>>, <<1, 3>>,
            <<IR!Alloc(2), IR!Copy(1, 2), IR!Generic(SweepOf(1, 1, 4, 2, <<Read(2, FALSE)>>)),
              IR!Alloc(3), IR!Generic(SweepOf(2, 1, 4, 3, <<Read(2, FALSE), Read(1, FALSE)>>))>>) EXCEPT !.fresh = 60]
\* A result computed beside a local plane that another result is made of.
Roles == Function(2, <<Plane, Plane, Plane, Plane, Plane>>, <<3, 5>>,
           <<IR!Alloc(3), IR!Generic(Sweep(1, 3, <<Read(1, FALSE)>>)), IR!Alloc(4), IR!Generic(Sweep(2, 4, <<Read(2, FALSE)>>)),
             IR!Generic(Sweep(3, 3, <<Read(4, TRUE), Read(3, FALSE)>>)),
             IR!Alloc(5), IR!Generic(Sweep(4, 5, <<Read(4, TRUE), Read(1, FALSE)>>))>>)
BufferProgramsC ==
  ForBoth(ThreeSweeps) \cup ForBoth(LoopPrograms) \cup ChainPrograms \cup TurnPrograms
    \cup Compiled({Sums("row"), Sums("plane"), Thins, Roles})
    \cup {Program(f, "hls", <<FALSE, 0, 4, TRUE>>) : f \in RowPrograms}

\* The sums along the rows, used in a loop over the plane.
PartialSums == Compiled({DirectSums})

\* A loop that starts from an input of the function.
PrimedLoop ==
  Compiled({Function(1, <<Plane, Plane, Plane, Plane>>, <<3>>,
    <<IR!Counted(5, 2, <<Carry(1, 2, 3, 4)>>, <<IR!Alloc(4), IR!Generic(Sweep(2, 4, <<Read(2, TRUE)>>))>>)>>)})
==================================================================================
