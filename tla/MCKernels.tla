-------------------------------- MODULE MCKernels --------------------------------
(***************************************************************************)
(* The signal kernels on small instances: a behaviour is one transform     *)
(* (FFT), one resampling (Resample) or the launches of two threads         *)
(* (Calls).  The three machines share no state; an empty set of jobs or    *)
(* launches leaves one out.  Where Calls is not the machine its threads    *)
(* have nothing to launch, so that its properties are checked as they      *)
(* stand in Calls.                                                         *)
(***************************************************************************)
EXTENDS Calls

CONSTANTS FFTJobs, Junk, FFTJunk, ResampleJobs, NotFinite, Pi

VARIABLES
  machine,
  job, place,
  block, sub, turn, mem,           \* of a transform
  plan, row, col, band, out        \* of a resampling

fftVars == <<block, sub, turn, mem>>
resampleVars == <<plan, row, col, band, out>>
mcVars == <<machine, job, place, fftVars, resampleVars, vars>>

\* The jobs are chosen below.
F == INSTANCE FFT WITH Jobs <- {}, Junk <- FFTJunk, pc <- place, t <- turn
R == INSTANCE Resample WITH Jobs <- {}, pc <- place

Idle(v) == v = <<>>
NoScript == [th \in Threads |-> <<>>]

InitTransform ==
  /\ machine = "fft" /\ job \in FFTJobs /\ F!Begin
  /\ Idle(plan) /\ Idle(row) /\ Idle(col) /\ Idle(band) /\ Idle(out)
  /\ Begin(NoScript)

InitResample ==
  /\ machine = "resample" /\ job \in ResampleJobs /\ R!Begin
  /\ Idle(block) /\ Idle(sub) /\ Idle(turn) /\ Idle(mem)
  /\ Begin(NoScript)

InitCalls ==
  /\ machine = "calls" /\ Init
  /\ Idle(job) /\ Idle(place) /\ Idle(block) /\ Idle(sub) /\ Idle(turn) /\ Idle(mem)
  /\ Idle(plan) /\ Idle(row) /\ Idle(col) /\ Idle(band) /\ Idle(out)

MCInit == InitTransform \/ InitResample \/ InitCalls

Transform == machine = "fft" /\ F!Next /\ UNCHANGED <<machine, resampleVars, vars>>
Resampling == machine = "resample" /\ R!Next /\ UNCHANGED <<machine, fftVars, vars>>
Launching == machine = "calls" /\ Next /\ UNCHANGED <<machine, job, place, fftVars, resampleVars>>

MCNext == Transform \/ Resampling \/ Launching

MCSpec == MCInit /\ [][MCNext]_mcVars

-----------------------------------------------------------------------------
(***************************************************************************)
(* Properties                                                              *)
(***************************************************************************)

\* However a line is blocked, banked and staged, the loop nests of the HLS path
\* compute what the runtime computes for the same operation, and that is the
\* DFT of the line (FFT, SARFFTToAffine.cpp against SARRuntime.cpp).
BackendsAgree == machine = "fft" => F!BackendsAgree

\* The stages of a transform are a chain: none works in place, and fully
\* unrolled every line has one stage that writes it (emitStockham, scratchSlots).
StagesAreAChain == machine = "fft" => F!StagesAreAChain

\* Every position of a resampling lies in the interval that DisplacementRange.cpp
\* gives for it, from which the band is cut.
DisplacementSound == machine = "resample" => R!DisplacementSound

\* Whichever strategy the lowering takes, the samples are those of the runtime's
\* sampler (SARInterpToAffine.cpp against SARRuntime.cpp and SARToLinalg.cpp).
SamplesAgree == machine = "resample" => R!SamplesAgree

-----------------------------------------------------------------------------
TurnC == <<16, 2362>>
NotFiniteC == -99999
NaNC == -11111
PosInfC == -22222
NegInfC == -33333
FFTJunkC == <<1234, 77>>
None == {}

(***************************************************************************)
(* Transforms.                                                             *)
(***************************************************************************)

FFTPlane(rows, cols) ==
  [x \in (0..(rows - 1)) \X (0..(cols - 1)) |->
     LET n == x[1] * cols + x[2] + 1 IN <<(n * n * 31 + 7 * n + 3) % P, (n * n * n + 5 * n + 1) % P>>]
Shapes == {<<1, 1, n>> : n \in {2, 3, 4, 5, 6, 7, 8, 10, 16, 32}} \cup {<<2, 2, 12>>}
            \cup {<<2, r, c>> : r \in {2, 3, 4, 6, 8}, c \in {2, 3, 4, 6, 8}}

\* stageGroup, parallelRows and ioUnroll: every two of them in several combinations.
Knobs == {<<0, 1, 1>>, <<0, 2, 4>>, <<0, 3, 2>>, <<1, 1, 3>>, <<1, 2, 2>>, <<2, 3, 1>>, <<2, 2, 3>>, <<1, 3, 4>>}
FFTJobsC ==
  {[rank |-> s[1], dim |-> d, rows |-> s[2], cols |-> s[3], inverse |-> i, plane |-> FFTPlane(s[2], s[3]),
    stageGroup |-> k[1], parallelRows |-> k[2], ioUnroll |-> k[3]] :
      s \in Shapes, d \in {0, 1}, i \in BOOLEAN, k \in Knobs}

(***************************************************************************)
(* Resamplings.                                                            *)
(***************************************************************************)

\* Expressions over planes of shape sh; f is whether operations round to f32.
Vec(n, g) == [op |-> "constant", shape |-> <<n>>, at |-> [x \in Indices(<<n>>) |-> g[x[1] + 1]]]
Along(d, v, sh) == [op |-> "broadcast", dim |-> d, shape |-> sh, arg |-> v]
Node2(op, a, b, f) == [op |-> op, shape |-> a.shape, l |-> a, r |-> b, f32 |-> f]
Node1(op, a, s, f) == [op |-> op, shape |-> a.shape, arg |-> a, s |-> s, f32 |-> f]
Leaf(op, sh, g(_)) == [op |-> op, shape |-> sh, at |-> [x \in Indices(sh) |-> g(x)]]
Compared(pred, a, b) == [op |-> "cmp", pred |-> pred, shape |-> a.shape, l |-> a, r |-> b, f32 |-> FALSE]
Where(m, a, b) == [op |-> "where", shape |-> a.shape, mask |-> m, l |-> a, r |-> b, f32 |-> FALSE]

\* d is the axis of the ramp; every other constant varies along the other.
Ramp(sh, d, first, step) == Along(d, Vec(sh[d + 1], [k \in 1..sh[d + 1] |-> first + (k - 1) * step]), sh)
Shift(sh, d, lo, hi) == Along(1 - d, Vec(sh[2 - d], [k \in 1..sh[2 - d] |-> IF k = 1 THEN lo ELSE hi]), sh)
Flat(sh, v) == Leaf("constant", sh, LAMBDA x : v)

SumOfSquares(sh, d) ==
  LET x == Ramp(sh, d, 8, 4) IN Node2("add", Node2("mul", x, x, FALSE), Shift(sh, d, 0, 20), FALSE)

Scattered(sh) == <<2, 13, 0 - 3, 29, 17, NotFinite, 31, 8, 0 - 40, 5, 44, 21, 9, 30, 1, 16>>

Positions(sh, d) ==
  LET r == Ramp(sh, d, 0, 4)
      far == Leaf("argument", sh, LAMBDA x : Scattered(sh)[((x[1] * sh[2] + x[2]) % 16) + 1])
      sum == SumOfSquares(sh, d)
  IN  { Node2("add", r, Shift(sh, d, 0 - 3, 2), FALSE),
        Node2("sub", r, Shift(sh, d, 1, 4), FALSE),
        Node1("add_scalar", r, 2, FALSE),
        Node1("mul_scalar", r, 5, FALSE),
        far,
        Node1("sqrt", sum, 0, FALSE),
        Node1("sqrt", Where(Compared("gt", sum, Flat(sh, 0)), sum, Flat(sh, 0)), 0, FALSE),
        Leaf("constant", sh, LAMBDA x : 4 * x[d + 1] + <<0, 0, 5, 1, 4, 2>>[((3 * x[1] + x[2]) % 6) + 1]),
        Node2("add", r, Node1("cos", Shift(sh, d, 0, 8), 0, FALSE), FALSE),
        Node2("add", r, Shift(sh, d, 2, 3), TRUE),
        Node2("add", Ramp(sh, d, 2, 5), Node1("mul_scalar", Ramp(sh, d, 4, 0 - 4), 1, FALSE), FALSE),
        Where(Compared("le", far, Flat(sh, 8)), r, Node1("add_scalar", r, 3, FALSE)),
        Where(Compared("le", far, Flat(sh, 8)), r, Flat(sh, 6)),
        Node2("add", r, Node2("div", Shift(sh, d, 3, 7), Shift(sh, d, 6, 9), FALSE), FALSE),
        Node2("div", Ramp(sh, d, 0, 8), Flat(sh, 8), FALSE),
        Node2("mul", Flat(sh, 3), Ramp(sh, d, 4, 4), FALSE),
        Node2("add", r, Node2("mul", Shift(sh, d, 0 - 3, 4), Shift(sh, d, 0 - 3, 4), FALSE), FALSE),
        Node1("add_scalar", Node1("cast", r, 0, TRUE), 1, FALSE),
        Node1("sqrt", Shift(sh, d, 0 - 4, 9), 0, FALSE),
        [op |-> "transpose", shape |-> sh, f32 |-> FALSE,
         arg |-> Leaf("argument", <<sh[2], sh[1]>>, LAMBDA x : 4 * x[2 - d] + x[d + 1])] }

Sample(size) == [x \in Indices(size) |-> (x[1] * 911 + x[2] * x[2] * 57 + 13 * x[2] + 100) % P]

Job(kind, e, cols, size, k, b, o) ==
  [kind |-> kind, positions |-> e, cols |-> cols, size |-> size, data |-> Sample(size),
   kernel |-> k[1], window |-> k[2], boundary |-> b,
   banded |-> o[1], profit |-> o[2], rowCap |-> o[3], copies |-> o[4], bank |-> o[5]]

Kernels == {<<"nearest", "rect">>, <<"linear", "rect">>, <<"cubic", "rect">>, <<"sinc", "rect">>,
            <<"sinc", "hann">>, <<"sinc", "hamming">>, <<"sinc", "kaiser">>}
Boundaries == {"zero", "edge", "reflect"}
Options == {<<FALSE, 1, 0, 1, 4>>, <<TRUE, 1, 0, 2, 4>>, <<TRUE, 2, 16, 2, 4>>, <<TRUE, 1, 16, 1, 2>>}

RowJobs(sh) == {Job("interp1d", e, <<>>, sh, k, b, o) :
                  e \in Positions(sh, 1), k \in Kernels, b \in Boundaries, o \in Options}

\* Whether a tap falls outside the row.
LeavesRow(j) ==
  \E x \in Indices(j.positions.shape) :
    \E pos \in {R!Scalarize(j.positions, x)} :
      pos # NotFinite /\ \E i \in {(IF j.kernel = "nearest" THEN pos + 2 ELSE pos) \div 4} :
        ~R!Within(i + R!TapLo(j.kernel), j.size[2]) \/ ~R!Within(i + R!TapHi(j.kernel), j.size[2])

WrapsEdge(j) == j.boundary = "edge" /\ R!Interp1DPlan(j).strategy = "full_row" /\ LeavesRow(j)

PlaneJobs(src, sh) ==
  {Job("gather2d", e, [x \in Indices(sh) |-> <<3, 9, 0 - 6, 14, 5, 2>>[((x[1] * sh[2] + x[2]) % 6) + 1]],
       src, k, b, o) :
     e \in Positions(sh, 0), k \in {<<"nearest", "">>, <<"linear", "">>}, b \in {"zero", "edge"}, o \in Options}

RowJobsOf(sh) == {j \in RowJobs(sh) : ~WrapsEdge(j)}
ResampleJobsC ==
  RowJobsOf(<<2, 8>>) \cup RowJobsOf(<<1, 5>>) \cup PlaneJobs(<<8, 3>>, <<7, 2>>) \cup PlaneJobs(<<6, 2>>, <<9, 2>>)

\* A complete row with the boundary "edge", and taps outside of it.
EdgeJobs == {j \in RowJobs(<<2, 8>>) : WrapsEdge(j)}

\* The square root of a choice between two planes, of which one is far away.
WhereJobs ==
  LET sh == <<2, 8>>
      mask == Leaf("argument", sh, LAMBDA x : IF x[2] % 3 = 0 THEN 1 ELSE 0)
      e == Node1("sqrt", Where(mask, SumOfSquares(sh, 1), Flat(sh, 900)), 0, FALSE)
  IN  {Job("interp1d", e, <<>>, sh, <<"linear", "rect">>, "zero", <<TRUE, 1, 0, 2, 4>>)}

(***************************************************************************)
(* Launches.                                                               *)
(***************************************************************************)

Arg(k, shape, elem) == Node("arg", "", <<<<k>>>>, <<>>, shape, elem)
TransformOp(op, shape, elem, dim) == Node(op, "", <<<<dim>>>>, <<Arg(1, shape, elem)>>, shape, elem)
Interp(mode, taps, beta, dim) ==
  Node("interp1d", mode, <<<<dim, taps, beta>>>>, <<Arg(1, <<2, 3>>, "c32"), Arg(2, <<2, 3>>, "f64")>>, <<2, 3>>, "c32")
Hand(c) == [op |-> "call", call |-> c]
Module(symbols, ops) == [symbols |-> symbols, ops |-> ops]

FFTOn(src, dst, dim) == [symbol |-> <<"fft", Len(src.sizes), "c64">>, buffers |-> <<src, dst>>, dim |-> dim, inverse |-> FALSE]
Buffer(ptr, offset, sizes, strides) == [ptr |-> ptr, offset |-> offset, sizes |-> sizes, strides |-> strides]
Good == Buffer("data", 0, <<3, 2>>, <<2, 1>>)
Layouts == {Good, Buffer("null", 0, <<3, 2>>, <<2, 1>>), Buffer("unaligned", 0, <<3, 2>>, <<2, 1>>),
            Buffer("data", 5, <<3, 2>>, <<0 - 2, 1>>), Buffer("data", 0, <<3, 2>>, <<0, 1>>),
            Buffer("data", 20, <<3, 2>>, <<7, 0 - 9>>), Buffer("data", 0 - 20, <<3, 2>>, <<0 - 7, 9>>),
            Buffer("data", 0, <<3, 2>>, <<15, 1>>), Buffer("data", 0, <<3, 2>>, <<15, 2>>),
            Buffer("data", 0, <<3, 3>>, <<1, 3>>), Buffer("data", 0, <<0, 2>>, <<2, 1>>)}
HandCalls == {FFTOn(a, Good, 1) : a \in Layouts} \cup {FFTOn(Good, b, 0) : b \in Layouts} \cup {FFTOn(Good, Good, 2)}
InterpOn(kernel, taps, window, beta, boundary) ==
  [symbol |-> <<"interp1d", 2, "c64">>, buffers |-> <<Good, Good, Good>>,
   kernel |-> kernel, taps |-> taps, window |-> window, beta |-> beta, boundary |-> boundary]
OddCalls == {InterpOn(4, 8, 0, 10, 0), InterpOn(0, 8, 4, 10, 0), InterpOn(0, 8, 0, 10, 3),
             InterpOn(3, 7, 0, 10, 0), InterpOn(3, 8, 3, 49, 0), InterpOn(0, 7, 0, 49, 2)}

Signals ==
  {TransformOp(op, s[1], elem, s[2]) : op \in {"fft", "ifft"}, elem \in {"c32", "c64"},
     s \in {<<<<4>>, 0>>, <<<<1>>, 0>>, <<<<3, 2>>, 1>>, <<<<1, 3>>, 0>>, <<<<1, 3>>, 1>>, <<<<2, 2>>, 2>>}}
  \cup {Interp(<<k, w, b>>, taps, beta, dim) : k \in {"nearest", "linear", "cubic", "sinc", "lanczos"},
          w \in {"rect", "hann", "hamming", "kaiser"}, b \in {"zero", "edge", "reflect", "wrap"},
          taps \in {2, 4, 7, 32, 34}, beta \in {NaN, 0, 10, 48, 49}, dim \in {0, 1}}
Plain == TransformOp("fft", <<4>>, "c32", 0)

SymbolTables == {<<>>} \cup {(<<"fft", 1, "c32">> :> k) : k \in {"declaration", "definition"}}
OneThread ==
  {<<Module(<<>>, <<e, Plain>>)>> : e \in Signals}
  \cup {<<Module(s, <<Plain>>)>> : s \in SymbolTables}
  \cup {<<Module(<<>>, <<Plain, Hand(c), Plain, Hand(d)>>)>> : c \in HandCalls \cup OddCalls, d \in OddCalls}
Racing == {<<Module(<<>>, <<Plain, Hand(FFTOn(Good, Good, 2))>>), Module(<<>>, <<Plain>>)>>,
                <<Module(<<>>, <<Plain, Plain>>)>>,
                <<Module(<<>>, <<Hand(InterpOn(4, 8, 0, 10, 0))>>), Module(<<>>, <<Hand(FFTOn(Good, Good, 2))>>)>>}
Outside == {FFTOn(Good, Good, 0), FFTOn(Good, Good, 3)}
Launches == {<<s, <<>>>> : s \in OneThread} \cup [{1, 2} -> Racing]
==================================================================================
