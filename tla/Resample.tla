------------------------------- MODULE Resample -------------------------------
(***************************************************************************)
(* Resampling a plane at the positions of an expression: sar.interp1d      *)
(* along the rows and sar.gather2d.  The runtime's sampler                 *)
(* (runtime/SARRuntime.cpp) and the full-plane gather2d                    *)
(* (SARToLinalg.cpp) are operators; the loop nests of the HLS path         *)
(* (SARInterpToAffine.cpp: direct, sliding band, complete row, band of     *)
(* rows) are a machine with one action per loop body, and the on-chip      *)
(* buffer they read is its state.                                          *)
(*                                                                         *)
(* Positions count quarters; weights and samples are numbers of Field.     *)
(***************************************************************************)
EXTENDS Displacement, Field, FiniteSets, Functions

CONSTANTS
  Jobs,   \* kind, positions (columns of a gather2d: cols), data, the attributes kernel,
          \* window, boundary, and the options banded, profit, rowCap, copies, bank
  Junk,   \* what the band holds before it is written
  Pi      \* the number the sines divide by

VARIABLES
  job,
  plan,   \* [strategy, lo, width] of the lowering
  pc,
  row, col,
  band,   \* on-chip buffer: by copy and slot, or by slot and column
  out

vars == <<job, plan, pc, row, col, band, out>>

Taps == 4
Half == 2
Quarter(n) == ((n % P) * Over(4)) % P
Floor(pos) == pos \div 4

Rows(j) == j.positions.shape[1]
Cols(j) == j.positions.shape[2]
SourceRows(j) == j.size[1]
SourceCols(j) == j.size[2]
Within(i, n) == i >= 0 /\ i < n
Clamp(i, n) == IF i < 0 THEN 0 ELSE IF i >= n THEN n - 1 ELSE i

\* First and last tap around the floor.
TapLo(kernel) == CASE kernel \in {"nearest", "linear"} -> 0 [] kernel = "cubic" -> -1 [] kernel = "sinc" -> 1 - Half
TapHi(kernel) == CASE kernel = "nearest" -> 0 [] kernel = "linear" -> 1 [] kernel = "cubic" -> 2 [] kernel = "sinc" -> Half

-----------------------------------------------------------------------------
(***************************************************************************)
(* Weights.  d is a distance, f a fraction, both in quarters.              *)
(***************************************************************************)

Total(f) == FoldFunction(+, 0, f) % P

\* The series of I0 at z, with u = z * z / 4; both sides stop where it is exact.
BesselI0(u) ==
  LET term[m \in 0..4] == IF m = 0 THEN 1 ELSE (((term[m - 1] * u) % P) * ((Over(m) * Over(m)) % P)) % P
  IN  Total(term)

KaiserBeta == 3
Kaiser(d) ==
  LET t == (Quarter(d) * Over(Half)) % P
      u == (((KaiserBeta * KaiserBeta) * Over(4)) * ((1 - t * t) % P)) % P
  IN  (BesselI0(u) * Over(BesselI0(((KaiserBeta * KaiserBeta) * Over(4)) % P))) % P

Mean(window) == IF window = "hann" THEN Over(2) ELSE (27 * Over(50)) % P
Swing(window) == IF window = "hann" THEN Over(2) ELSE (23 * Over(50)) % P

InterpWindow(window, d) ==
  CASE window = "rect" -> 1
    [] window \in {"hann", "hamming"} -> (Mean(window) + Swing(window) * Unit(d, 8 * Half)[1]) % P
    [] window = "kaiser" -> Kaiser(d)

Sinc(d) == IF d = 0 THEN 1 ELSE (Unit(d, 8)[2] * Over((Pi * Quarter(d)) % P)) % P

\* Keys, a = -1/2.
Cubic(k, f) ==
  LET s == Quarter(f)
      s2 == (s * s) % P
      s3 == (s2 * s) % P
      h == Over(2)
  IN  CASE k = -1 -> ((0 - h) * s3 + s2 - h * s) % P
        [] k = 0 -> (3 * h * s3 - 5 * h * s2 + 1) % P
        [] k = 1 -> ((0 - 3 * h) * s3 + 2 * s2 + h * s) % P
        [] k = 2 -> (h * s3 - h * s2) % P

\* The runtime's weight of tap k.
Weight(j, k, f) ==
  CASE j.kernel = "nearest" -> 1
    [] j.kernel = "linear" -> IF k = 0 THEN (1 - Quarter(f)) % P ELSE Quarter(f)
    [] j.kernel = "cubic" -> Cubic(k, f)
    [] j.kernel = "sinc" -> (Sinc(f - 4 * k) * InterpWindow(j.window, f - 4 * k)) % P

\* emitSincFactors, emitSincWeight: the sine and cosine of the position, and
\* what the offset of the tap makes of them.
SineOfTap(k, f) == IF k % 2 # 0 THEN (0 - Unit(f, 8)[2]) % P ELSE Unit(f, 8)[2]

SincWeight(j, k, f) ==
  LET d == f - 4 * k
      sinc == IF d = 0 THEN 1 ELSE (SineOfTap(k, f) * Over((Pi * Quarter(d)) % P)) % P
      a == Unit(f, 8 * Half)
      b == Unit(4 * k, 8 * Half)
      cosine == (a[1] * b[1] + a[2] * b[2]) % P
      taper == IF j.window = "rect" THEN 1
               ELSE IF j.window = "kaiser" THEN Kaiser(d)
               ELSE (Mean(j.window) + Swing(j.window) * cosine) % P
  IN  (sinc * taper) % P

EmittedWeight(j, k, f) == IF j.kernel = "sinc" THEN SincWeight(j, k, f) ELSE Weight(j, k, f)

-----------------------------------------------------------------------------
(***************************************************************************)
(* The two references.                                                     *)
(***************************************************************************)

\* The sample a tap reads, or -1.
ApplyBoundary(i, n, boundary) ==
  IF Within(i, n) THEN i
  ELSE IF boundary = "zero" THEN -1
  ELSE IF boundary = "edge" THEN Clamp(i, n)
  ELSE IF n = 1 THEN 0
  ELSE LET m == i % (2 * n) IN IF m < n THEN m ELSE 2 * n - m - 1

SampleInterp(j, i, pos) ==
  IF pos = NotFinite THEN 0
  ELSE LET base == IF j.kernel = "nearest" THEN pos + 2 ELSE pos
           at(k) == ApplyBoundary(Floor(base) + k, SourceCols(j), j.boundary)
       IN  Total([k \in TapLo(j.kernel)..TapHi(j.kernel) |->
                    IF at(k) < 0 THEN 0 ELSE j.data[<<i, at(k)>>] * Weight(j, k, base % 4)])

\* emitGather2DTaps: rows, columns and weights of the nearest sample or of the
\* four around; both lowerings of sar.gather2d_split emit these.
Part(k, f) == IF k = 0 THEN (1 - Quarter(f)) % P ELSE Quarter(f)

GatherTaps(j, rpos, cpos) ==
  LET near == j.kernel = "nearest"
      r == IF near THEN rpos + 2 ELSE rpos
      c == IF near THEN cpos + 2 ELSE cpos
      tap(k, l) ==
        LET i == Floor(r) + k
            m == Floor(c) + l
            w == IF near THEN 1 ELSE (Part(k, r % 4) * Part(l, c % 4)) % P
            inside == Within(i, SourceRows(j)) /\ Within(m, SourceCols(j))
        IN  [row |-> i, col |-> Clamp(m, SourceCols(j)),
             weight |-> IF j.boundary = "zero" /\ ~inside THEN 0 ELSE w]
  IN  IF NotFinite \in {rpos, cpos} THEN <<>>
      ELSE IF near THEN <<tap(0, 0)>> ELSE <<tap(0, 0), tap(0, 1), tap(1, 0), tap(1, 1)>>

FullPlaneGather(j, rpos, cpos) ==
  LET taps == GatherTaps(j, rpos, cpos)
  IN  Total([k \in DOMAIN taps |-> j.data[<<Clamp(taps[k].row, SourceRows(j)), taps[k].col>>] * taps[k].weight])

\* Bilinear interpolation, of the plane continued past its edges.
BilinearSample(j, rpos, cpos) ==
  LET near == j.kernel = "nearest"
      r == IF near THEN ((rpos + 2) \div 4) * 4 ELSE rpos
      c == IF near THEN ((cpos + 2) \div 4) * 4 ELSE cpos
      hat(n, x) == IF 4 * n - x \in -3..3 THEN 4 - (IF 4 * n > x THEN 4 * n - x ELSE x - 4 * n) ELSE 0
      at(x) == IF j.boundary = "zero" /\ x \notin DOMAIN j.data THEN 0
               ELSE j.data[<<Clamp(x[1], SourceRows(j)), Clamp(x[2], SourceCols(j))>>]
      near4(x) == (x \div 4)..((x \div 4) + 1)
  IN  IF NotFinite \in {rpos, cpos} THEN 0
      ELSE Total([x \in near4(r) \X near4(c) |->
                    at(x) * ((hat(x[1], r) * hat(x[2], c) * Over(16)) % P)])

-----------------------------------------------------------------------------
(***************************************************************************)
(* The choice of a strategy.                                               *)
(***************************************************************************)

NextPow2(n) == CHOOSE p \in {2 ^ e : e \in 0..n} : p >= n /\ (p = 1 \/ p \div 2 < n)

\* Mutated form: the band covers the displacement but not the taps.
BandOfNoTaps(range, kernel) ==
  LET lo == range.lo \div 4
      hi == DivUp(range.hi, 4)
  IN  [lo |-> lo, width |-> NextPow2(High({hi - lo, 1}))]

BandOf(range, kernel) ==
  LET lo == range.lo \div 4
      hi == DivUp(range.hi, 4)
  IN  [lo |-> lo + TapLo(kernel), width |-> NextPow2(High({hi - lo + TapHi(kernel) - TapLo(kernel) + 1, 1}))]

Strategy(name, lo, width) == [strategy |-> name, lo |-> lo, width |-> width]
Direct == Strategy("direct", 0, 0)

MayBand(j) == j.banded /\ j.boundary # "reflect"

Interp1DPlan(j) ==
  LET range == DisplacementRange(j.positions, 1)
      b == BandOf(range, j.kernel)
      slides == MayBand(j) /\ range.bounded /\ SourceCols(j) \div b.width >= j.profit
      whole == NextPow2(SourceCols(j))
      fits == j.banded /\ j.rowCap # 0 /\ whole * j.copies <= j.rowCap
  IN  IF fits /\ (~slides \/ b.width > j.bank) THEN Strategy("full_row", 0, whole)
      ELSE IF slides THEN Strategy("band", b.lo, b.width)
      ELSE Direct

Gather2DPlan(j) ==
  LET range == DisplacementRange(j.positions, 0)
      b == BandOf(range, IF j.kernel = "nearest" THEN "nearest" ELSE "linear")
  IN  IF j.banded /\ range.bounded /\ SourceRows(j) \div b.width >= j.profit
      THEN Strategy("rows", b.lo, b.width)
      ELSE Direct

\* The positions are recomputed in the gather when every operation allows it.
RECURSIVE CanScalarize(_)
CanScalarize(e) ==
  CASE e.op \in {"constant", "argument"} -> TRUE
    [] e.op \in {"add", "sub", "mul", "div", "cmp"} -> CanScalarize(e.l) /\ CanScalarize(e.r)
    [] e.op = "where" -> CanScalarize(e.mask) /\ CanScalarize(e.l) /\ CanScalarize(e.r)
    [] OTHER -> CanScalarize(e.arg)

PositionAt(j, i, k) ==
  IF j.kind = "interp1d" /\ CanScalarize(j.positions) THEN Scalarize(j.positions, <<i, k>>)
  ELSE Plane(j.positions)[<<i, k>>]

-----------------------------------------------------------------------------
(***************************************************************************)
(* The loop nests.                                                         *)
(***************************************************************************)

Slot(i) == i % plan.width

\* Column c of row i, clamped into the row, in every copy of its slot.
StageColumn(b, i, c) ==
  [x \in DOMAIN b |-> IF x[2] = Slot(c) THEN job.data[<<i, Clamp(c, SourceCols(job))>>] ELSE b[x]]

RECURSIVE StageColumns(_, _, _, _)
StageColumns(b, i, c, n) == IF n = 0 THEN b ELSE StageColumns(StageColumn(b, i, c), i, c + 1, n - 1)

\* emitInterpGather: index and weight of each tap; the loader resolves an index
\* outside the row, but for a mirrored one.
InterpTaps(j, pos) ==
  LET n == SourceCols(j)
      base == IF j.kernel = "nearest" THEN pos + 2 ELSE pos
      tap(k) == LET i == Floor(base) + k
                IN  [at |-> IF j.boundary = "reflect" THEN ApplyBoundary(i, n, "reflect") ELSE i,
                     weight |-> IF j.boundary = "zero" /\ ~Within(i, n) THEN 0
                                ELSE EmittedWeight(j, k, base % 4)]
  IN  IF pos = NotFinite THEN <<>> ELSE [k \in TapLo(j.kernel)..TapHi(j.kernel) |-> tap(k)]

\* The end of a loop body: the next column, or the next row.
Store(v, next) ==
  /\ out' = [out EXCEPT ![<<row, col>>] = v]
  /\ IF col + 1 < Cols(job) THEN col' = col + 1 /\ UNCHANGED <<row, pc>>
     ELSE /\ col' = 0
          /\ IF row + 1 < Rows(job) THEN row' = row + 1 /\ pc' = next
             ELSE row' = 0 /\ pc' = "done"

DirectColumn ==
  /\ pc = "direct"
  /\ \E taps \in {InterpTaps(job, PositionAt(job, row, col))} :
       Store(Total([k \in DOMAIN taps |-> job.data[<<row, Clamp(taps[k].at, SourceCols(job))>>] * taps[k].weight]),
             "direct")
  /\ UNCHANGED <<job, plan, band>>

\* All slots of a complete row, all but the newest of a band.
PrimeRow ==
  /\ pc = "prime"
  /\ band' = StageColumns(band, row, plan.lo, IF plan.strategy = "full_row" THEN plan.width ELSE plan.width - 1)
  /\ pc' = "slide"
  /\ UNCHANGED <<job, plan, row, col, out>>

\* A column of the sweep: the window advances by one, the taps read the copy
\* of their lane.
SlideColumn ==
  /\ pc = "slide"
  /\ \E b \in {IF plan.strategy = "full_row" THEN band
               ELSE StageColumn(band, row, col + plan.lo + plan.width - 1)},
        taps \in {InterpTaps(job, PositionAt(job, row, col))} :
       /\ band' = b
       /\ Store(Total([k \in DOMAIN taps |-> b[<<col % job.copies, Slot(taps[k].at)>>] * taps[k].weight]), "prime")
  /\ UNCHANGED <<job, plan>>

StageRow(b, i) ==
  [x \in DOMAIN b |-> IF x[1] = Slot(i) THEN job.data[<<Clamp(i, SourceRows(job)), x[2]>>] ELSE b[x]]

RECURSIVE StageRows(_, _, _)
StageRows(b, i, n) == IF n = 0 THEN b ELSE StageRows(StageRow(b, i), i + 1, n - 1)

\* The band of rows is primed once; each row of the output pushes one.
PrimeRows ==
  /\ pc = "prime_rows"
  /\ band' = StageRows(band, plan.lo, plan.width - 1)
  /\ pc' = "push"
  /\ UNCHANGED <<job, plan, row, col, out>>

PushRow ==
  /\ pc = "push"
  /\ band' = StageRow(band, row + plan.lo + plan.width - 1)
  /\ pc' = "gather"
  /\ UNCHANGED <<job, plan, row, col, out>>

GatherColumn ==
  /\ pc = "gather"
  /\ \E taps \in {GatherTaps(job, PositionAt(job, row, col), job.cols[<<row, col>>])} :
       Store(Total([k \in DOMAIN taps |-> band[<<Slot(taps[k].row), taps[k].col>>] * taps[k].weight]), "push")
  /\ UNCHANGED <<job, plan, band>>

\* What the band could not take is lowered with the linalg operations.
FullPlaneColumn ==
  /\ pc = "full"
  /\ Store(FullPlaneGather(job, PositionAt(job, row, col), job.cols[<<row, col>>]), "full")
  /\ UNCHANGED <<job, plan, band>>

-----------------------------------------------------------------------------
Begin ==
  /\ plan = IF job.kind = "interp1d" THEN Interp1DPlan(job) ELSE Gather2DPlan(job)
  /\ pc = CASE plan.strategy \in {"band", "full_row"} -> "prime"
            [] plan.strategy = "rows" -> "prime_rows"
            [] plan.strategy = "direct" -> IF job.kind = "interp1d" THEN "direct" ELSE "full"
  /\ row = 0 /\ col = 0
  /\ band = [x \in CASE plan.strategy \in {"band", "full_row"} -> (0..(job.copies - 1)) \X (0..(plan.width - 1))
                     [] plan.strategy = "rows" -> (0..(plan.width - 1)) \X (0..(SourceCols(job) - 1))
                     [] plan.strategy = "direct" -> {} |-> Junk]
  /\ out = [x \in Indices(job.positions.shape) |-> Junk]

Init == job \in Jobs /\ Begin

Next ==
  \/ DirectColumn \/ PrimeRow \/ SlideColumn
  \/ PrimeRows \/ PushRow \/ GatherColumn \/ FullPlaneColumn

Spec == Init /\ [][Next]_vars

-----------------------------------------------------------------------------
(***************************************************************************)
(* Properties                                                              *)
(***************************************************************************)

\* The compiler's bound on position minus coordinate holds of every position
\* the program computes, rounding of f32 operations included, so that a band
\* derived from it covers what the gather reads (computeDisplacementRange).
DisplacementSound ==
  LET dim == IF job.kind = "interp1d" THEN 1 ELSE 0
      range == DisplacementRange(job.positions, dim)
  IN  range.bounded => \A x \in Indices(job.positions.shape) :
        \E v \in {Scalarize(job.positions, x)} :
          v # NotFinite => v - 4 * x[dim + 1] \in range.lo..range.hi

\* Whatever the lowering keeps on chip, a resampled element is the one the
\* reference computes: the runtime's sample of the row at the position for
\* interp1d, the bilinear or nearest sample of the plane for gather2d.
SamplesAgree ==
  pc = "done" => \A x \in DOMAIN out :
    \E pos \in {Plane(job.positions)} :
      out[x] = IF job.kind = "interp1d" THEN SampleInterp(job, x[1], pos[x])
               ELSE BilinearSample(job, pos[x], job.cols[x])
=============================================================================
