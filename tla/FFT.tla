--------------------------------- MODULE FFT ---------------------------------
(***************************************************************************)
(* The Fourier transform of a plane along one axis, in the two forms the   *)
(* compiler gives it: the runtime's (runtime/SARRuntime.cpp: radix-2 and   *)
(* Bluestein, line by line), as operators, and the loop nests the HLS path *)
(* gets (SARFFTToAffine.cpp: Stockham stages over blocks of lines), as a   *)
(* machine with one action per nest.                                       *)
(*                                                                         *)
(* A plane or an on-chip block is a function on pairs: row and column, or  *)
(* lane and element.  A vector is a plane of one row.                      *)
(***************************************************************************)
EXTENDS Field, FiniteSets

CONSTANTS
  Jobs,  \* transforms: rank, dim, rows, cols, inverse, the plane, and the options
         \* stageGroup, parallelRows, ioUnroll of the lowering
  Junk   \* what a buffer holds before it is written

VARIABLES
  job,
  pc,     \* the next loop nest
  block,  \* blockIV, or the line of a Bluestein transform
  sub,    \* first lane of the sub-block in the engine
  t,      \* Stockham stage
  mem     \* the planes and the blocks, by name

vars == <<job, pc, block, sub, t, mem>>

Least(a, b) == IF a < b THEN a ELSE b
Most(a, b) == IF a > b THEN a ELSE b
Steps(n, s) == {k * s : k \in 0..((n - 1) \div s)}
PowerOfTwo(n) == \E e \in 0..n : 2 ^ e = n
NextPowerOf2(n) == CHOOSE m \in {2 ^ e : e \in 1..n} : m >= n /\ m < 2 * n

Length(j) == IF j.rank = 1 \/ j.dim = 1 THEN j.cols ELSE j.rows
Lines(j) == IF j.rank = 1 THEN 1 ELSE IF j.dim = 1 THEN j.rows ELSE j.cols
At(j, l, k) == IF j.rank = 2 /\ j.dim = 0 THEN <<k, l>> ELSE <<l, k>>

\* What numpy.fft.fft and ifft say of a line.
DFT(x, n, inverse) ==
  [k \in 0..(n - 1) |->
     LET term == [i \in 0..(n - 1) |-> Times(x[i], Unit(IF inverse THEN i * k ELSE 0 - i * k, n))]
     IN  Scale(Sum(term, n), IF inverse THEN Over(n) ELSE 1)]

-----------------------------------------------------------------------------
(***************************************************************************)
(* The runtime.                                                            *)
(***************************************************************************)

RECURSIVE Bitrev(_, _)
Bitrev(i, n) == IF n = 1 THEN 0 ELSE (i % 2) * (n \div 2) + Bitrev(i \div 2, n \div 2)

RECURSIVE Butterflies(_, _, _, _)
Butterflies(x, n, len, inverse) ==
  IF len > n THEN x
  ELSE LET half == len \div 2
           w(k) == IF inverse THEN Conj(Unit(0 - k, len)) ELSE Unit(0 - k, len)
           y == [i \in 0..(n - 1) |->
                  IF i % len < half
                  THEN Plus(x[i], Times(x[i + half], w(i % len)))
                  ELSE Minus(x[i - half], Times(x[i], w((i % len) - half)))]
       IN  Butterflies(y, n, 2 * len, inverse)

\* In place: the permutation, the stages, the scale of an inverse.
FFTPlanRun(x, n, inverse) ==
  LET permuted == [i \in 0..(n - 1) |-> x[Bitrev(i, n)]]
      y == Butterflies(permuted, n, 2, inverse)
  IN  IF inverse THEN [i \in 0..(n - 1) |-> Scale(y[i], Over(n))] ELSE y

Chirp(n) == [k \in 0..(n - 1) |-> Unit(0 - (((k % (2 * n)) * k) % (2 * n)), 2 * n)]

\* Mutated form: a period that lets the two ends of the kernel meet.
PaddedShort(n) == NextPowerOf2(n)

Padded(n) == NextPowerOf2(2 * n - 1)

ChirpKernel(n, m) ==
  [i \in 0..(m - 1) |-> IF i < n THEN Conj(Chirp(n)[i])
                        ELSE IF m - i < n THEN Conj(Chirp(n)[m - i]) ELSE Zero]

BluesteinForward(x, n) ==
  LET m == Padded(n)
      a == [i \in 0..(m - 1) |-> IF i < n THEN Times(x[i], Chirp(n)[i]) ELSE Zero]
      spec == FFTPlanRun(a, m, FALSE)
      bSpec == FFTPlanRun(ChirpKernel(n, m), m, FALSE)
      conv == FFTPlanRun([i \in 0..(m - 1) |-> Times(spec[i], bSpec[i])], m, TRUE)
  IN  [k \in 0..(n - 1) |-> Times(conv[k], Chirp(n)[k])]

LinePlanRun(x, n, inverse) ==
  IF PowerOfTwo(n) THEN FFTPlanRun(x, n, inverse)
  ELSE IF inverse
       THEN LET y == BluesteinForward([k \in 0..(n - 1) |-> Conj(x[k])], n)
            IN  [k \in 0..(n - 1) |-> Scale(Conj(y[k]), Over(n))]
       ELSE BluesteinForward(x, n)

\* fft1d and fft2d, a line of the plane: the lines share nothing but the plan.
RuntimeLine(j, l) ==
  LinePlanRun([k \in 0..(Length(j) - 1) |-> j.plane[At(j, l, k)]], Length(j), j.inverse)

-----------------------------------------------------------------------------
(***************************************************************************)
(* The schedule of a Stockham transform.                                   *)
(***************************************************************************)

RadixSchedule(len) ==
  LET e == CHOOSE k \in 0..len : 2 ^ k = len
  IN  (IF e % 2 = 1 THEN <<2>> ELSE <<>>) \o [i \in 1..(e \div 2) |-> 4]

\* Mutated form: a grouped pool may have a single line.
ScratchSlotsUnfloored(stages, group) ==
  LET between == stages - 1
      groups == (stages + group - 1) \div group
  IN  IF between <= 0 THEN 0
      ELSE IF group = 0 THEN between
      ELSE Least(between, Most(groups - 1, 1))

ScratchSlots(stages, group) ==
  LET between == stages - 1
      groups == (stages + group - 1) \div group
  IN  IF between <= 0 THEN 0
      ELSE IF group = 0 THEN between
      ELSE Least(between, Most(groups - 1, 2))

RECURSIVE Halved(_, _)
Halved(x, n) == IF x > 1 /\ n % x # 0 THEN Halved(x \div 2, n) ELSE x

SlowAxis(j) == j.rank = 2 /\ j.dim = 0
Io(j) == LET extent == IF SlowAxis(j) THEN Lines(j) ELSE Length(j)
         IN  Halved(Least(Most(1, j.ioUnroll), extent), extent)
RowLanes(j) == Halved(Least(Most(1, j.parallelRows), Lines(j)), Lines(j))
TransferLanes(j) == IF SlowAxis(j) THEN Most(RowLanes(j), Io(j)) ELSE RowLanes(j)

Lanes(j) == Halved(RowLanes(j), TransferLanes(j))

\* The transform a phase runs: its length and lanes, the lines it reads, works
\* in and leaves its result in.
Flight(j, phase) ==
  IF phase = "stages"
  THEN [len |-> Length(j), lanes |-> Lanes(j), src |-> <<"src", 0>>, dst |-> <<"dst", 0>>,
        pool |-> "scratch", inverse |-> j.inverse, scaled |-> j.inverse]
  ELSE IF phase = "forward"
  THEN [len |-> Padded(Length(j)), lanes |-> 1, src |-> <<"stage", 0>>, dst |-> <<"spec", 0>>,
        pool |-> "fwd", inverse |-> FALSE, scaled |-> FALSE]
  ELSE [len |-> Padded(Length(j)), lanes |-> 1, src |-> <<"prod", 0>>, dst |-> <<"conv", 0>>,
        pool |-> "inv", inverse |-> TRUE, scaled |-> FALSE]

NumStages(f) == Len(RadixSchedule(f.len))
Target(j, f, n) == IF n = NumStages(f) - 1 THEN f.dst
                   ELSE <<f.pool, n % ScratchSlots(NumStages(f), j.stageGroup)>>
Source(j, f, n) == IF n = 0 THEN f.src ELSE Target(j, f, n - 1)
Span(f, n) == LET s[k \in 0..n] == IF k = 0 THEN 1 ELSE s[k - 1] * RadixSchedule(f.len)[k] IN s[n]

\* Names and extents of the allocations.
Buffers(j) ==
  LET block2(lanes, len) == (0..(lanes - 1)) \X (0..(len - 1))
      pool(f) == {<<f.pool, i>> : i \in 0..(ScratchSlots(NumStages(f), j.stageGroup) - 1)}
      plane == (0..(j.rows - 1)) \X (0..(j.cols - 1))
      m == Padded(Length(j))
      own == IF PowerOfTwo(Length(j))
             THEN {<<<<"src", 0>>, block2(TransferLanes(j), Length(j))>>,
                   <<<<"dst", 0>>, block2(TransferLanes(j), Length(j))>>}
                  \cup {<<b, block2(Lanes(j), Length(j))>> : b \in pool(Flight(j, "stages"))}
             ELSE {<<b, block2(1, m)>> :
                     b \in {<<"stage", 0>>, <<"spec", 0>>, <<"prod", 0>>, <<"conv", 0>>}
                           \cup pool(Flight(j, "forward")) \cup pool(Flight(j, "inverse"))}
  IN  own \cup {<<<<"out", 0>>, plane>>}

Loaded(b, x) == IF x \in DOMAIN b THEN b[x] ELSE Junk

-----------------------------------------------------------------------------
(***************************************************************************)
(* The loop nests.                                                         *)
(***************************************************************************)

DFT2(x) == <<Plus(x[0], x[1]), Minus(x[0], x[1])>>

\* The radix-4 butterfly as the code writes it out on the two planes.
DFT4(x, inverse) ==
  LET re(k) == x[k][1]
      im(k) == x[k][2]
      one == <<((re(0) + im(1)) - (re(2) + im(3))) % P, ((im(0) - re(1)) + (re(3) - im(2))) % P>>
      three == <<((re(0) - im(1)) + (im(3) - re(2))) % P, ((im(0) + re(1)) - (im(2) + re(3))) % P>>
      even == Plus(x[0], x[2])
      odd == Plus(x[1], x[3])
  IN  <<Plus(even, odd), IF inverse THEN three ELSE one,
        Minus(even, odd), IF inverse THEN one ELSE three>>

\* One element of what stage n stores: butterfly p, q of its radix, output k.
StageValue(j, f, n, lane, src, e) ==
  LET radix == RadixSchedule(f.len)[n + 1]
      span == Span(f, n)
      m == (f.len \div span) \div radix
      q == e % span
      k == (e \div span) % radix
      p == (e \div span) \div radix
      x == [i \in 0..(radix - 1) |-> Loaded(mem[src], <<lane, q + (p + i * m) * span>>)]
      y == IF radix = 2 THEN DFT2(x) ELSE DFT4(x, f.inverse)
      w == Unit(p * k, f.len \div span)
      z == IF k = 0 THEN y[1] ELSE Times(y[k + 1], IF f.inverse THEN w ELSE Conj(w))
  IN  Scale(z, IF f.scaled /\ n = NumStages(f) - 1 THEN Over(f.len) ELSE 1)

\* emitStockham, stage t: the first reads and the last writes the transfer
\* block at the lanes of the sub-block.  A stage in place reads its own output.
Stage ==
  LET f == Flight(job, pc)
      src == Source(job, f, t)
      dst == Target(job, f, t)
      from == IF t = 0 THEN sub ELSE 0
      to == IF t = NumStages(f) - 1 THEN sub ELSE 0
  IN  /\ mem' = [mem EXCEPT ![dst] = [x \in DOMAIN @ |->
            IF x[1] \notin to..(to + f.lanes - 1) THEN @[x]
            ELSE IF src = dst THEN Junk
            ELSE StageValue(job, f, t, x[1] - to + from, src, x[2])]]
      /\ t' = (t + 1) % NumStages(f)
      /\ UNCHANGED <<job, block>>

IsLastStage == t = NumStages(Flight(job, pc)) - 1

\* A sub-block of the transfer block, and its write-back after the last one.
Butterfly ==
  /\ pc = "stages"
  /\ Stage
  /\ LET next == sub + Lanes(job)
     IN  IF ~IsLastStage THEN UNCHANGED <<pc, sub>>
         ELSE IF next < TransferLanes(job) THEN sub' = next /\ UNCHANGED pc
         ELSE sub' = 0 /\ pc' = "write"

ForwardStage ==
  /\ pc = "forward"
  /\ Stage
  /\ pc' = IF IsLastStage THEN "product" ELSE pc
  /\ UNCHANGED sub

InverseStage ==
  /\ pc = "inverse"
  /\ Stage
  /\ pc' = IF IsLastStage THEN "post" ELSE pc
  /\ UNCHANGED sub

\* Lanes and elements an emitted transfer sweep touches: runs of gcd(io, lanes)
\* lanes for a column, of io elements for a row.
Swept(j) ==
  LET lanes == TransferLanes(j)
      run == CHOOSE g \in 1..lanes : /\ lanes % g = 0 /\ Io(j) % g = 0
                                     /\ \A h \in (g + 1)..lanes : lanes % h # 0 \/ Io(j) % h # 0
  IN  IF SlowAxis(j)
      THEN {<<l + b, e>> : l \in Steps(lanes, run), b \in 0..(run - 1), e \in 0..(Length(j) - 1)}
      ELSE {<<l, e + b>> : l \in 0..(lanes - 1), e \in Steps(Length(j), Io(j)), b \in 0..(Io(j) - 1)}

Prefetch ==
  /\ pc = "prefetch"
  /\ mem' = [mem EXCEPT ![<<"src", 0>>] = [x \in DOMAIN @ |->
       IF x \in Swept(job) THEN Loaded(job.plane, At(job, block + x[1], x[2])) ELSE @[x]]]
  /\ pc' = "stages"
  /\ UNCHANGED <<job, block, sub, t>>

\* The line after this block or line, or the end.
Advance(by, first) ==
  IF block + by < Lines(job) THEN block' = block + by /\ pc' = first
  ELSE block' = 0 /\ pc' = "done"

WriteBack ==
  /\ pc = "write"
  /\ mem' = [mem EXCEPT ![<<"out", 0>>] = [x \in DOMAIN @ |->
       LET hit == {y \in Swept(job) : At(job, block + y[1], y[2]) = x}
       IN  IF hit = {} THEN @[x] ELSE Loaded(mem[<<"dst", 0>>], CHOOSE y \in hit : TRUE)]]
  /\ Advance(TransferLanes(job), "prefetch")
  /\ UNCHANGED <<job, sub, t>>

\* emitBluestein: the chirp and the zero padding ...
PreMultiply ==
  /\ pc = "pre"
  /\ LET n == Length(job)
         x(k) == job.plane[At(job, block, k)]
     IN  mem' = [mem EXCEPT ![<<"stage", 0>>] = [y \in DOMAIN @ |->
           IF y[2] >= n THEN Zero
           ELSE Times(IF job.inverse THEN Conj(x(y[2])) ELSE x(y[2]), Chirp(n)[y[2]])]]
  /\ pc' = "forward"
  /\ UNCHANGED <<job, block, sub, t>>

\* ... the kernel spectrum, folded by hostFFT at compile time ...
HostFFT(x, m) == Butterflies([i \in 0..(m - 1) |-> x[Bitrev(i, m)]], m, 2, FALSE)

Product ==
  /\ pc = "product"
  /\ LET m == Padded(Length(job))
     IN  \E kernel \in {HostFFT(ChirpKernel(Length(job), m), m)} :
           mem' = [mem EXCEPT ![<<"prod", 0>>] = [y \in DOMAIN @ |->
                     Times(mem[<<"spec", 0>>][y], kernel[y[2]])]]
  /\ pc' = "inverse"
  /\ UNCHANGED <<job, block, sub, t>>

\* ... and the chirp again, with the scales of both transforms.
PostMultiply ==
  /\ pc = "post"
  /\ LET n == Length(job)
         scale == (Over(Padded(n)) * (IF job.inverse THEN Over(n) ELSE 1)) % P
         v(k) == Times(mem[<<"conv", 0>>][<<0, k>>], Chirp(n)[k])
     IN  mem' = [mem EXCEPT ![<<"out", 0>>] = [x \in DOMAIN @ |->
           LET ks == {k \in 0..(n - 1) : At(job, block, k) = x}
           IN  IF ks = {} THEN @[x]
               ELSE \* the last statement of the nest stores both planes
                    LET k == CHOOSE k \in ks : TRUE
                    IN  Scale(IF job.inverse THEN Conj(v(k)) ELSE v(k), scale)]]
  /\ Advance(1, "pre")
  /\ UNCHANGED <<job, sub, t>>

-----------------------------------------------------------------------------
\* FFTSplitToAffinePattern: allocations, and which of the two forms is emitted.
Begin ==
  /\ pc = IF PowerOfTwo(Length(job)) THEN "prefetch" ELSE "pre"
  /\ block = 0 /\ sub = 0 /\ t = 0
  /\ mem = [b \in {a[1] : a \in Buffers(job)} |->
              [x \in (CHOOSE a \in Buffers(job) : a[1] = b)[2] |-> Junk]]

Init == job \in Jobs /\ Begin

Next ==
  \/ Prefetch \/ Butterfly \/ WriteBack
  \/ PreMultiply \/ ForwardStage \/ Product \/ InverseStage \/ PostMultiply

Spec == Init /\ [][Next]_vars

-----------------------------------------------------------------------------
(***************************************************************************)
(* Properties                                                              *)
(***************************************************************************)

\* However a line is blocked, banked and staged, the loop nests compute what
\* the runtime computes for the same operation, and that is the DFT of the line
\* (scaled by its length in the inverse), for powers of two and other lengths.
BackendsAgree ==
  pc = "done" => \A l \in 0..(Lines(job) - 1) :
    \E dft \in {DFT([k \in 0..(Length(job) - 1) |-> job.plane[At(job, l, k)]],
                    Length(job), job.inverse)} :
    \E run \in {RuntimeLine(job, l)} :
      \A k \in 0..(Length(job) - 1) :
        /\ run[k] = dft[k]
        /\ mem[<<"out", 0>>][At(job, l, k)] = dft[k]

\* The stages are a chain, as a dataflow region needs them: none works in place,
\* and with the full unroll every line has one stage that writes it, in the two
\* transforms of a Bluestein line together (emitStockham, scratchSlots).
StagesAreAChain ==
  LET phases == IF PowerOfTwo(Length(job)) THEN {"stages"} ELSE {"forward", "inverse"}
      writers == UNION {{<<ph, n>> : n \in 0..(NumStages(Flight(job, ph)) - 1)} : ph \in phases}
      target(w) == Target(job, Flight(job, w[1]), w[2])
  IN  /\ \A w \in writers : target(w) # Source(job, Flight(job, w[1]), w[2])
      /\ job.stageGroup = 0 => \A w, v \in writers : target(w) = target(v) => w = v
=============================================================================
