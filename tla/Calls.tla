---------------------------------- MODULE Calls ----------------------------------
(***************************************************************************)
(* The calls a compiled kernel makes into libsar_runtime, and what becomes *)
(* of an error: the transforms and interpolations of a module become calls *)
(* (SARSignalToRuntime.cpp), the exported entry points check what they get *)
(* and note the first failure of their thread (SARRuntime.cpp), and the    *)
(* Python wrapper of a kernel clears and reads that note around a launch   *)
(* (runtime/__init__.py).  Any thread may also call the entry points       *)
(* itself, as the tests of the runtime do, and need not clear anything.    *)
(***************************************************************************)
EXTENDS Tensor

CONSTANTS
  Threads,
  Scripts,   \* the modules each thread launches, in order: functions on Threads
  Foreign,   \* the calls a thread makes on its own, before it launches anything
  IndexMax   \* INT64_MAX

VARIABLES
  script,  \* the modules a thread has still to launch, as calls
  pc,      \* "idle", "call", "returned"
  next,    \* the next call of the running kernel
  error,   \* lastRuntimeError, thread_local
  ran,     \* the calls of the running kernel that computed something
  raised   \* what the last launch told its caller

vars == <<script, pc, next, error, ran, raised>>

NoError == <<>>

-----------------------------------------------------------------------------
(***************************************************************************)
(* What the scripts and the foreign calls may hold.  An operation is one   *)
(* the pass lowers, with the operands and the attributes its definition in *)
(* SAROps.td has, on tensors whose elements an index can count; a call has *)
(* the descriptors of its symbol, with any contents.                       *)
(***************************************************************************)

SignalOps == {"fft", "ifft", "interp1d"}

Countable(shape) ==
  /\ shape \in Seq(Nat)
  /\ Len(shape) = 1 => shape[1] <= IndexMax
  /\ Len(shape) = 2 => shape[1] * shape[2] <= IndexMax

IsSignal(e) ==
  /\ e.op \in SignalOps /\ Countable(e.shape)
  /\ e.args \in Seq(Range(e.args)) /\ Len(e.args) = IF e.op = "interp1d" THEN 2 ELSE 1
  /\ \A k \in DOMAIN e.args : Countable(e.args[k].shape)
  /\ e.op = "interp1d" => e.mode \in STRING \X STRING \X STRING

IsDescriptor(d, rank) == d.offset \in Int /\ d.sizes \in [1..rank -> Int] /\ d.strides \in [1..rank -> Int]

IsCall(c) ==
  /\ c.symbol[1] \in {"fft", "interp1d"} /\ c.symbol[2] \in {1, 2}
  /\ DOMAIN c.buffers = 1..(IF c.symbol[1] = "fft" THEN 2 ELSE 3)
  /\ \A k \in DOMAIN c.buffers : IsDescriptor(c.buffers[k], c.symbol[2])

\* Every module of every script.
Modules == UNION {Range(s[t]) : s \in Scripts, t \in Threads}

ASSUME CallsAssumption ==
  /\ IndexMax \in Nat
  /\ \A s \in Scripts : s \in [Threads -> Seq(Modules)]
  /\ \A m \in Modules :
       /\ m.ops \in Seq(Range(m.ops))
       /\ \A e \in Range(m.ops) : IF e.op = "call" THEN IsCall(e.call) ELSE IsSignal(e)

-----------------------------------------------------------------------------
(***************************************************************************)
(* The verifier, for what Tensor leaves out: the mode of an interpolation  *)
(* is its kernel, window and boundary; attr its dim, taps and beta.        *)
(***************************************************************************)

KernelNames == <<"nearest", "linear", "cubic", "sinc">>
WindowNames == <<"rect", "hann", "hamming", "kaiser">>
BoundaryNames == <<"zero", "edge", "reflect">>
Named(names) == {names[k] : k \in DOMAIN names}

\* beta counts quarters.
VerifyInterpKernel(e) ==
  LET taps == e.attr[1][2]
      beta == e.attr[1][3]
  IN  /\ e.mode[1] \in Named(KernelNames) /\ e.mode[2] \in Named(WindowNames) /\ e.mode[3] \in Named(BoundaryNames)
      /\ e.mode[2] = "kaiser" => beta # NaN /\ beta > 0 /\ beta <= 48
      /\ e.mode[1] = "sinc" => taps >= 4 /\ taps <= 32 /\ taps % 2 = 0

VerifySignal(e) == Verified(e) /\ IsComplex(e.elem) /\ (e.op = "interp1d" => VerifyInterpKernel(e))

-----------------------------------------------------------------------------
(***************************************************************************)
(* Lowering to calls.                                                      *)
(***************************************************************************)

\* A descriptor as the identity layout of a tensor type gives it.
Descriptor(ptr, offset, sizes, strides) == [ptr |-> ptr, offset |-> offset, sizes |-> sizes, strides |-> strides]
Contiguous(shape) == Descriptor("data", 0, shape, IF Len(shape) = 1 THEN <<1>> ELSE <<shape[2], 1>>)

Symbol(e) == IF e.op = "interp1d" THEN <<"interp1d", 2, e.elem>> ELSE <<"fft", Rank(e), e.elem>>

\* StringSwitch: every other name is the last one.
IdOf(names, name) ==
  IF name \in Named(names) THEN (CHOOSE k \in DOMAIN names : names[k] = name) - 1 ELSE Len(names) - 1

FFTCall(e) ==
  [symbol |-> Symbol(e), buffers |-> <<Contiguous(e.shape), Contiguous(e.shape)>>,
   dim |-> Dim(e), inverse |-> e.op = "ifft"]
InterpCall(e) ==
  [symbol |-> Symbol(e), buffers |-> <<Contiguous(e.shape), Contiguous(e.args[2].shape), Contiguous(e.shape)>>,
   kernel |-> IdOf(KernelNames, e.mode[1]), taps |-> e.attr[1][2], window |-> IdOf(WindowNames, e.mode[2]),
   beta |-> e.attr[1][3], boundary |-> IdOf(BoundaryNames, e.mode[3])]

\* A symbol of that name that is not the runtime's declaration is an error.
Declarable(symbols, s) == s \in DOMAIN symbols => symbols[s] = "declaration"

\* What the lowering leaves of an operation; a call is one already.
Lowers(m, e) == e.op # "call" => Declarable(m.symbols, Symbol(e)) /\ (e.op = "interp1d" => Dim(e) = 1)
CallOf(e) == CASE e.op = "call" -> e.call [] e.op = "interp1d" -> InterpCall(e) [] OTHER -> FFTCall(e)

\* A module the verifier or the pass rejects is never launched.
Compiles(m) == \A k \in DOMAIN m.ops : (m.ops[k].op # "call" => VerifySignal(m.ops[k])) /\ Lowers(m, m.ops[k])
Compiled(m) == [ops |-> m.ops, calls |-> [k \in DOMAIN m.ops |-> CallOf(m.ops[k])]]

-----------------------------------------------------------------------------
(***************************************************************************)
(* The entry points.                                                       *)
(***************************************************************************)

InIndexRange(n) == n \in (0 - IndexMax - 1)..IndexMax

\* The sum over the dimensions of a descriptor; the rank is 1 or 2.
SumDims(f) == f[1] + (IF 2 \in DOMAIN f THEN f[2] ELSE 0)

\* How far dimension k leads from the first element.
Delta(d, k) == (d.sizes[k] - 1) * d.strides[k]

\* Mutated form: a stride counts the same in either direction.
LayoutUpwards(d) ==
  /\ d.ptr = "data"
  /\ \A k \in DOMAIN d.sizes : d.sizes[k] > 0 /\ d.strides[k] # 0
  /\ InIndexRange(d.offset + SumDims([k \in DOMAIN d.sizes |-> Delta(d, k)]))

\* requireDescriptorLayout: the lowest and the highest element are addressable.
DescriptorLayout(d) ==
  /\ d.ptr = "data"
  /\ \A k \in DOMAIN d.sizes : d.sizes[k] > 0 /\ d.strides[k] # 0
  /\ InIndexRange(d.offset + SumDims([k \in DOMAIN d.sizes |-> IF Delta(d, k) < 0 THEN Delta(d, k) ELSE 0]))
  /\ InIndexRange(d.offset + SumDims([k \in DOMAIN d.sizes |-> IF Delta(d, k) < 0 THEN 0 ELSE Delta(d, k)]))

SameSizes(a, b) == \A k \in DOMAIN a.sizes : a.sizes[k] = b.sizes[k]

\* The checks of an entry point, in order: the first that fails is the error.
FFTChecks(c) ==
  LET in == c.buffers[1]
      rank == c.symbol[2]
  IN  << <<"null descriptor", \A k \in DOMAIN c.buffers : c.buffers[k].ptr # "null">>,
         <<"dim", c.dim \in 0..(rank - 1)>>,
         <<"input layout", DescriptorLayout(in)>>,
         <<"output layout", DescriptorLayout(c.buffers[2])>>,
         <<"extent", (\A k \in DOMAIN in.sizes : in.sizes[k] > 0)
                     /\ (c.dim \in 0..(rank - 1) => in.sizes[c.dim + 1] >= 2)>>,
         <<"output shape", SameSizes(in, c.buffers[2])>> >>

\* Mutated form: the largest admitted number of taps is out of range.
TapsShort(taps) == taps >= 4 /\ taps < 32 /\ taps % 2 = 0

TapsInRange(taps) == taps >= 4 /\ taps <= 32 /\ taps % 2 = 0

\* With requireInterpArgs between the extents and the shapes.
InterpChecks(c) ==
  LET data == c.buffers[1]
  IN  << <<"null descriptor", \A k \in DOMAIN c.buffers : c.buffers[k].ptr # "null">>,
         <<"data layout", DescriptorLayout(data)>>,
         <<"positions layout", DescriptorLayout(c.buffers[2])>>,
         <<"output layout", DescriptorLayout(c.buffers[3])>>,
         <<"extents", \A k \in DOMAIN data.sizes : data.sizes[k] > 0>>,
         <<"unknown kernel", c.kernel \in 0..3>>,
         <<"unknown window", c.window \in 0..3>>,
         <<"unknown boundary", c.boundary \in 0..2>>,
         <<"taps", c.kernel = 3 => TapsInRange(c.taps)>>,
         <<"beta", c.window = 3 => c.beta # NaN /\ c.beta > 0 /\ c.beta <= 48>>,
         <<"positions shape", SameSizes(data, c.buffers[2])>>,
         <<"output shape", SameSizes(data, c.buffers[3])>> >>

Checks(c) == IF c.symbol[1] = "fft" THEN FFTChecks(c) ELSE InterpChecks(c)

Failed(c) == {k \in DOMAIN Checks(c) : ~Checks(c)[k][2]}

\* requireRuntime, check by check, from the error e: the first failure stays.
ErrorAfter(c, e) ==
  IF e # NoError \/ Failed(c) = {} THEN e
  ELSE LET first == CHOOSE k \in Failed(c) : \A j \in Failed(c) : k <= j
       IN  <<c.symbol, Checks(c)[first][1]>>

-----------------------------------------------------------------------------
(***************************************************************************)
(* Launches.                                                               *)
(***************************************************************************)

Kernel(t) == Head(script[t])

ForeignCall(t, c) ==
  /\ pc[t] = "idle"
  /\ error' = [error EXCEPT ![t] = ErrorAfter(c, @)]
  /\ UNCHANGED <<script, pc, next, ran, raised>>

\* Mutated form: the note of an earlier call stays.
LaunchUncleared(t) ==
  /\ pc[t] = "idle" /\ script[t] # <<>>
  /\ pc' = [pc EXCEPT ![t] = "call"]
  /\ next' = [next EXCEPT ![t] = 1]
  /\ ran' = [ran EXCEPT ![t] = {}]
  /\ UNCHANGED <<script, error, raised>>

\* CompiledKernel.__call__: the arguments are checked, the error is cleared.
Launch(t) ==
  /\ pc[t] = "idle" /\ script[t] # <<>>
  /\ pc' = [pc EXCEPT ![t] = "call"]
  /\ next' = [next EXCEPT ![t] = 1]
  /\ error' = [error EXCEPT ![t] = NoError]
  /\ ran' = [ran EXCEPT ![t] = {}]
  /\ UNCHANGED <<script, raised>>

\* An entry point computes nothing when its thread has an error, old or new.
EntryPoint(t) ==
  /\ pc[t] = "call" /\ next[t] <= Len(Kernel(t).calls)
  /\ error' = [error EXCEPT ![t] = ErrorAfter(Kernel(t).calls[next[t]], @)]
  /\ ran' = [ran EXCEPT ![t] = IF error'[t] = NoError THEN @ \cup {next[t]} ELSE @]
  /\ next' = [next EXCEPT ![t] = @ + 1]
  /\ UNCHANGED <<script, pc, raised>>

\* The kernel returns; an error becomes the LaunchError of the caller.
Return(t) ==
  /\ pc[t] = "call" /\ next[t] > Len(Kernel(t).calls)
  /\ pc' = [pc EXCEPT ![t] = "returned"]
  /\ raised' = [raised EXCEPT ![t] = error[t]]
  /\ UNCHANGED <<script, next, error, ran>>

Proceed(t) ==
  /\ pc[t] = "returned"
  /\ pc' = [pc EXCEPT ![t] = "idle"]
  /\ script' = [script EXCEPT ![t] = Tail(@)]
  /\ UNCHANGED <<next, error, ran, raised>>

Begin(s) ==
  /\ \A t \in Threads : \A k \in DOMAIN s[t] : Compiles(s[t][k])
  /\ script = [t \in Threads |-> [k \in DOMAIN s[t] |-> Compiled(s[t][k])]]
  /\ pc = [t \in Threads |-> "idle"]
  /\ next = [t \in Threads |-> 1]
  /\ error = [t \in Threads |-> NoError]
  /\ ran = [t \in Threads |-> {}]
  /\ raised = [t \in Threads |-> NoError]

Init == \E s \in Scripts : Begin(s)

Next ==
  \E t \in Threads :
    \/ \E c \in Foreign : ForeignCall(t, c)
    \/ Launch(t) \/ EntryPoint(t) \/ Return(t) \/ Proceed(t)

Spec == Init /\ [][Next]_vars

-----------------------------------------------------------------------------
(***************************************************************************)
(* Properties                                                              *)
(***************************************************************************)

Fails(c) == ErrorAfter(c, NoError) # NoError
FirstFault(calls) ==
  IF \E k \in DOMAIN calls : Fails(calls[k])
  THEN CHOOSE k \in DOMAIN calls : Fails(calls[k]) /\ \A m \in 1..(k - 1) : ~Fails(calls[m])
  ELSE Len(calls) + 1

\* A launch raises the first failure among its own calls and no other, of an
\* earlier launch, of another thread or of a call made around it; the calls
\* before it have computed and the ones after it have not.
RaisesOwnFirstError ==
  \A t \in Threads : pc[t] = "returned" =>
    \E n \in {FirstFault(Kernel(t).calls)} :
      /\ ran[t] = 1..(n - 1)
      /\ raised[t] = IF n > Len(Kernel(t).calls) THEN NoError ELSE ErrorAfter(Kernel(t).calls[n], NoError)

\* A call the compiler made from a verified operation satisfies every check of
\* its entry point, which samples with the kernel, window and boundary of the
\* operation: the verifier and the runtime keep the same ranges and the same
\* numbering.
VerifiedOpsAccepted ==
  \A t \in Threads : pc[t] = "call" =>
    \A k \in DOMAIN Kernel(t).calls :
      LET e == Kernel(t).ops[k]
          c == Kernel(t).calls[k]
      IN  e.op # "call" =>
            /\ ~Fails(c)
            /\ e.op = "interp1d" => e.mode = <<KernelNames[c.kernel + 1], WindowNames[c.window + 1],
                                              BoundaryNames[c.boundary + 1]>>

Addressed(d) == IF Len(d.sizes) = 1 THEN {<<i>> : i \in 0..(d.sizes[1] - 1)}
                ELSE (0..(d.sizes[1] - 1)) \X (0..(d.sizes[2] - 1))
Address(d, x) == d.offset + SumDims([k \in DOMAIN d.sizes |-> x[k] * d.strides[k]])

\* Every element of every buffer a call works on has an address that an index
\* type can hold, also with negative strides.
AddressesFit ==
  \A t \in Threads : pc[t] # "idle" => \A k \in ran[t] :
    LET c == Kernel(t).calls[k]
    IN  \A b \in DOMAIN c.buffers : \A x \in Addressed(c.buffers[1]) :
          InIndexRange(Address(c.buffers[b], x))
=============================================================================
