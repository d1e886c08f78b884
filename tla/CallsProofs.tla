------------------------------- MODULE CallsProofs -------------------------------
(***************************************************************************)
(* Calls for any number of threads, any scripts and any foreign calls: a   *)
(* launch raises the first failure of its own calls and no other, a call   *)
(* made from a verified operation is accepted, and every element a call    *)
(* works on has an address that an index can hold.                         *)
(***************************************************************************)
EXTENDS Calls, SequenceTheorems, TLAPS

-----------------------------------------------------------------------------
(***************************************************************************)
(* The first failure.                                                      *)
(***************************************************************************)

\* An error is never the absence of one.
LEMMA ErrorIsNoted ==
  ASSUME NEW c
  PROVE  /\ Fails(c) <=> Failed(c) # {}
         /\ \A e : ErrorAfter(c, e) = IF e # NoError THEN e ELSE ErrorAfter(c, NoError)
  BY DEF Fails, ErrorAfter, NoError

\* FirstFault is the least index that fails.
LEMMA FirstFaultIs ==
  ASSUME NEW calls, DOMAIN calls \subseteq Nat, NEW n \in DOMAIN calls,
         Fails(calls[n]), 1..(n - 1) \subseteq DOMAIN calls,
         \A k \in 1..(n - 1) : ~Fails(calls[k]), \A k \in DOMAIN calls : k >= 1
  PROVE  FirstFault(calls) = n
<1> DEFINE First(k) == Fails(calls[k]) /\ \A m \in 1..(k - 1) : ~Fails(calls[m])
<1> DEFINE found == CHOOSE k \in DOMAIN calls : First(k)
<1>1. First(n)
  OBVIOUS
<1>2. found \in DOMAIN calls /\ First(found)
  BY <1>1
<1>3. found = n
  <2> HIDE DEF found
  <2>1. ~(found < n)
    BY <1>2
  <2>2. ~(n < found)
    BY <1>2
  <2> QED  BY <1>2, <2>1, <2>2
<1> QED  BY <1>3 DEF FirstFault

-----------------------------------------------------------------------------
(***************************************************************************)
(* What a loaded module is.                                                *)
(***************************************************************************)

Kernels == {Compiled(m) : m \in {n \in Modules : Compiles(n)}}

LEMMA KernelShape ==
  ASSUME NEW l \in Kernels
  PROVE  /\ Len(l.calls) \in Nat
         /\ DOMAIN l.calls = 1..Len(l.calls)
         /\ DOMAIN l.ops = 1..Len(l.calls)
         /\ \A k \in DOMAIN l.calls : l.calls[k] = CallOf(l.ops[k])
<1>1. PICK m \in Modules : l = Compiled(m) /\ Compiles(m)
  BY DEF Kernels
<1>2. m.ops \in Seq(Range(m.ops))
  BY CallsAssumption
<1>3. DOMAIN m.ops = 1..Len(m.ops) /\ Len(m.ops) \in Nat
  BY <1>2
<1>4. l.ops = m.ops /\ l.calls = [k \in DOMAIN m.ops |-> CallOf(m.ops[k])]
  BY <1>1 DEF Compiled
<1>5. l.calls \in Seq({CallOf(m.ops[k]) : k \in DOMAIN m.ops}) /\ Len(l.calls) = Len(m.ops)
  BY <1>3, <1>4
<1> QED  BY <1>3, <1>4, <1>5

-----------------------------------------------------------------------------
(***************************************************************************)
(* The inductive invariant.  While a kernel runs, the note of its thread   *)
(* is that of the calls made so far: none, and all of them computed, or    *)
(* that of the first that failed, and the ones before it computed.         *)
(***************************************************************************)

\* What `upto` calls leave behind: the note e, and the set of those that ran.
Noted(calls, upto, e, done) ==
  \/ e = NoError /\ done = 1..upto /\ \A k \in 1..upto : ~Fails(calls[k])
  \/ \E n \in 1..upto :
       /\ Fails(calls[n]) /\ e = ErrorAfter(calls[n], NoError)
       /\ done = 1..(n - 1) /\ \A k \in 1..(n - 1) : ~Fails(calls[k])

TypeInv ==
  /\ script \in [Threads -> Seq(Kernels)]
  /\ pc \in [Threads -> {"idle", "call", "returned"}]
  /\ next \in [Threads -> Nat]
  /\ DOMAIN error = Threads /\ DOMAIN ran = Threads /\ DOMAIN raised = Threads

Calling(t) ==
  pc[t] = "call" => /\ next[t] \in 1..(Len(Kernel(t).calls) + 1)
                    /\ Noted(Kernel(t).calls, next[t] - 1, error[t], ran[t])

Returned(t) == pc[t] = "returned" => Noted(Kernel(t).calls, Len(Kernel(t).calls), raised[t], ran[t])

ThreadInv(t) == (pc[t] # "idle" => script[t] # <<>>) /\ Calling(t) /\ Returned(t)

IInv == TypeInv /\ \A t \in Threads : ThreadInv(t)

LEMMA RunningKernel ==
  ASSUME TypeInv, NEW t \in Threads, script[t] # <<>>
  PROVE  /\ Kernel(t) \in Kernels
         /\ script[t] \in Seq(Kernels)
         /\ Tail(script[t]) \in Seq(Kernels)
  BY DEF TypeInv, Kernel

\* One more call.
LEMMA NotedStep ==
  ASSUME NEW calls, NEW n \in Nat, NEW e, NEW done, Noted(calls, n, e, done)
  PROVE  Noted(calls, n + 1, ErrorAfter(calls[n + 1], e),
               IF ErrorAfter(calls[n + 1], e) = NoError THEN done \cup {n + 1} ELSE done)
<1>1. CASE e = NoError /\ done = 1..n /\ \A k \in 1..n : ~Fails(calls[k])
  <2>1. CASE Fails(calls[n + 1])
    BY <1>1, <2>1 DEF Noted, Fails
  <2>2. CASE ~Fails(calls[n + 1])
    <3>1. ErrorAfter(calls[n + 1], e) = NoError
      BY <1>1, <2>2 DEF Fails
    <3>2. done \cup {n + 1} = 1..(n + 1) /\ \A k \in 1..(n + 1) : ~Fails(calls[k])
      BY <1>1, <2>2
    <3> QED  BY <3>1, <3>2 DEF Noted
  <2> QED  BY <2>1, <2>2
<1>2. CASE \E m \in 1..n : /\ Fails(calls[m]) /\ e = ErrorAfter(calls[m], NoError)
                           /\ done = 1..(m - 1) /\ \A k \in 1..(m - 1) : ~Fails(calls[k])
  <2>1. e # NoError
    BY <1>2 DEF Fails
  <2>2. ErrorAfter(calls[n + 1], e) = e
    BY <2>1 DEF ErrorAfter
  <2>3. 1..n \subseteq 1..(n + 1)
    OBVIOUS
  <2> QED  BY <1>2, <2>1, <2>2, <2>3 DEF Noted
<1> QED  BY <1>1, <1>2 DEF Noted

LEMMA InitInv == Init => IInv
<1> SUFFICES ASSUME NEW s \in Scripts, Begin(s)
             PROVE  IInv
  BY DEF Init
<1>1. \A t \in Threads : s[t] \in Seq(Modules) /\ DOMAIN s[t] = 1..Len(s[t])
  BY CallsAssumption
<1>2. \A t \in Threads : \A k \in DOMAIN s[t] : Compiled(s[t][k]) \in Kernels
  BY <1>1 DEF Begin, Kernels
<1>3. \A t \in Threads : [k \in DOMAIN s[t] |-> Compiled(s[t][k])] \in Seq(Kernels)
  BY <1>1, <1>2
<1> QED  BY <1>3 DEF Begin, IInv, TypeInv, ThreadInv, Calling, Returned

LEMMA NextInv == IInv /\ [Next]_vars => IInv'
<1> SUFFICES ASSUME IInv, [Next]_vars
             PROVE  IInv'
  OBVIOUS
<1> USE DEF IInv
<1>1. ASSUME NEW t \in Threads, NEW c \in Foreign, ForeignCall(t, c)
      PROVE  IInv'
  BY <1>1 DEF ForeignCall, TypeInv, ThreadInv, Calling, Returned, Kernel
<1>2. ASSUME NEW t \in Threads, Launch(t)
      PROVE  IInv'
  <2>1. TypeInv'
    BY <1>2 DEF Launch, TypeInv
  <2>2. ThreadInv(t)'
    <3>1. Len(Kernel(t).calls) \in Nat
      BY <1>2, RunningKernel, KernelShape DEF Launch
    <3>2. Calling(t)'
      BY <1>2, <3>1 DEF Launch, TypeInv, Calling, Noted, Kernel
    <3> QED  BY <1>2, <3>2 DEF Launch, TypeInv, ThreadInv, Returned
  <2>3. \A u \in Threads \ {t} : ThreadInv(u)'
    BY <1>2 DEF Launch, TypeInv, ThreadInv, Calling, Returned, Kernel
  <2> QED  BY <2>1, <2>2, <2>3
<1>3. ASSUME NEW t \in Threads, EntryPoint(t)
      PROVE  IInv'
  <2>1. TypeInv'
    BY <1>3 DEF EntryPoint, TypeInv
  <2>2. ThreadInv(t)'
    <3> DEFINE calls == Kernel(t).calls
    <3>1. /\ next[t] \in 1..Len(calls) /\ Len(calls) \in Nat
          /\ Noted(calls, next[t] - 1, error[t], ran[t])
      BY <1>3, RunningKernel, KernelShape DEF EntryPoint, ThreadInv, Calling, TypeInv
    <3>2. /\ next'[t] = next[t] + 1 /\ pc'[t] = "call" /\ script' = script
          /\ error'[t] = ErrorAfter(calls[next[t]], error[t])
          /\ ran'[t] = IF error'[t] = NoError THEN ran[t] \cup {next[t]} ELSE ran[t]
      BY <1>3 DEF EntryPoint, TypeInv
    <3>3. Noted(calls, next[t], error'[t], ran'[t])
      <4> HIDE DEF calls
      <4>1. next[t] - 1 \in Nat /\ (next[t] - 1) + 1 = next[t]
        BY <3>1
      <4> DEFINE e == ErrorAfter(calls[next[t]], error[t])
      <4>2. Noted(calls, next[t], e, IF e = NoError THEN ran[t] \cup {next[t]} ELSE ran[t])
        BY <3>1, <4>1, NotedStep
      <4> QED  BY <3>2, <4>2
    <3>4. Calling(t)'
      BY <3>1, <3>2, <3>3 DEF Calling, Kernel
    <3> QED  BY <1>3, <3>2, <3>4 DEF ThreadInv, Returned, EntryPoint
  <2>3. \A u \in Threads \ {t} : ThreadInv(u)'
    BY <1>3 DEF EntryPoint, TypeInv, ThreadInv, Calling, Returned, Kernel
  <2> QED  BY <2>1, <2>2, <2>3
<1>4. ASSUME NEW t \in Threads, Return(t)
      PROVE  IInv'
  <2>1. TypeInv'
    BY <1>4 DEF Return, TypeInv
  <2>2. ThreadInv(t)'
    <3>1. next[t] - 1 = Len(Kernel(t).calls)
      BY <1>4, RunningKernel, KernelShape DEF Return, ThreadInv, Calling, TypeInv
    <3> QED  BY <1>4, <3>1 DEF Return, TypeInv, ThreadInv, Calling, Returned, Kernel
  <2>3. \A u \in Threads \ {t} : ThreadInv(u)'
    BY <1>4 DEF Return, TypeInv, ThreadInv, Calling, Returned, Kernel
  <2> QED  BY <2>1, <2>2, <2>3
<1>5. ASSUME NEW t \in Threads, Proceed(t)
      PROVE  IInv'
  <2>1. Tail(script[t]) \in Seq(Kernels)
    BY <1>5, RunningKernel DEF Proceed, ThreadInv
  <2>2. TypeInv'
    BY <1>5, <2>1 DEF Proceed, TypeInv
  <2>3. \A u \in Threads : ThreadInv(u)'
    BY <1>5 DEF Proceed, TypeInv, ThreadInv, Calling, Returned, Kernel
  <2> QED  BY <2>2, <2>3
<1>6. CASE UNCHANGED vars
  BY <1>6 DEF vars, TypeInv, ThreadInv, Calling, Returned, Kernel
<1> QED  BY <1>1, <1>2, <1>3, <1>4, <1>5, <1>6 DEF Next

\* Every reachable state satisfies the inductive invariant.
THEOREM Invariance == Spec => []IInv
  BY InitInv, NextInv, PTL DEF Spec

\* A launch raises the first failure among its own calls and no other, of an
\* earlier launch, of another thread or of a call made around it, whatever the
\* scripts, the foreign calls and the number of threads (requireRuntime,
\* CompiledKernel.__call__).
THEOREM LaunchesRaiseTheirOwn == Spec => []RaisesOwnFirstError
<1>1. IInv => RaisesOwnFirstError
  <2> SUFFICES ASSUME IInv, NEW t \in Threads, pc[t] = "returned"
               PROVE  LET calls == Kernel(t).calls
                      IN  /\ ran[t] = 1..(FirstFault(calls) - 1)
                          /\ raised[t] = IF FirstFault(calls) > Len(calls) THEN NoError
                                         ELSE ErrorAfter(calls[FirstFault(calls)], NoError)
    BY DEF RaisesOwnFirstError
  <2> DEFINE calls == Kernel(t).calls
  <2>1. /\ DOMAIN calls = 1..Len(calls) /\ Len(calls) \in Nat
        /\ Noted(calls, Len(calls), raised[t], ran[t])
    BY RunningKernel, KernelShape DEF IInv, ThreadInv, Returned
  <2> HIDE DEF calls
  <2>2. CASE raised[t] = NoError /\ ran[t] = 1..Len(calls) /\ \A k \in 1..Len(calls) : ~Fails(calls[k])
    BY <2>1, <2>2 DEF FirstFault, calls
  <2>3. CASE \E n \in 1..Len(calls) :
               /\ Fails(calls[n]) /\ raised[t] = ErrorAfter(calls[n], NoError)
               /\ ran[t] = 1..(n - 1) /\ \A k \in 1..(n - 1) : ~Fails(calls[k])
    <3>1. PICK n \in 1..Len(calls) :
            /\ Fails(calls[n]) /\ raised[t] = ErrorAfter(calls[n], NoError)
            /\ ran[t] = 1..(n - 1) /\ \A k \in 1..(n - 1) : ~Fails(calls[k])
      BY <2>3
    <3>2. FirstFault(calls) = n
      BY <2>1, <3>1, FirstFaultIs
    <3> QED  BY <2>1, <3>1, <3>2 DEF calls
  <2> QED  BY <2>1, <2>2, <2>3 DEF Noted, calls
<1> QED  BY <1>1, Invariance, PTL

-----------------------------------------------------------------------------
(***************************************************************************)
(* Calls made from verified operations.                                    *)
(***************************************************************************)

\* What the verifier of a transform has seen.
LEMMA VerifiedTransform ==
  ASSUME NEW e, e.op \in {"fft", "ifft"}, VerifySignal(e), IsSignal(e)
  PROVE  /\ Rank(e) \in {1, 2} /\ e.shape \in Seq(Nat)
         /\ \A d \in 1..Rank(e) : e.shape[d] > 0
         /\ Dim(e) \in 0..(Rank(e) - 1) /\ e.shape[Dim(e) + 1] >= 2
<1>1. DOMAIN e.args = {1} /\ Verified(e)
  BY DEF IsSignal, VerifySignal
<1>2. \A k \in DOMAIN e.args : SameType(e, e.args[k])
  BY <1>1 DEF Verified, SameAsOperands
<1>3. VerifyFFTLike(e)
  BY <1>1 DEF Verified, Leaves, Binary, OneInput
<1>4. e.args[1].shape = e.shape
  BY <1>1, <1>2 DEF SameType
<1>5. Len(e.shape) \in {1, 2} /\ \A d \in 1..Len(e.shape) : e.shape[d] > 0
  BY <1>3, <1>4 DEF VerifyFFTLike, Rank, PositiveShape
<1>6. Dim(e) \in 0..(Rank(e) - 1) /\ e.shape[Dim(e) + 1] >= 2
  BY <1>3, <1>4 DEF VerifyFFTLike, Extent, DimInRange
<1> QED  BY <1>5, <1>6 DEF Rank, IsSignal, Countable

\* What the verifier of an interpolation has seen.
LEMMA VerifiedInterp ==
  ASSUME NEW e, e.op = "interp1d", VerifySignal(e), IsSignal(e)
  PROVE  /\ Rank(e) = 2 /\ e.shape \in Seq(Nat) /\ e.args[2].shape = e.shape
         /\ \A d \in 1..2 : e.shape[d] > 0
         /\ VerifyInterpKernel(e) /\ e.mode \in STRING \X STRING \X STRING
<1>1. DOMAIN e.args = {1, 2} /\ Len(e.args) = 2 /\ Verified(e)
  BY DEF IsSignal, VerifySignal
<1>2. VerifyInterpLike(e) /\ SameType(e, e.args[1])
  BY <1>1 DEF Verified, Leaves, Binary, OneInput
<1> QED  BY <1>1, <1>2 DEF VerifyInterpLike, SameType, Rank, PositiveShape, IsSignal, Countable, VerifySignal

\* The identity layout of a tensor that an index can count is addressable.
LEMMA ContiguousLayout ==
  ASSUME NEW shape, Countable(shape), Len(shape) \in {1, 2}, \A d \in 1..Len(shape) : shape[d] > 0
  PROVE  /\ IsDescriptor(Contiguous(shape), Len(shape))
         /\ DescriptorLayout(Contiguous(shape))
         /\ Contiguous(shape).sizes = shape /\ Contiguous(shape).ptr # "null"
<1> DEFINE d == Contiguous(shape)
<1>0. IndexMax \in Nat
  BY CallsAssumption
<1>1. /\ d.ptr = "data" /\ d.offset = 0 /\ d.sizes = shape
      /\ d.strides = IF Len(shape) = 1 THEN <<1>> ELSE <<shape[2], 1>>
  BY DEF Contiguous, Descriptor
<1>2. CASE Len(shape) = 1
  <2>1. shape \in [1..1 -> Nat] /\ shape[1] > 0 /\ shape[1] <= IndexMax
    BY <1>2 DEF Countable
  <2>2. Delta(d, 1) = shape[1] - 1
    BY <1>1, <1>2, <2>1 DEF Delta
  <2>3. DOMAIN d.sizes = {1}
    BY <1>1, <2>1
  <2> HIDE DEF d
  <2>4. DescriptorLayout(d)
    BY <1>0, <1>1, <1>2, <2>1, <2>2, <2>3 DEF DescriptorLayout, SumDims, InIndexRange
  <2> QED  BY <1>1, <1>2, <2>1, <2>4 DEF IsDescriptor, d
<1>3. CASE Len(shape) = 2
  <2>1. /\ shape \in [1..2 -> Nat] /\ shape[1] \in Nat /\ shape[2] \in Nat
        /\ shape[1] > 0 /\ shape[2] > 0 /\ shape[1] * shape[2] <= IndexMax
    <3>1. shape \in Seq(Nat) /\ shape[1] * shape[2] <= IndexMax
      BY <1>3 DEF Countable
    <3>2. shape \in [1..2 -> Nat]
      BY <1>3, <3>1
    <3> QED  BY <1>3, <3>1, <3>2
  <2>2. Delta(d, 1) = (shape[1] - 1) * shape[2] /\ Delta(d, 2) = shape[2] - 1
    BY <1>1, <1>3, <2>1 DEF Delta
  <2>3. (shape[1] - 1) * shape[2] = shape[1] * shape[2] - shape[2] /\ (shape[1] - 1) * shape[2] >= 0
    BY <2>1
  <2>4. DOMAIN d.sizes = {1, 2}
    BY <1>1, <2>1
  <2> HIDE DEF d
  <2>5. DescriptorLayout(d)
    BY <1>0, <1>1, <1>3, <2>1, <2>2, <2>3, <2>4 DEF DescriptorLayout, SumDims, InIndexRange
  <2> QED  BY <1>1, <1>3, <2>1, <2>5 DEF IsDescriptor, d
<1> QED  BY <1>2, <1>3

\* The call of a verified transform.
LEMMA TransformAccepted ==
  ASSUME NEW e, e.op \in {"fft", "ifft"}, VerifySignal(e), IsSignal(e)
  PROVE  IsCall(FFTCall(e)) /\ ~Fails(FFTCall(e))
<1> DEFINE c == FFTCall(e)
<1> DEFINE d == Contiguous(e.shape)
<1>1. /\ c.symbol = <<"fft", Rank(e), e.elem>> /\ c.buffers = <<d, d>> /\ c.dim = Dim(e)
  BY DEF FFTCall, Symbol
<1>2. /\ Rank(e) \in {1, 2} /\ \A k \in 1..Rank(e) : e.shape[k] > 0
      /\ Dim(e) \in 0..(Rank(e) - 1) /\ e.shape[Dim(e) + 1] >= 2 /\ e.shape \in Seq(Nat)
  BY VerifiedTransform
<1>3. IsDescriptor(d, Rank(e)) /\ DescriptorLayout(d) /\ d.sizes = e.shape /\ d.ptr # "null"
  BY <1>2, ContiguousLayout DEF IsSignal, Rank
<1> HIDE DEF c, d
<1>4. IsCall(c)
  BY <1>1, <1>2, <1>3 DEF IsCall
<1>5. SameSizes(d, d)
  BY DEF SameSizes
<1>6. \A k \in DOMAIN FFTChecks(c) : FFTChecks(c)[k][2]
  <2>1. DOMAIN FFTChecks(c) = 1..6
    BY DEF FFTChecks
  <2>2. c.buffers[1] = d /\ c.buffers[2] = d /\ DOMAIN c.buffers = {1, 2} /\ c.symbol[2] = Rank(e)
    BY <1>1
  <2>3. FFTChecks(c)[1][2]
    BY <1>3, <2>2 DEF FFTChecks
  <2>4. FFTChecks(c)[2][2]
    BY <1>1, <1>2, <2>2 DEF FFTChecks
  <2>5. FFTChecks(c)[3][2]
    BY <1>3, <2>2 DEF FFTChecks
  <2>6. FFTChecks(c)[4][2]
    BY <1>3, <2>2 DEF FFTChecks
  <2>7. FFTChecks(c)[5][2]
    <3>1. \A k \in DOMAIN d.sizes : d.sizes[k] > 0
      BY <1>2, <1>3 DEF Rank
    <3>2. d.sizes[c.dim + 1] >= 2
      BY <1>1, <1>2, <1>3
    <3> QED  BY <2>2, <3>1, <3>2 DEF FFTChecks
  <2>8. FFTChecks(c)[6][2]
    BY <1>5, <2>2 DEF FFTChecks
  <2> QED  BY <2>1, <2>3, <2>4, <2>5, <2>6, <2>7, <2>8
<1>7. Failed(c) = {}
  BY <1>1, <1>6 DEF Failed, Checks
<1> QED  BY <1>4, <1>7 DEF Fails, ErrorAfter, c

\* StringSwitch finds a listed name at its own place.
LEMMA IdOfNamed ==
  ASSUME NEW names, NEW name \in Named(names), DOMAIN names = 1..Len(names), Len(names) \in Nat
  PROVE  /\ IdOf(names, name) \in 0..(Len(names) - 1)
         /\ names[IdOf(names, name) + 1] = name
<1> DEFINE k == CHOOSE k \in DOMAIN names : names[k] = name
<1>1. k \in DOMAIN names /\ names[k] = name
  BY DEF Named
<1> HIDE DEF k
<1>2. IdOf(names, name) = k - 1 /\ k \in 1..Len(names)
  BY <1>1 DEF IdOf, k
<1> QED  BY <1>1, <1>2

\* The call of a verified interpolation.
LEMMA InterpAccepted ==
  ASSUME NEW e, e.op = "interp1d", VerifySignal(e), IsSignal(e)
  PROVE  /\ IsCall(InterpCall(e)) /\ ~Fails(InterpCall(e))
         /\ e.mode = <<KernelNames[InterpCall(e).kernel + 1], WindowNames[InterpCall(e).window + 1],
                       BoundaryNames[InterpCall(e).boundary + 1]>>
<1> DEFINE c == InterpCall(e)
           d == Contiguous(e.shape)
<1>1. /\ c.symbol = <<"interp1d", 2, e.elem>> /\ c.buffers = <<d, d, d>>
      /\ c.kernel = IdOf(KernelNames, e.mode[1]) /\ c.window = IdOf(WindowNames, e.mode[2])
      /\ c.boundary = IdOf(BoundaryNames, e.mode[3]) /\ c.taps = e.attr[1][2] /\ c.beta = e.attr[1][3]
  BY VerifiedInterp DEF InterpCall, Symbol
<1>2. Rank(e) = 2 /\ (\A k \in 1..2 : e.shape[k] > 0) /\ e.shape \in Seq(Nat) /\ DOMAIN e.shape = {1, 2}
  BY VerifiedInterp DEF Rank
<1>3. IsDescriptor(d, 2) /\ DescriptorLayout(d) /\ d.sizes = e.shape /\ d.ptr # "null"
  BY <1>2, ContiguousLayout DEF IsSignal, Rank
<1>4. /\ c.kernel \in 0..3 /\ KernelNames[c.kernel + 1] = e.mode[1]
      /\ c.window \in 0..3 /\ WindowNames[c.window + 1] = e.mode[2]
      /\ c.boundary \in 0..2 /\ BoundaryNames[c.boundary + 1] = e.mode[3]
  <2>1. /\ e.mode[1] \in Named(KernelNames) /\ e.mode[2] \in Named(WindowNames)
        /\ e.mode[3] \in Named(BoundaryNames)
    BY VerifiedInterp DEF VerifyInterpKernel
  <2>2. /\ DOMAIN KernelNames = 1..Len(KernelNames) /\ Len(KernelNames) = 4
        /\ DOMAIN WindowNames = 1..Len(WindowNames) /\ Len(WindowNames) = 4
        /\ DOMAIN BoundaryNames = 1..Len(BoundaryNames) /\ Len(BoundaryNames) = 3
    BY DEF KernelNames, WindowNames, BoundaryNames
  <2>3. /\ IdOf(KernelNames, e.mode[1]) \in 0..(Len(KernelNames) - 1)
        /\ KernelNames[IdOf(KernelNames, e.mode[1]) + 1] = e.mode[1]
    BY <2>1, <2>2, IdOfNamed
  <2>4. /\ IdOf(WindowNames, e.mode[2]) \in 0..(Len(WindowNames) - 1)
        /\ WindowNames[IdOf(WindowNames, e.mode[2]) + 1] = e.mode[2]
    BY <2>1, <2>2, IdOfNamed
  <2>5. /\ IdOf(BoundaryNames, e.mode[3]) \in 0..(Len(BoundaryNames) - 1)
        /\ BoundaryNames[IdOf(BoundaryNames, e.mode[3]) + 1] = e.mode[3]
    BY <2>1, <2>2, IdOfNamed
  <2> QED  BY <1>1, <2>2, <2>3, <2>4, <2>5
<1> HIDE DEF c, d
<1>5. c.kernel = 3 => TapsInRange(c.taps)
  BY <1>1, <1>4, VerifiedInterp DEF VerifyInterpKernel, KernelNames, TapsInRange
<1>6. c.window = 3 => c.beta # NaN /\ c.beta > 0 /\ c.beta <= 48
  BY <1>1, <1>4, VerifiedInterp DEF VerifyInterpKernel, WindowNames
<1>7. Failed(c) = {}
  <2>1. DOMAIN InterpChecks(c) = 1..12
    BY DEF InterpChecks
  <2>2. /\ c.buffers[1] = d /\ c.buffers[2] = d /\ c.buffers[3] = d /\ DOMAIN c.buffers = {1, 2, 3}
        /\ SameSizes(d, d) /\ \A k \in DOMAIN d.sizes : d.sizes[k] > 0
    <3>1. c.buffers[1] = d /\ c.buffers[2] = d /\ c.buffers[3] = d /\ DOMAIN c.buffers = {1, 2, 3}
      BY <1>1
    <3>2. \A k \in DOMAIN d.sizes : d.sizes[k] > 0
      BY <1>2, <1>3
    <3>3. SameSizes(d, d)
      BY DEF SameSizes
    <3> QED BY <3>1, <3>2, <3>3
  <2>3. InterpChecks(c)[1][2] /\ InterpChecks(c)[2][2] /\ InterpChecks(c)[3][2] /\ InterpChecks(c)[4][2]
    BY <1>3, <2>2 DEF InterpChecks
  <2>4. InterpChecks(c)[5][2] /\ InterpChecks(c)[11][2] /\ InterpChecks(c)[12][2]
    BY <2>2 DEF InterpChecks
  <2>5. InterpChecks(c)[6][2] /\ InterpChecks(c)[7][2] /\ InterpChecks(c)[8][2]
    BY <1>4 DEF InterpChecks
  <2>6. InterpChecks(c)[9][2] /\ InterpChecks(c)[10][2]
    BY <1>5, <1>6 DEF InterpChecks
  <2>7. \A k \in 1..12 : InterpChecks(c)[k][2]
    BY <2>3, <2>4, <2>5, <2>6
  <2> QED  BY <1>1, <2>1, <2>7 DEF Failed, Checks
<1>8. IsCall(c)
  BY <1>1, <1>3 DEF IsCall
<1>9. e.mode = <<e.mode[1], e.mode[2], e.mode[3]>>
  BY VerifiedInterp
<1> QED  BY <1>4, <1>7, <1>8, <1>9 DEF Fails, ErrorAfter, c

-----------------------------------------------------------------------------
\* Every call of a loaded module is one of the C interface, and one made from
\* an operation is accepted and has the names of the operation.
LEMMA CallsOfKernels ==
  ASSUME NEW l \in Kernels, NEW k \in DOMAIN l.calls
  PROVE  /\ IsCall(l.calls[k])
         /\ l.ops[k].op # "call" =>
              /\ ~Fails(l.calls[k])
              /\ l.ops[k].op = "interp1d" =>
                   l.ops[k].mode = <<KernelNames[l.calls[k].kernel + 1], WindowNames[l.calls[k].window + 1],
                                     BoundaryNames[l.calls[k].boundary + 1]>>
<1>1. PICK m \in Modules : l = Compiled(m) /\ Compiles(m)
  BY DEF Kernels
<1> DEFINE e == m.ops[k]
<1>2. /\ l.ops = m.ops /\ k \in DOMAIN m.ops /\ l.calls[k] = CallOf(e)
      /\ e.op # "call" => VerifySignal(e)
  BY <1>1 DEF Compiled, Compiles
<1>3. e \in Range(m.ops)
  BY <1>2 DEF Range
<1>4. IF e.op = "call" THEN IsCall(e.call) ELSE IsSignal(e)
  BY <1>3, CallsAssumption
<1> HIDE DEF e
<1>5. CASE e.op = "call"
  BY <1>2, <1>4, <1>5 DEF CallOf, e
<1>6. CASE e.op # "call"
  <2>1. VerifySignal(e) /\ IsSignal(e) /\ e.op \in {"fft", "ifft", "interp1d"}
    BY <1>2, <1>4, <1>6 DEF IsSignal, SignalOps
  <2>2. CASE e.op = "interp1d"
    <3>1. l.calls[k] = InterpCall(e) /\ l.ops[k] = e
      BY <1>2, <2>2 DEF CallOf, e
    <3> QED  BY <2>1, <2>2, <3>1, InterpAccepted
  <2>3. CASE e.op \in {"fft", "ifft"}
    <3>1. l.calls[k] = FFTCall(e) /\ l.ops[k] = e
      BY <1>2, <2>3 DEF CallOf, e
    <3> QED  BY <2>1, <2>3, <3>1, TransformAccepted
  <2> QED  BY <2>1, <2>2, <2>3
<1> QED  BY <1>5, <1>6

\* A call the compiler made from a verified operation satisfies every check of
\* its entry point and samples with the kernel, window and boundary of the
\* operation, for every shape, attribute and name (verifyInterpKernel,
\* Interp1DLowering, requireInterpArgs).
THEOREM VerifiedIsAccepted == Spec => []VerifiedOpsAccepted
<1>1. IInv => VerifiedOpsAccepted
  <2> SUFFICES ASSUME IInv, NEW t \in Threads, pc[t] = "call", NEW k \in DOMAIN Kernel(t).calls,
                      Kernel(t).ops[k].op # "call"
               PROVE  LET e == Kernel(t).ops[k]
                          c == Kernel(t).calls[k]
                      IN  /\ ~Fails(c)
                          /\ e.op = "interp1d" => e.mode = <<KernelNames[c.kernel + 1], WindowNames[c.window + 1],
                                                            BoundaryNames[c.boundary + 1]>>
    BY DEF VerifiedOpsAccepted
  <2>1. Kernel(t) \in Kernels
    BY RunningKernel DEF IInv, ThreadInv
  <2> QED  BY <2>1, CallsOfKernels
<1> QED  BY <1>1, Invariance, PTL

-----------------------------------------------------------------------------
(***************************************************************************)
(* Addresses.  Along one dimension an element lies between the first and   *)
(* the last, so that a buffer lies between its lowest and highest element. *)
(***************************************************************************)

LEMMA Between ==
  ASSUME NEW n \in Int, NEW s \in Int, NEW x \in 0..(n - 1)
  PROVE  /\ x * s \in Int /\ (n - 1) * s \in Int
         /\ (n - 1) * s < 0 => (n - 1) * s <= x * s /\ x * s <= 0
         /\ ~((n - 1) * s < 0) => 0 <= x * s /\ x * s <= (n - 1) * s
<1>1. n - 1 >= x /\ x >= 0 /\ x \in Int /\ n - 1 \in Int
  OBVIOUS
<1>2. CASE s >= 0
  <2>1. 0 <= x * s
    BY <1>1, <1>2
  <2>2. 0 <= (n - 1 - x) * s /\ (n - 1 - x) * s = (n - 1) * s - x * s
    BY <1>1, <1>2
  <2> QED  BY <1>1, <2>1, <2>2
<1>3. CASE s < 0
  <2>1. x * s <= 0
    BY <1>1, <1>3
  <2>2. (n - 1 - x) * s <= 0 /\ (n - 1 - x) * s = (n - 1) * s - x * s
    BY <1>1, <1>3
  <2> QED  BY <1>1, <2>1, <2>2
<1> QED  BY <1>2, <1>3

\* An element of a shape that the descriptor has lies in the range of an index.
LEMMA LayoutIsEnough ==
  ASSUME NEW d, NEW rank \in {1, 2}, IsDescriptor(d, rank), DescriptorLayout(d),
         NEW x, DOMAIN x = 1..rank, \A k \in 1..rank : x[k] \in 0..(d.sizes[k] - 1)
  PROVE  InIndexRange(Address(d, x))
<1> DEFINE low(k) == IF Delta(d, k) < 0 THEN Delta(d, k) ELSE 0
           high(k) == IF Delta(d, k) < 0 THEN 0 ELSE Delta(d, k)
           at(k) == x[k] * d.strides[k]
<1>1. /\ d.offset \in Int /\ DOMAIN d.sizes = 1..rank /\ IndexMax \in Nat
      /\ \A k \in 1..rank : d.sizes[k] \in Int /\ d.strides[k] \in Int
  BY CallsAssumption DEF IsDescriptor
<1>2. \A k \in 1..rank : /\ Delta(d, k) \in Int /\ at(k) \in Int
                         /\ low(k) <= at(k) /\ at(k) <= high(k)
  BY <1>1, Between DEF Delta
<1>3. /\ InIndexRange(d.offset + SumDims([k \in 1..rank |-> low(k)]))
      /\ InIndexRange(d.offset + SumDims([k \in 1..rank |-> high(k)]))
  BY <1>1 DEF DescriptorLayout
<1>4. Address(d, x) = d.offset + SumDims([k \in 1..rank |-> at(k)])
  BY <1>1 DEF Address
<1>5. \A k \in 1..rank : low(k) \in Int /\ high(k) \in Int
  BY <1>2
<1> HIDE DEF low, high, at
<1>6. CASE rank = 1
  BY <1>1, <1>2, <1>3, <1>4, <1>5, <1>6 DEF SumDims, InIndexRange
<1>7. CASE rank = 2
  <2>1. /\ SumDims([k \in 1..rank |-> low(k)]) = low(1) + low(2)
        /\ SumDims([k \in 1..rank |-> high(k)]) = high(1) + high(2)
        /\ SumDims([k \in 1..rank |-> at(k)]) = at(1) + at(2)
    BY <1>7 DEF SumDims
  <2> QED  BY <1>1, <1>2, <1>3, <1>4, <1>5, <1>7, <2>1 DEF InIndexRange
<1> QED  BY <1>6, <1>7

\* What an accepted call has been checked for.
LEMMA AcceptedLayouts ==
  ASSUME NEW c, IsCall(c), ~Fails(c), NEW b \in DOMAIN c.buffers
  PROVE  DescriptorLayout(c.buffers[b]) /\ SameSizes(c.buffers[1], c.buffers[b])
<1>1. \A k \in DOMAIN Checks(c) : Checks(c)[k][2]
  BY ErrorIsNoted DEF Failed
<1>2. SameSizes(c.buffers[1], c.buffers[1])
  BY DEF SameSizes
<1>3. CASE c.symbol[1] = "fft"
  <2>1. b \in {1, 2} /\ Checks(c) = FFTChecks(c)
    BY <1>3 DEF IsCall, Checks
  <2>2. DOMAIN FFTChecks(c) = 1..6
    BY DEF FFTChecks
  <2>3. FFTChecks(c)[3][2] /\ FFTChecks(c)[4][2] /\ FFTChecks(c)[6][2]
    BY <1>1, <2>1, <2>2
  <2>4. DescriptorLayout(c.buffers[1]) /\ DescriptorLayout(c.buffers[2]) /\ SameSizes(c.buffers[1], c.buffers[2])
    BY <2>3 DEF FFTChecks
  <2> QED  BY <1>2, <2>1, <2>4
<1>4. CASE c.symbol[1] = "interp1d"
  <2>1. b \in {1, 2, 3} /\ Checks(c) = InterpChecks(c)
    BY <1>4 DEF IsCall, Checks
  <2>2. DOMAIN InterpChecks(c) = 1..12
    BY DEF InterpChecks
  <2>3. /\ InterpChecks(c)[2][2] /\ InterpChecks(c)[3][2] /\ InterpChecks(c)[4][2]
        /\ InterpChecks(c)[11][2] /\ InterpChecks(c)[12][2]
    BY <1>1, <2>1, <2>2
  <2>4. /\ DescriptorLayout(c.buffers[1]) /\ DescriptorLayout(c.buffers[2]) /\ DescriptorLayout(c.buffers[3])
        /\ SameSizes(c.buffers[1], c.buffers[2]) /\ SameSizes(c.buffers[1], c.buffers[3])
    BY <2>3 DEF InterpChecks
  <2> QED  BY <1>2, <2>1, <2>4
<1> QED  BY <1>3, <1>4 DEF IsCall

\* Only accepted calls compute.
LEMMA RanAreAccepted ==
  ASSUME IInv, NEW t \in Threads, pc[t] # "idle", NEW k \in ran[t]
  PROVE  k \in DOMAIN Kernel(t).calls /\ ~Fails(Kernel(t).calls[k])
<1> DEFINE calls == Kernel(t).calls
<1>1. Len(calls) \in Nat /\ DOMAIN calls = 1..Len(calls)
  BY RunningKernel, KernelShape DEF IInv, ThreadInv
<1>2. \E upto \in 0..Len(calls), e \in {error[t], raised[t]} : Noted(calls, upto, e, ran[t])
  <2>1. CASE pc[t] = "call"
    <3>1. next[t] \in 1..(Len(calls) + 1) /\ Noted(calls, next[t] - 1, error[t], ran[t])
      BY <2>1 DEF IInv, ThreadInv, Calling
    <3>2. next[t] - 1 \in 0..Len(calls)
      BY <1>1, <3>1
    <3> QED  BY <3>1, <3>2
  <2>2. CASE pc[t] = "returned"
    <3>1. Noted(calls, Len(calls), raised[t], ran[t])
      BY <2>2 DEF IInv, ThreadInv, Returned
    <3> QED  BY <1>1, <3>1
  <2> QED  BY <2>1, <2>2 DEF IInv, TypeInv
<1> HIDE DEF calls
<1>3. PICK upto \in 0..Len(calls), e \in {error[t], raised[t]} : Noted(calls, upto, e, ran[t])
  BY <1>2
<1>4. k \in 1..upto /\ ~Fails(calls[k])
  BY <1>1, <1>3 DEF Noted
<1> QED  BY <1>1, <1>4 DEF calls

\* Every element of every buffer a call works on has an address that an index
\* can hold, whatever the sizes, the signs of the strides and the offsets
\* (requireDescriptorLayout, whose sums are wider than an index).
THEOREM AddressesAreIndices == Spec => []AddressesFit
<1>1. IInv => AddressesFit
  <2> SUFFICES ASSUME IInv, NEW t \in Threads, pc[t] # "idle", NEW k \in ran[t],
                      NEW b \in DOMAIN Kernel(t).calls[k].buffers,
                      NEW x \in Addressed(Kernel(t).calls[k].buffers[1])
               PROVE  InIndexRange(Address(Kernel(t).calls[k].buffers[b], x))
    BY DEF AddressesFit
  <2> DEFINE c == Kernel(t).calls[k]
  <2>1. k \in DOMAIN Kernel(t).calls /\ ~Fails(c)
    BY RanAreAccepted
  <2>2. IsCall(c)
    BY <2>1, RunningKernel, CallsOfKernels DEF IInv, ThreadInv
  <2>3. b \in DOMAIN c.buffers /\ x \in Addressed(c.buffers[1])
    OBVIOUS
  <2> HIDE DEF c
  <2>4. /\ DescriptorLayout(c.buffers[b]) /\ SameSizes(c.buffers[1], c.buffers[b])
        /\ 1 \in DOMAIN c.buffers
    BY <2>1, <2>2, <2>3, AcceptedLayouts DEF IsCall
  <2> DEFINE rank == c.symbol[2]
  <2>5. rank \in {1, 2} /\ IsDescriptor(c.buffers[1], rank) /\ IsDescriptor(c.buffers[b], rank)
    BY <2>2, <2>3, <2>4 DEF IsCall
  <2> HIDE DEF rank
  <2>6. DOMAIN x = 1..rank /\ \A d \in 1..rank : x[d] \in 0..(c.buffers[1].sizes[d] - 1)
    <3>1. CASE rank = 1
      BY <2>3, <2>5, <3>1 DEF Addressed, IsDescriptor
    <3>2. CASE rank = 2
      BY <2>3, <2>5, <3>2 DEF Addressed, IsDescriptor
    <3> QED  BY <2>5, <3>1, <3>2
  <2>7. \A d \in 1..rank : c.buffers[1].sizes[d] = c.buffers[b].sizes[d]
    BY <2>4, <2>5 DEF SameSizes, IsDescriptor
  <2>8. \A d \in 1..rank : x[d] \in 0..(c.buffers[b].sizes[d] - 1)
    BY <2>6, <2>7
  <2> QED  BY <2>4, <2>5, <2>6, <2>8, LayoutIsEnough DEF c
<1> QED  BY <1>1, Invariance, PTL
=============================================================================
