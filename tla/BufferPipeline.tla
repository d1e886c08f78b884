------------------------------ MODULE BufferPipeline ------------------------------
(***************************************************************************)
(* What the two compilation pipelines do to a bufferized function: the     *)
(* host pipeline up to its buffer sharing, and the HLS pipeline from the   *)
(* first buffer pass to the nests that become dataflow tasks.  A pass is   *)
(* one step.  A program is a function and the options it is compiled with. *)
(***************************************************************************)
EXTENDS BufferPasses, LoopPasses

CONSTANT Programs

VARIABLES program, func, todo
vars == <<program, func, todo>>

HostPasses == <<"distinct results", "out params", "lower copy", "reuse">>

\* buildSARToAffinePipeline, followed by the first passes of hls-pipeline.
HLSPasses(p) ==
  <<"distinct results", "out params", "privatize", "demote", "lower copy", "linalg to loops", "store forward">>
    \o (IF p.fuse THEN <<"fuse sweeps">> ELSE <<>>)
    \o (IF p.blockBytes > 0 THEN <<"stage transposes">> ELSE <<>>)
    \o <<"reuse", "raise copies", "simplify copies", "lower copy to loops", "fuse siblings",
         "privatize", "lower copy to loops", "store forward">>

Begin ==
  /\ func = program.func
  /\ todo = IF program.target = "host" THEN HostPasses ELSE HLSPasses(program)

Init == program \in Programs /\ Begin

Pass(name, new) ==
  /\ todo # <<>> /\ Head(todo) = name
  /\ todo' = Tail(todo)
  /\ func' = new
  /\ UNCHANGED program

SeparateResults == Pass("distinct results", DistinctReturnBuffers(func))
TakeOutParams == Pass("out params", BufferResultsToOutParams(func))
PrivatizePorts == Pass("privatize", PrivatizeOutParams(func))

DemoteLoopCarries == ~DemoteLoopCarriesFails(func) /\ Pass("demote", DemoteAll(func))
\* The pass signals failure, and the pipeline ends.
RejectLoopCarries ==
  /\ todo # <<>> /\ Head(todo) = "demote" /\ DemoteLoopCarriesFails(func)
  /\ todo' = <<"rejected">>
  /\ UNCHANGED <<program, func>>

ExpandCopy == Pass("lower copy", LowerCopy(func))
LinalgToLoops == Pass("linalg to loops", ConvertLinalg(func))
ForwardStores == Pass("store forward", AffineStoreForward(func))
FuseSweeps == Pass("fuse sweeps", FuseSiblingLoops(func, FALSE))
StageCornerTurns == Pass("stage transposes", StageTransposes(func, program.blockBytes))
ShareBuffers == Pass("reuse", ReuseBuffers(func, program.minElements, program.target = "host"))
RaiseCopies == Pass("raise copies", RaiseAffineToCopy(func))
DropCopies == Pass("simplify copies", SimplifyCopy(func))
ExpandCopyToLoops == Pass("lower copy to loops", LowerCopyToAffine(func))
FuseSiblings == Pass("fuse siblings", FuseSiblingLoops(func, program.roles))

Next ==
  \/ SeparateResults \/ TakeOutParams \/ PrivatizePorts \/ DemoteLoopCarries \/ RejectLoopCarries
  \/ ExpandCopy \/ LinalgToLoops \/ ForwardStores \/ FuseSweeps \/ StageCornerTurns \/ ShareBuffers
  \/ RaiseCopies \/ DropCopies \/ ExpandCopyToLoops \/ FuseSiblings

Spec == Init /\ [][Next]_vars

-----------------------------------------------------------------------------
(***************************************************************************)
(* Properties                                                              *)
(***************************************************************************)

\* No pass changes what the caller finds in the result arrays, nor writes into
\* an array the caller passed in: whatever buffers come to share storage, copies
\* are dropped, stores are forwarded and nests are fused or tiled.
MeaningKept ==
  Meaning(func) = Meaning(program.func)

\* The function the HLS pipeline hands to task formation reads no result port
\* and writes each from one top-level operation.
PortsWrittenOnce ==
  todo = <<>> /\ program.target = "hls" =>
    \A k \in (func.inputs + 1)..Len(func.args) :
      ~HasReadUse(func, func.args[k]) /\ CountTopLevelWriters(func, func.args[k]) <= 1
===================================================================================
