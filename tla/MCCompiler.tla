-------------------------------- MODULE MCCompiler --------------------------------
(***************************************************************************)
(* The compiler on small programs: a behaviour is one program of the SAR   *)
(* dialect on its way to loops (Lowering), one function of loops on its    *)
(* way through the buffer and loop passes (BufferPipeline), or one         *)
(* schedule of nodes on its way to processes (Dataflow, whose variables    *)
(* are this module's).  The three start from programs of their own; an     *)
(* empty set of programs leaves one out.                                   *)
(***************************************************************************)
EXTENDS Dataflow

CONSTANTS
  P, Turn, IntLimit, NaN, PosInf, NegInf,      \* of Tensor
  LoweringPrograms, MaxFolded, BufferPrograms

VARIABLES
  machine,
  kernel,                                      \* of a lowering and of the buffer passes
  stage, inputs, results, out,                 \* of a lowering
  func, todo                                   \* of the buffer passes

loweringVars == <<stage, inputs, results, out>>
bufferVars == <<func, todo>>
MCVars == <<machine, kernel, loweringVars, bufferVars, vars>>

\* The programs are chosen by the constants.
L == INSTANCE Lowering WITH Programs <- {}, program <- kernel, pc <- stage
B == INSTANCE BufferPipeline WITH Programs <- {}, program <- kernel
S == INSTANCE MCPrograms

Idle(v) == v = <<>>

\* A schedule without nodes, in a behaviour of the other two.
NoSchedule ==
  /\ program = [nodes |-> <<>>, dram |-> {}] /\ balance = FALSE
  /\ Begin

InitLowering ==
  /\ machine = "lowering" /\ kernel \in LoweringPrograms /\ L!Begin
  /\ Idle(func) /\ Idle(todo) /\ NoSchedule

InitBuffers ==
  /\ machine = "buffers" /\ kernel \in BufferPrograms /\ B!Begin
  /\ Idle(stage) /\ Idle(inputs) /\ Idle(results) /\ Idle(out) /\ NoSchedule

InitSchedule ==
  /\ machine = "schedule" /\ Init
  /\ Idle(kernel) /\ Idle(stage) /\ Idle(inputs) /\ Idle(results) /\ Idle(out)
  /\ Idle(func) /\ Idle(todo)

MCInit == InitLowering \/ InitBuffers \/ InitSchedule

Lower == machine = "lowering" /\ L!Next /\ UNCHANGED <<machine, bufferVars, vars>>
RunPass == machine = "buffers" /\ B!Next /\ UNCHANGED <<machine, loweringVars, vars>>
Schedule == machine = "schedule" /\ Next /\ UNCHANGED <<machine, kernel, loweringVars, bufferVars>>

MCNext == Lower \/ RunPass \/ Schedule

\* The passes run one after the other, and the processes of a region on their own.
MCSpec == MCInit /\ [][MCNext]_MCVars /\ WF_MCVars(Schedule)

-----------------------------------------------------------------------------
(***************************************************************************)
(* Properties                                                              *)
(***************************************************************************)

\* Every operation that a rewrite of the canonicalizer or the splitting into
\* planes leaves behind passes its verifier (SARDialect.cpp, Decomplexify.cpp).
StaysVerified == machine = "lowering" => L!StaysVerified

\* In whatever order the canonicalizer finds its matches, neither it nor the
\* splitting into planes changes a result (SARDialect.cpp, Decomplexify.cpp).
RewritesKeepMeaning == machine = "lowering" => L!MeaningKept

\* The loops of a verified program read inside their tensors only and leave
\* what the operations mean (SARToLinalg.cpp).
LoopsAgree == machine = "lowering" => L!LoopsAgree

\* No buffer or loop pass changes what the caller finds in the result arrays,
\* nor writes into an array it passed in (Pipelines.cpp, HLS Passes.cpp).
PassesKeepMeaning == machine = "buffers" => B!MeaningKept

\* The function that task formation gets reads no result port, and writes each
\* from one top-level operation (PrivatizeOutParams.cpp).
PortsWrittenOnce == machine = "buffers" => B!PortsWrittenOnce

\* Dataflow's own: MeaningKept, LegalIsSimple and RunsAsWritten.

\* The passes end, and no process waits for a channel or a token for ever.
SchedulesEnd == machine = "schedule" ~> Done

-----------------------------------------------------------------------------
(***************************************************************************)
(* The values of the constants.                                            *)
(***************************************************************************)

TurnC == <<16, 2362>>
NaNC == -5001
PosInfC == -5002
NegInfC == -5003

LoweringProgramsC == S!LoweringProgramsC
BufferProgramsC == S!BufferProgramsC
PartialSums == S!PartialSums
PrimedLoop == S!PrimedLoop

ArgsC == {"x", "y"}
ResultsC == {"y"}

-----------------------------------------------------------------------------
(***************************************************************************)
(* Schedules of nodes.                                                     *)
(***************************************************************************)

Buf(name) == <<name, 0>>
Step(op, reads, to, how) ==
    [op |-> op, reads |-> [k \in DOMAIN reads |-> Buf(reads[k])], to |-> Buf(to), how |-> how]
OneStep(op, reads, to, how) == Node(<<Step(op, reads, to, how)>>, NoLevel)

\* Nodes of one statement: what each reads has been written by then, what it
\* updates too, and c is not used before b.
ReadSets(written) == {<<r>> : r \in written} \cup {<<r, s>> : r \in written, s \in written}
Ordered(reads) == Len(reads) = 2 => <<reads[1], reads[2]>> \in {<<"b", "c">>, <<"b", "x">>, <<"c", "x">>}
Written(ns) == {"x"} \cup {ns[i].body[1].to[1] : i \in DOMAIN ns}

Nodes(op, ns, tos) ==
    {OneStep(op, reads, to, how) :
        reads \in {r \in ReadSets(Written(ns) \ {"y"}) : Ordered(r)},
        to \in {t \in tos : t = "c" => "b" \in Written(ns)},
        how \in {"fill", "part", "update"}}

Sensible(ns, n) ==
    LET s == n.body[1]
    IN  /\ s.to \notin ToSet(s.reads)
        /\ s.how = "update" => s.to[1] \in Written(ns)

Extend(op, seqs, tos) == UNION {{Append(ns, n) : n \in {m \in Nodes(op, ns, tos) : Sensible(ns, m)}} : ns \in seqs}

OfThree == Extend("n3", Extend("n2", Extend("n1", {<<>>}, {"b", "y"}), {"b", "c", "y"}), {"y"})

Placements == {{}, {"x", "y"}, {"x", "y", "b"}}

\* Shapes that three nodes of one statement cannot have.
Separated == <<OneStep("n1", <<"x">>, "b", "fill"), OneStep("n2", <<"b">>, "y", "fill"),
               OneStep("n3", <<"x">>, "c", "fill"), OneStep("n4", <<"c">>, "y", "update")>>
LongBypass == <<OneStep("n1", <<"x">>, "b", "fill"), OneStep("n2", <<"b">>, "c", "fill"),
                OneStep("n3", <<"c">>, "d", "fill"), OneStep("n4", <<"b", "d">>, "y", "fill")>>
SweptThenRead == <<OneStep("n1", <<"x">>, "b", "fill"),
                   Node(<<Step("n2", <<"x">>, "b", "fill"), Step("m2", <<"b">>, "c", "fill")>>, NoLevel),
                   OneStep("n3", <<"b", "c">>, "y", "fill")>>
ReadThenPart == <<OneStep("n1", <<"x">>, "b", "fill"),
                  Node(<<Step("n2", <<"b">>, "c", "fill"), Step("m2", <<"x">>, "b", "part")>>, NoLevel),
                  OneStep("n3", <<"b", "c">>, "y", "fill")>>
ReadThenSwept == <<OneStep("n1", <<"x">>, "b", "fill"),
                   Node(<<Step("n2", <<"b">>, "c", "fill"), Step("m2", <<"x">>, "b", "fill")>>, NoLevel),
                   OneStep("n3", <<"b", "c">>, "y", "fill")>>
ThreeProducers == <<OneStep("n1", <<"x">>, "b", "fill"), OneStep("n2", <<"x">>, "b", "update"), OneStep("n3", <<"b">>, "c", "fill"),
                    OneStep("n4", <<"c">>, "b", "update"), OneStep("n5", <<"b", "c">>, "y", "fill")>>

WritesTwice(ns, b) == \E i, j \in DOMAIN ns : i # j /\ Buf(b) \in Outs(ns[i]) \cap Outs(ns[j])
SchedulesC ==
  {p \in [nodes : OfThree \cup {Separated, LongBypass, SweptThenRead, ReadThenPart, ReadThenSwept, ThreeProducers},
          dram : Placements \cup {{"b"}}] :
     NothingLost(p.nodes, p.dram) /\ (p.dram = {"b"} => WritesTwice(p.nodes, "b")) /\ (p.dram = {} => ~WritesTwice(p.nodes, "y"))}

ASSUME SchedulesLowered == \A p \in SchedulesC : Lowered(p)
==================================================================================
