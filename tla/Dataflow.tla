------------------------------ MODULE Dataflow ------------------------------
(***************************************************************************)
(* The dataflow passes of the HLS dialect, from a schedule of nodes as     *)
(* --hls-lower-dataflow leaves it to its execution:                        *)
(*   EliminateMultiProducer, EliminateMultiConsumer, ScheduleDataflowNode, *)
(*   BalanceDataflowNode, LegalizeDataflow, CreateTokenStream              *)
(* (lib/Dialect/HLS/Transforms; the order is that of Passes.cpp:193-220).  *)
(* The schedule stands at the top of a function, so that no execution of   *)
(* it depends on a previous one (ScheduleOp::isDependenceFree): only such  *)
(* a schedule is ever emitted as a dataflow region.                        *)
(*                                                                         *)
(* A buffer is a pair <<name, k>>: k = 0 for a buffer of the program, k > 0 *)
(* for one a pass created with the type, hence the memory, of that buffer. *)
(* A node is the sequence of its top-level statements and its level; its   *)
(* operands follow from the statements, as LowerTaskToNode derives them: a *)
(* buffer the body writes is an output, any other it uses an input. Code   *)
(* inside a statement is kept only as what it reads and how it writes: all *)
(* of the buffer, all of it after reading the old contents, or a part of   *)
(* it unread. Contents are symbolic: which computation made them, of what. *)
(***************************************************************************)
EXTENDS Integers, Sequences, FiniteSets, FiniteSetsExt, SequencesExt

CONSTANTS Programs,  \* [nodes, dram]: nodes, and the buffer names that are in DRAM
          Args,      \* names of the block arguments of a schedule
          Results    \* those of the arguments that carry results

ASSUME ResultsAssumption == Results \subseteq Args

Passes == <<"producers", "consumers", "arguments", "levels", "balance", "legalize", "tokens", "run">>
NoLevel == -1

VARIABLES program,  \* the schedule as it was lowered
          balance,  \* whether BalanceDataflowNode is among the passes run
          pass,     \* the pass under way
          nodes,    \* the nodes of the schedule, in program order
          legal,    \* the schedule's legal mark
          tokens,   \* token streams, as pairs <<producer, consumer>> of positions
          pc,       \* statements each node has executed
          mem       \* contents of the buffers

vars == <<program, balance, pass, nodes, legal, tokens, pc, mem>>

-----------------------------------------------------------------------------
(* Operands, producers and consumers *)

Reads(s) == ToSet(s.reads) \cup IF s.how = "update" THEN {s.to} ELSE {}
Outs(n) == {n.body[k].to : k \in DOMAIN n.body}
Ins(n) == (UNION {Reads(n.body[k]) : k \in DOMAIN n.body}) \ Outs(n)
Buffers(ns) == UNION {Ins(ns[i]) \cup Outs(ns[i]) : i \in DOMAIN ns}

Producers(ns, b) == {i \in DOMAIN ns : b \in Outs(ns[i])}
Consumers(ns, b) == {i \in DOMAIN ns : b \in Ins(ns[i])}

IsArg(b) == b[1] \in Args /\ b[2] = 0
IsExt(b) == b[1] \in program.dram

(* A schedule outside loops ignores the back dependences of its arguments. *)
DependentConsumers(ns, b, i) == {j \in Consumers(ns, b) \ {i} : IsArg(b) => i < j}

(* The k-th new buffer like b: its number is above all that are in use.    *)
Highest[N \in SUBSET Nat] == Max(N)
New(ns, b, k) == <<b[1], Highest[{0} \cup {c[2] : c \in Buffers(ns)}] + k>>

Rename(n, b, c) ==
    LET To(x) == IF x = b THEN c ELSE x
        Moved(s) == [s EXCEPT !.to = To(s.to), !.reads = [r \in DOMAIN s.reads |-> To(s.reads[r])]]
    IN  [n EXCEPT !.body = [k \in DOMAIN n.body |-> Moved(n.body[k])]]

UpTo(is, j) == Cardinality({i \in is : i <= j})

Copy(b, c) == [op |-> "copy", reads |-> <<b>>, to |-> c, how |-> "fill"]
Node(body, level) == [body |-> body, level |-> level]

(* The nodes first to last become one, which has no level yet. *)
Fuse(ns, first, last, level) ==
    SubSeq(ns, 1, first - 1)
      \o <<Node(FlattenSeq([k \in 1..(last - first + 1) |-> ns[first + k - 1].body]), level)>>
      \o SubSeq(ns, last + 1, Len(ns))

Consecutive(is) == Cardinality(is) = Max(is) - Min(is) + 1

-----------------------------------------------------------------------------
(* EliminateMultiProducer *)

(* Mutant: a sweep anywhere in the node counts. *)
ReadsBeforeWritingUnlessSwept(n, b) ==
    /\ \E k \in DOMAIN n.body : b \in Reads(n.body[k])
    /\ ~ \E k \in DOMAIN n.body : n.body[k].to = b /\ n.body[k].how = "fill"

(* Whether some element of b may be read before the node defines it: it is *)
(* read, and no statement before every read sweeps all of it.              *)
ReadsBeforeWriting(n, b) ==
    LET reads == {k \in DOMAIN n.body : b \in Reads(n.body[k])}
        sweeps == {k \in DOMAIN n.body : n.body[k].to = b /\ n.body[k].how = "fill"}
    IN  reads # {} /\ \A w \in sweeps : \E r \in reads : r <= w

SharedChannels(ns) == {b \in Buffers(ns) : ~IsArg(b) /\ ~IsExt(b) /\ Cardinality(Producers(ns, b)) > 1}

(* Every producer of b but the leading one writes a buffer of its own,     *)
(* which the nodes up to the next producer use instead; it copies the old  *)
(* contents at its entry when it reads them.                               *)
Privatize(ns, b) ==
    LET private(m) == IF m < 2 THEN b ELSE New(ns, b, m - 1)
        Moved(j) ==
            LET m == UpTo(Producers(ns, b), j)
                own == Rename(ns[j], b, private(m))
            IN  IF m > 1 /\ j \in Producers(ns, b) /\ ReadsBeforeWriting(ns[j], b)
                THEN [own EXCEPT !.body = <<Copy(private(m - 1), private(m))>> \o @]
                ELSE own
    IN  [j \in DOMAIN ns |-> Moved(j)]

BufferMultiProducer ==
    /\ pass = "producers"
    /\ SharedChannels(nodes) # {}
    /\ nodes' = FoldSet(LAMBDA b, acc : Privatize(acc, b), nodes, SharedChannels(nodes))
    /\ UNCHANGED <<program, balance, pass, legal, tokens, pc, mem>>

Mergeable(ns, b) == IsArg(b) /\ Cardinality(Producers(ns, b)) > 1 /\ Consecutive(Producers(ns, b))

MergeProducers(ns, b) ==
    IF Mergeable(ns, b) THEN Fuse(ns, Min(Producers(ns, b)), Max(Producers(ns, b)), NoLevel) ELSE ns

MergeMultiProducer ==
    /\ pass = "producers"
    /\ \E b \in Buffers(nodes) : Mergeable(nodes, b)
    /\ nodes' = FoldSet(LAMBDA b, acc : MergeProducers(acc, b), nodes, Buffers(nodes))
    /\ UNCHANGED <<program, balance, pass, legal, tokens, pc, mem>>

EndProducers ==
    /\ pass = "producers"
    /\ SharedChannels(nodes) = {}
    /\ ~ \E b \in Buffers(nodes) : Mergeable(nodes, b)
    /\ pass' = "consumers"
    /\ UNCHANGED <<program, balance, nodes, legal, tokens, pc, mem>>

-----------------------------------------------------------------------------
(* EliminateMultiConsumer *)

(* The consumers of what node i writes into b: after it, and before the    *)
(* next node that writes b.                                                *)
Readers(ns, b, i) ==
    {j \in DependentConsumers(ns, b, i) :
        i < j /\ ~ \E p \in Producers(ns, b) \ {i} : i < p /\ p < j}

(* A node at position at copies b into a private buffer of each reader.    *)
InsertFork(ns, b, readers, at) ==
    LET private(k) == New(ns, b, k)
        moved == [j \in DOMAIN ns |-> IF j \in readers THEN Rename(ns[j], b, private(UpTo(readers, j))) ELSE ns[j]]
        fork == Node([k \in 1..Cardinality(readers) |-> Copy(b, private(k))], NoLevel)
    IN  InsertAt(moved, at, fork)

Forked(ns, i) == {b \in Outs(ns[i]) : ~IsExt(b) /\ Cardinality(Readers(ns, b, i)) > 1}

InsertForkNode(i) ==
    /\ pass = "consumers"
    /\ Forked(nodes, i) # {}
    /\ nodes' = FoldSet(LAMBDA b, acc : InsertFork(acc, b, Readers(acc, b, i), i + 1), nodes, Forked(nodes, i))
    /\ UNCHANGED <<program, balance, pass, legal, tokens, pc, mem>>

EndConsumers ==
    /\ pass = "consumers"
    /\ \A i \in DOMAIN nodes : Forked(nodes, i) = {}
    /\ pass' = "arguments"
    /\ UNCHANGED <<program, balance, nodes, legal, tokens, pc, mem>>

(* Arguments on chip that nodes only read, and more than one. *)
WideArgs(ns) == {b \in Buffers(ns) : IsArg(b) /\ ~IsExt(b) /\ Producers(ns, b) = {}
                                       /\ Cardinality(Consumers(ns, b)) > 1}

ForkArg(ns, b) == InsertFork(ns, b, Consumers(ns, b), Min(Consumers(ns, b)))

ForkWideArgFanOut ==
    /\ pass = "arguments"
    /\ nodes' = FoldSet(LAMBDA b, acc : ForkArg(acc, b), nodes, WideArgs(nodes))
    /\ pass' = "levels"
    /\ UNCHANGED <<program, balance, legal, tokens, pc, mem>>

-----------------------------------------------------------------------------
(* ScheduleDataflowNode *)

ViolatesChannel(ns, b, i) ==
    ~IsExt(b) /\ (Cardinality(DependentConsumers(ns, b, i)) > 1 \/ Cardinality(Producers(ns, b)) > 1)

AllConsumers(ns, i) == UNION {DependentConsumers(ns, b, i) : b \in Outs(ns[i])}

(* Mutant: a node that has a level is scheduled again. *)
SchedulableAgain(ns, i) ==
    /\ \A b \in Outs(ns[i]) : ~ViolatesChannel(ns, b, i)
    /\ \A j \in AllConsumers(ns, i) : ns[j].level # NoLevel

Schedulable(ns, i) ==
    /\ ns[i].level = NoLevel
    /\ \A b \in Outs(ns[i]) : ~ViolatesChannel(ns, b, i)
    /\ \A j \in AllConsumers(ns, i) : ns[j].level # NoLevel

ALAPScheduleNode(i) ==
    /\ pass = "levels"
    /\ Schedulable(nodes, i)
    /\ nodes' = [nodes EXCEPT ![i].level = Max({0} \cup {nodes[j].level + 1 : j \in AllConsumers(nodes, i)})]
    /\ UNCHANGED <<program, balance, pass, legal, tokens, pc, mem>>

EndLevels ==
    /\ pass = "levels"
    /\ \A i \in DOMAIN nodes : ~Schedulable(nodes, i)
    /\ pass' = IF balance THEN "balance" ELSE "legalize"
    /\ UNCHANGED <<program, balance, nodes, legal, tokens, pc, mem>>

-----------------------------------------------------------------------------
(* BalanceDataflowNode *)

Carried(b) == ~IsArg(b) /\ ~IsExt(b)

Far(ns, b, i) == {j \in DependentConsumers(ns, b, i) :
                    ns[i].level # NoLevel /\ ns[j].level # NoLevel /\ ns[i].level - ns[j].level > 1}

Bypassed(ns, i) == {b \in Outs(ns[i]) : Carried(b) /\ Far(ns, b, i) # {}}

(* Mutant: every copy of the chain reads the original buffer. *)
CopyChainFromFirst(ns, b, i) ==
    LET diff(j) == ns[i].level - ns[j].level
        maxDiff == Max({diff(j) : j \in Far(ns, b, i)})
        moved == [j \in DOMAIN ns |-> IF j \in Far(ns, b, i) THEN Rename(ns[j], b, New(ns, b, diff(j) - 1)) ELSE ns[j]]
        chain == [d \in 1..(maxDiff - 1) |-> Node(<<Copy(b, New(ns, b, d))>>, ns[i].level - d)]
    IN  SubSeq(moved, 1, i) \o chain \o SubSeq(moved, i + 1, Len(moved))

(* A chain of copies after node i, one for each level that is skipped; a   *)
(* consumer d levels below reads the copy made for d.                      *)
CopyChain(ns, b, i) ==
    LET diff(j) == ns[i].level - ns[j].level
        held(d) == IF d = 1 THEN b ELSE New(ns, b, d - 1)
        chained[far \in SUBSET DOMAIN ns] ==
          LET maxDiff == Max({diff(j) : j \in far})
              moved == [j \in DOMAIN ns |-> IF j \in far THEN Rename(ns[j], b, held(diff(j))) ELSE ns[j]]
              chain == [d \in 1..(maxDiff - 1) |-> Node(<<Copy(held(d), held(d + 1))>>, ns[i].level - d)]
          IN  SubSeq(moved, 1, i) \o chain \o SubSeq(moved, i + 1, Len(moved))
    IN  chained[Far(ns, b, i)]

InsertCopyNode(i) ==
    /\ pass = "balance"
    /\ Bypassed(nodes, i) # {}
    /\ nodes' = FoldSet(LAMBDA b, acc : CopyChain(acc, b, i), nodes, Bypassed(nodes, i))
    /\ UNCHANGED <<program, balance, pass, legal, tokens, pc, mem>>

EndBalance ==
    /\ pass = "balance"
    /\ \A i \in DOMAIN nodes : Bypassed(nodes, i) = {}
    /\ pass' = "legalize"
    /\ UNCHANGED <<program, balance, nodes, legal, tokens, pc, mem>>

-----------------------------------------------------------------------------
(* LegalizeDataflow *)

AllLevelled(ns) == \A i \in DOMAIN ns : ns[i].level # NoLevel
AtLevel(ns, l) == {i \in DOMAIN ns : ns[i].level = l}
Levels(ns) == {ns[i].level : i \in DOMAIN ns}

(* What collectNodes reaches from node i: nodes of its level that share an *)
(* input with one already reached.                                         *)
SharingInputs(ns, i) ==
    LET level == AtLevel(ns, ns[i].level)
        Closed(S) == \A j \in S : \A k \in level : Ins(ns[j]) \cap Ins(ns[k]) # {} => k \in S
    IN  {j \in level : \A S \in SUBSET level : i \in S /\ Closed(S) => j \in S}

Fusable(is) == Cardinality(is) > 1 /\ Consecutive(is)

(* Groups of consecutive nodes fused one after the other, the last in      *)
(* program order first; level[g] is the level group g is given.            *)
FuseGroups(ns, groups, level) ==
    MapThenFoldSet(LAMBDA g, acc : Fuse(acc, Min(g), Max(g), level[g]), ns, LAMBDA g : g,
                   LAMBDA S : CHOOSE g \in S : \A h \in S : Max(g) <= Max(h), groups)

MultiConsumerGroups(ns) ==
    IF AllLevelled(ns) THEN {g \in {SharingInputs(ns, i) : i \in DOMAIN ns} : Fusable(g)} ELSE {}

FuseMultiConsumer ==
    /\ pass = "legalize" /\ ~legal
    /\ MultiConsumerGroups(nodes) # {}
    /\ nodes' = FuseGroups(nodes, MultiConsumerGroups(nodes),
                           [g \in MultiConsumerGroups(nodes) |-> nodes[Min(g)].level])
    /\ UNCHANGED <<program, balance, pass, legal, tokens, pc, mem>>

(* A pair of levels more than one apart: a node at the first writes an     *)
(* on-chip buffer that a node at the second reads.                         *)
Bypasses(ns) ==
    LET FarOf(i) == UNION {Far(ns, b, i) : b \in {c \in Outs(ns[i]) : Carried(c)}}
    IN  UNION {{<<ns[i].level, ns[j].level>> : j \in FarOf(i)} : i \in DOMAIN ns}

(* collectBypassNodes: from level l, the levels below it down to its       *)
(* farthest consumer, and in turn those each of them reaches. The levels   *)
(* are visited from the highest; one merged by then starts no group.       *)
LevelGroups[E \in SUBSET (Nat \X Nat)] ==
    LET starts == {e[1] : e \in E}
        Reach(l) == Max({m \in 0..l : \A e \in E : e[1] \in m..l => e[2] >= m})..(l - 1)
        Merged(l) == UNION {Reach(k) : k \in {m \in starts : m > l}}
    IN  {Reach(l) \ Merged(l) : l \in {m \in starts : m \notin Merged(m)}}

BypassGroups(ns) ==
    IF AllLevelled(ns)
    THEN {g \in {UNION {AtLevel(ns, l) : l \in ls} : ls \in LevelGroups[Bypasses(ns)]} : Fusable(g)}
    ELSE {}

(* The level is read from a node fusing has erased: it may be any. *)
FuseBypassPath ==
    /\ pass = "legalize" /\ ~legal
    /\ \E groups \in {BypassGroups(nodes)} \ {{}} : \E level \in [groups -> Levels(nodes)] :
          nodes' = FuseGroups(nodes, groups, level)
    /\ UNCHANGED <<program, balance, pass, legal, tokens, pc, mem>>

(* Mutant: only readers count. *)
HasSharedReaders(ns) ==
    \E b \in Buffers(ns) : (IsArg(b) \/ IsExt(b)) /\ Cardinality(Consumers(ns, b)) > 1

(* An argument or a DRAM buffer that several nodes write or several read. *)
HasSharedExternalBuffer(ns) ==
    \E b \in Buffers(ns) :
        /\ IsArg(b) \/ IsExt(b)
        /\ Cardinality(Producers(ns, b)) > 1 \/ Cardinality(Consumers(ns, b)) > 1

Mark ==
    /\ pass = "legalize"
    /\ MultiConsumerGroups(nodes) = {}
    /\ BypassGroups(nodes) = {}
    /\ legal' = (AllLevelled(nodes) /\ ~HasSharedExternalBuffer(nodes))
    /\ pass' = "tokens"
    /\ UNCHANGED <<program, balance, nodes, tokens, pc, mem>>

-----------------------------------------------------------------------------
(* CreateTokenStream: a token from the producer of a DRAM buffer to each   *)
(* of its consumers, when the schedule is legal and the producer the only  *)
(* one. Then the schedule is ready to run.                                 *)

TokenEdges(ns) ==
    {e \in (DOMAIN ns) \X (DOMAIN ns) :
        \E b \in Buffers(ns) :
            /\ IsExt(b)
            /\ Producers(ns, b) = {e[1]}
            /\ e[2] \in DependentConsumers(ns, b, e[1])}

Junk == [op |-> "junk", of |-> <<>>]
Start(ns) == [b \in Buffers(ns) |-> IF IsArg(b) THEN [op |-> b[1], of |-> <<>>] ELSE Junk]

CreateTokenStream ==
    /\ pass = "tokens"
    /\ tokens' = IF legal THEN TokenEdges(nodes) ELSE {}
    /\ pass' = "run"
    /\ pc' = [i \in DOMAIN nodes |-> 0]
    /\ mem' = Start(nodes)
    /\ UNCHANGED <<program, balance, nodes, legal>>

-----------------------------------------------------------------------------
(* Running the schedule. A legal schedule is a dataflow region: every node *)
(* is a process, which waits for the producers of its on-chip inputs and   *)
(* for its tokens. Any other schedule is calls in program order.           *)

Effect(m, s) ==
    LET args == [k \in DOMAIN s.reads |-> m[s.reads[k]]]
        value == IF s.op = "copy" THEN args[1]
                 ELSE [op |-> s.op, of |-> IF s.how = "fill" THEN args ELSE Append(args, m[s.to])]
    IN  [m EXCEPT ![s.to] = value]

Finished(i) == pc[i] = Len(nodes[i].body)

WaitsFor(i) ==
    IF legal
    THEN (UNION {Producers(nodes, b) : b \in {c \in Ins(nodes[i]) : Carried(c)}})
           \cup {j \in DOMAIN nodes : <<j, i>> \in tokens}
    ELSE 1..(i - 1)

Run(i) ==
    /\ pass = "run"
    /\ ~Finished(i)
    /\ \A j \in WaitsFor(i) : Finished(j)
    /\ mem' = Effect(mem, nodes[i].body[pc[i] + 1])
    /\ pc' = [pc EXCEPT ![i] = @ + 1]
    /\ UNCHANGED <<program, balance, pass, nodes, legal, tokens>>

-----------------------------------------------------------------------------
Begin ==
    /\ balance \in BOOLEAN
    /\ pass = "producers"
    /\ nodes = program.nodes
    /\ legal = FALSE
    /\ tokens = {}
    /\ pc = <<>>
    /\ mem = <<>>

(* What LowerTaskToNode leaves: nodes without a level; an argument is read *)
(* or written (PrivatizeOutParams), and any other buffer a node takes in   *)
(* was written by a node before it. The operation of a statement is one of *)
(* the program's, or the copy of a pass.                                   *)
Statement == [op : STRING \cup {"copy"}, reads : Seq(STRING \X Nat), to : STRING \X Nat,
              how : {"fill", "update", "part"}]

Defined(ns) ==
    \A j \in DOMAIN ns : \A b \in Ins(ns[j]) :
        IF IsArg(b) THEN Producers(ns, b) = {} ELSE \E i \in Producers(ns, b) : i < j

Lowered(p) == p.nodes \in Seq([body : Seq(Statement), level : {NoLevel}]) /\ Defined(p.nodes)

(* And what EliminateMultiProducer takes for granted: a node that writes   *)
(* an on-chip buffer after another one reads it or sweeps all of it, so    *)
(* that none writes a part and leaves the rest to the contents it had.     *)
Touches(n, b) == \E k \in DOMAIN n.body : b \in Reads(n.body[k]) \/ (n.body[k].to = b /\ n.body[k].how = "fill")

NothingLost(ns, dram) ==
    \A b \in Buffers(ns) : IsArg(b) \/ b[1] \in dram \/ \A i, j \in Producers(ns, b) : i < j => Touches(ns[j], b)

Init == program \in Programs /\ Begin

Legalize == FuseMultiConsumer \/ FuseBypassPath \/ Mark

Next ==
    \/ BufferMultiProducer \/ MergeMultiProducer \/ EndProducers
    \/ (\E i \in DOMAIN nodes : InsertForkNode(i)) \/ EndConsumers \/ ForkWideArgFanOut
    \/ (\E i \in DOMAIN nodes : ALAPScheduleNode(i)) \/ EndLevels
    \/ (\E i \in DOMAIN nodes : InsertCopyNode(i)) \/ EndBalance
    \/ Legalize \/ CreateTokenStream
    \/ \E i \in DOMAIN nodes : Run(i)

Spec == Init /\ [][Next]_vars /\ WF_vars(Next)

-----------------------------------------------------------------------------
(* Properties *)

(* What the results hold after the nodes have run one after the other. *)
Meaning(ns) ==
    LET whole == FlattenSeq([i \in DOMAIN ns |-> ns[i].body])
        last == FoldLeft(Effect, Start(ns), whole)
    IN  [b \in {c \in Buffers(ns) : c[1] \in Results /\ c[2] = 0} |-> last[b]]

(* No pass changes what the schedule computes: run one after the other,    *)
(* the nodes leave in the results what the nodes of the program did.       *)
MeaningKept == pass # "run" => Meaning(nodes) = Meaning(program.nodes)

(* NodeOp::verify of a legal schedule: every node has a level, and every   *)
(* on-chip buffer one producer and at most one dependent consumer. Where   *)
(* it was balanced, an on-chip buffer carries a value from a level to the  *)
(* next one, and a DRAM buffer downwards.                                  *)
LegalIsSimple ==
    legal =>
      /\ AllLevelled(nodes)
      /\ \A i \in DOMAIN nodes : \A b \in Outs(nodes[i]) : ~ViolatesChannel(nodes, b, i)
      /\ balance =>
           \A i \in DOMAIN nodes : \A b \in Outs(nodes[i]) : \A j \in DependentConsumers(nodes, b, i) :
               IF Carried(b) THEN nodes[i].level = nodes[j].level + 1 ELSE nodes[i].level > nodes[j].level

Done == pass = "run" /\ \A i \in DOMAIN nodes : Finished(i)

(* However the processes of a dataflow region interleave, the results are  *)
(* those of the program run in order.                                      *)
RunsAsWritten ==
    Done => \A b \in DOMAIN Meaning(program.nodes) : mem[b] = Meaning(program.nodes)[b]

(* The passes end, and no process waits for a channel or a token forever. *)
Completes == <>Done
=============================================================================
