------------------------------- MODULE BufferPasses -------------------------------
(***************************************************************************)
(* The buffer passes of the SAR dialect: each an operator from a function  *)
(* to the rewritten one.                                                   *)
(***************************************************************************)
EXTENDS LoopIR

-----------------------------------------------------------------------------
(***************************************************************************)
(* Results of their own, and ports written once.                           *)
(***************************************************************************)

\* sar-distinct-return-buffers: a repeated result gets a copy of its own.
DistinctReturnBuffers(f) ==
  LET Separate(g, k) ==
        IF \A j \in 1..(k - 1) : g.ret[j] # g.ret[k] THEN g
        ELSE LET new == Len(g.type) + 1
             IN  [g EXCEPT !.type = Append(@, g.type[g.ret[k]]), !.ret[k] = new,
                           !.body = @ \o <<Alloc(new), Copy(g.ret[k], new)>>]
  IN  FoldLeft(Separate, f, [k \in DOMAIN f.ret |-> k])

\* buffer-results-to-out-params with hoist-static-allocs: an allocation that is returned
\* becomes the argument, any other buffer is copied into it.
BufferResultsToOutParams(f) ==
  LET allocated(g, b) == \E k \in DOMAIN g.body : g.body[k] = Alloc(b)
      Hand(g, k) ==
        LET b == f.ret[k]
            new == Len(g.type) + 1
            h == [g EXCEPT !.type = Append(@, g.type[b]), !.args = Append(@, new)]
        IN  IF allocated(f, b) /\ ~allocated(g, b) THEN h
            ELSE IF ~allocated(f, b) THEN [h EXCEPT !.body = Append(@, Copy(b, new))]
            ELSE [h EXCEPT !.body = Renamed(SelectSeq(@, LAMBDA o : o # Alloc(b)), <<>>, b :> new)]
  IN  [FoldLeft(Hand, f, [k \in DOMAIN f.ret |-> k]) EXCEPT !.ret = <<>>]

InGeneric(f, p) == \E k \in 1..(Len(p) - 1) : OpAt(f.body, SubSeq(p, 1, k)).op = "linalg"
HasReadUse(f, b) ==
  \E p \in Users(f, b) :
    LET o == OpAt(f.body, p)
    IN  \/ InGeneric(f, p)
        \/ o.op \in {"load", "view"}
        \/ o.op = "copy" /\ o.from = b
        \/ \E c \in ToSet(o.carries) : c.init = b

CountTopLevelWriters(f, b) == Cardinality({p[1] : p \in Users(f, b)})

\* Mutated form: a port with several writers is left alone.
PrivatizeReadPorts(f) ==
  LET Privatize(g, b) ==
        IF ~HasReadUse(g, b) THEN g
        ELSE LET local == Len(g.type) + 1
             IN  [g EXCEPT !.type = Append(@, g.type[b]),
                           !.body = <<Alloc(local)>> \o Renamed(@, <<>>, b :> local) \o <<Copy(local, b)>>]
  IN  FoldLeft(Privatize, f, SubSeq(f.args, f.inputs + 1, Len(f.args)))

\* sar-privatize-out-params: a result port that is read, or written by several
\* top-level operations, is written by one final copy.
PrivatizeOutParams(f) ==
  LET Privatize(g, b) ==
        IF Users(g, b) = {} \/ (~HasReadUse(g, b) /\ CountTopLevelWriters(g, b) <= 1) THEN g
        ELSE LET local == Len(g.type) + 1
             IN  [g EXCEPT !.type = Append(@, g.type[b]),
                           !.body = <<Alloc(local)>> \o Renamed(@, <<>>, b :> local) \o <<Copy(local, b)>>]
  IN  FoldLeft(Privatize, f, SubSeq(f.args, f.inputs + 1, Len(f.args)))

-----------------------------------------------------------------------------
(***************************************************************************)
(* sar-demote-loop-carries: a loop that carries buffers iterates in them.  *)
(***************************************************************************)

Carrying(body) == SelectSeq(Paths(body), LAMBDA p : OpAt(body, p).carries # <<>>)
IterArgs(o) == {c.arg : c \in ToSet(o.carries)}
Demotable(o) == \A c \in ToSet(o.carries) : c.yield = c.arg \/ c.yield \notin IterArgs(o)

\* A carry that starts in an argument, of the function or of an outer loop, gets a
\* local buffer primed from it.
StartsInArgument(f, b) == IsArg(f, b) \/ \E o \in Ops(f.body) : b \in IterArgs(o)

DemoteCarry(f, p, k) ==
  LET c == OpAt(f.body, p).carries[k]
      primed == StartsInArgument(f, c.init)
      buffer == IF primed THEN Len(f.type) + 1 ELSE c.init
      after == IF c.yield = c.arg THEN <<>> ELSE <<Copy(c.yield, buffer)>>
      loop == [OpAt(f.body, p) EXCEPT !.body = @ \o after, !.carries[k].init = buffer, !.carries[k].yield = c.arg]
      g == [f EXCEPT !.type = IF primed THEN Append(@, @[c.init]) ELSE @,
                     !.body = Splice(@, p, <<loop>>)]
  IN  \* The prologue of the loop is put in front of it when all its carries are done.
      [g EXCEPT !.body = Renamed(@, <<>>, (c.arg :> buffer) @@ (c.result :> buffer)), !.ret = [j \in DOMAIN @ |->
         IF @[j] = c.result THEN buffer ELSE @[j]]]

Demote(f, p) ==
  LET o == OpAt(f.body, p)
      done == FoldLeft(LAMBDA g, k : DemoteCarry(g, p, k), f, [k \in DOMAIN o.carries |-> k])
      loop == OpAt(done.body, p)
      primed == SelectSeq([k \in DOMAIN o.carries |-> k], LAMBDA k : StartsInArgument(f, o.carries[k].init))
      prologue == FlattenSeq([j \in DOMAIN primed |->
        LET k == primed[j] IN <<Alloc(loop.carries[k].init), Copy(o.carries[k].init, loop.carries[k].init)>>])
  IN  [done EXCEPT !.body = Splice(@, p, prologue \o <<[loop EXCEPT !.carries = <<>>]>>)]

\* Innermost loops first; a loop's position is not moved by those inside it.
RECURSIVE DemoteAll(_)
DemoteAll(f) ==
  LET loops == Carrying(f.body)
      innermost == SelectSeq(loops, LAMBDA p : \A q \in ToSet(loops) : q = p \/ q \notin Below(f.body, p))
  IN  IF loops = <<>> THEN f ELSE DemoteAll(Demote(f, innermost[1]))

DemoteLoopCarriesFails(f) == \E p \in ToSet(Carrying(f.body)) : ~Demotable(OpAt(f.body, p))

-----------------------------------------------------------------------------
(***************************************************************************)
(* sar-lower-copy and hls-lower-copy-to-affine.                            *)
(***************************************************************************)

\* The second leaves out a loop over a dimension of one.
CopyNest(f, o, skipOnes) ==
  LET shape == f.type[o.from].shape
      iv(d) == f.fresh + d
      map == [d \in DOMAIN shape |-> IF skipOnes /\ shape[d] = 1 THEN Number(0) ELSE Term(iv(d))]
      r == f.fresh + Len(shape) + 1
      loops == SelectSeq([d \in DOMAIN shape |-> d], LAMBDA d : ~(skipOnes /\ shape[d] = 1))
  IN  FoldRight(LAMBDA d, inside : <<For(iv(d), shape[d], inside)>>, loops,
                <<Load(r, o.from, map), Store(o.buf, map, r)>>)

RECURSIVE ExpandCopies(_, _)
ExpandCopies(f, skipOnes) ==
  LET copies == {p \in ToSet(Paths(f.body)) : OpAt(f.body, p).op = "copy"}
      p == The(copies)
      o == OpAt(f.body, p)
  IN  IF copies = {} THEN f
      ELSE ExpandCopies([f EXCEPT !.body = Splice(@, p, CopyNest(f, o, skipOnes)),
                                  !.fresh = @ + Len(f.type[o.from].shape) + 1], skipOnes)

LowerCopy(f) == ExpandCopies(f, FALSE)
LowerCopyToAffine(f) == ExpandCopies(f, TRUE)

\* convert-linalg-to-affine-loops.
RECURSIVE Unwrapped(_)
Unwrapped(body) ==
  FlattenSeq([k \in DOMAIN body |->
    IF body[k].op = "linalg" THEN body[k].body ELSE <<[body[k] EXCEPT !.body = Unwrapped(@)]>>])
ConvertLinalg(f) == [f EXCEPT !.body = Unwrapped(@)]

-----------------------------------------------------------------------------
(***************************************************************************)
(* sar-reuse-buffers.                                                      *)
(***************************************************************************)

Bytes(type) == 4 * Elements(type) * type.size

\* A use that neither hands the buffer on nor lets it escape.
IsContainedUse(o, b) == o.op # "view" /\ \A c \in ToSet(o.carries) : b \notin {c.init, c.yield}

Candidates(f, minElements) ==
  {b \in DOMAIN f.type :
     /\ \E k \in DOMAIN f.body : f.body[k] = Alloc(b)
     /\ ~f.type[b].hinted
     /\ Elements(f.type[b]) >= minElements
     /\ Users(f, b) # {}
     /\ b \notin ToSet(f.ret) /\ \A p \in Users(f, b) : IsContainedUse(OpAt(f.body, p), b)}

AllocPos(f, b) == CHOOSE k \in DOMAIN f.body : f.body[k] = Alloc(b)
FirstUse(f, b) == Min({p[1] : p \in Users(f, b)})
LastUse(f, b) == Max({p[1] : p \in Users(f, b)})
InFirstUseOrder(f, B) ==
  LET inAllocOrder == SelectSeq([k \in DOMAIN f.body |-> k], LAMBDA k : f.body[k].op = "alloc" /\ f.body[k].buf \in B)
  IN  FlattenSeq([n \in DOMAIN f.body |->
        LET first == SelectSeq(inAllocOrder, LAMBDA k : FirstUse(f, f.body[k].buf) = n)
        IN  [k \in DOMAIN first |-> f.body[first[k]].buf]])

\* A slot's members, the bytes of its first one, its last use, and the type all share.
Open(f, b) == [members |-> <<b>>, bytes |-> Bytes(f.type[b]), lastUse |-> LastUse(f, b), uniform |-> TRUE]
SameStorage(f, a, b) == [f.type[a] EXCEPT !.hinted = FALSE] = [f.type[b] EXCEPT !.hinted = FALSE]

\* Mutated form: a buffer is free at the operation that uses it last.
JoinsEarly(f, slot, b, allowRetype) ==
  /\ slot.lastUse <= FirstUse(f, b)
  /\ \/ slot.uniform /\ SameStorage(f, slot.members[1], b)
     \/ allowRetype /\ slot.bytes >= Bytes(f.type[b])

Joins(f, slot, b, allowRetype) ==
  /\ slot.lastUse < FirstUse(f, b)
  /\ \/ slot.uniform /\ SameStorage(f, slot.members[1], b)
     \/ allowRetype /\ slot.bytes >= Bytes(f.type[b])

Slots(f, minElements, allowRetype) ==
  LET Place(slots, b) ==
        LET fits == {k \in DOMAIN slots : Joins(f, slots[k], b, allowRetype)}
            k == Min(fits)
        IN  IF fits = {} THEN Append(slots, Open(f, b))
            ELSE [slots EXCEPT ![k] = [@ EXCEPT !.members = Append(@, b), !.lastUse = Max({@, LastUse(f, b)}),
                                         !.uniform = @ /\ SameStorage(f, slots[k].members[1], b)]]
  IN  FoldLeft(Place, <<>>, InFirstUseOrder(f, Candidates(f, minElements)))

\* The members use the earliest allocation, or views of a byte buffer put in its place.
Materialize(f, slot) ==
  LET M == ToSet(slot.members)
      earliest == CHOOSE b \in M : \A c \in M : AllocPos(f, b) <= AllocPos(f, c)
      at == AllocPos(f, earliest)
      backing == Len(f.type) + 1
      views == [k \in DOMAIN slot.members |-> View(slot.members[k], backing)]
  IN  IF Cardinality(M) < 2 THEN f
      ELSE IF slot.uniform
           THEN [f EXCEPT !.body = Renamed(Without(@, {<<AllocPos(f, b)>> : b \in M \ {earliest}}), <<>>, [b \in M |-> earliest])]
      ELSE [f EXCEPT !.type = Append(@, [shape |-> <<slot.bytes \div 4>>, size |-> 1, hinted |-> FALSE]),
                     !.body = SubSeq(@, 1, at - 1)
                                \o <<Alloc(backing)>> \o views
                                \o SelectSeq(SubSeq(@, at, Len(@)), LAMBDA o : ~(o.op = "alloc" /\ o.buf \in M))]

ReuseBuffers(f, minElements, allowRetype) ==
  FoldLeft(Materialize, f, Slots(f, minElements, allowRetype))

-----------------------------------------------------------------------------
(***************************************************************************)
(* sar-stage-transposes.                                                   *)
(***************************************************************************)

\* The loops under a path that hold nothing but one another, outermost first.
RECURSIVE CollectBand(_, _)
CollectBand(f, p) ==
  LET o == OpAt(f.body, p)
      single == Len(o.body) = 1 /\ o.body[1].op = "for"
  IN  <<p>> \o (IF single THEN CollectBand(f, Append(p, 1)) ELSE <<>>)

FastestLevel(map, ivs) ==
  LET last == map[Len(map)]
      hits == {l \in DOMAIN ivs : last = Term(ivs[l])}
  IN  IF hits = {} THEN 0 ELSE The(hits)
SweptLevel(map, ivs) ==
  LET dims == DOMAIN map[Len(map)].terms
      hits == {l \in DOMAIN ivs : dims = {ivs[l]}}
  IN  IF hits = {} THEN 0 ELSE The(hits)

Staged(f, o) == Len(f.type[o.buf].shape) >= 2

\* A temporary that is written once and read at the same place after is no obstacle.
Replayable(body, load) ==
  LET same == {k \in DOMAIN body : body[k].op = "store" /\ body[k].buf = body[load].buf}
  IN  same = {} \/ \E k \in same : same = {k} /\ k < load /\ body[k].map = body[load].map

\* What is staged: the loads, the level they sweep and the level the stores sweep; none, or one.
MatchTranspose(f, p) ==
  LET band == CollectBand(f, p)
      ivs == [l \in DOMAIN band |-> OpAt(f.body, band[l]).iv]
      body == OpAt(f.body, band[Len(band)]).body
      stores == {k \in DOMAIN body : body[k].op = "store"}
      loads == {k \in DOMAIN body : body[k].op = "load"}
      dest == {FastestLevel(body[k].map, ivs) : k \in stores}
      striding == {k \in loads : Staged(f, body[k]) /\ SweptLevel(body[k].map, ivs) \notin ({0} \cup dest)}
      source == {SweptLevel(body[k].map, ivs) : k \in striding}
  IN  IF /\ Len(band) >= 2
         /\ \A k \in DOMAIN body : body[k].op \in {"load", "store", "apply", "select"}
         /\ stores # {}
         /\ \A k \in DOMAIN body : (ToSet(body[k].args) \cup {body[k].iv}) \cap ToSet(ivs) = {}
         /\ \A k \in stores : Named(body[k].map) = ToSet(ivs) /\ Staged(f, body[k])
         /\ Cardinality(dest) = 1 /\ 0 \notin dest
         /\ \A k \in loads : Named(body[k].map) \subseteq ToSet(ivs)
         /\ Cardinality(source) = 1
         /\ \A k \in loads : Replayable(body, k)
      THEN {[path |-> p, band |-> band, ivs |-> ivs, loads |-> SetToSortSeq(striding, <),
             source |-> The(source), dest |-> The(dest)]}
      ELSE {}

\* The largest power of two that divides both extents and whose blocks fit the budget.
TileEdge(sourceTrip, destTrip, blockBytes, budget) ==
  LET Fits(e) == sourceTrip % e = 0 /\ destTrip % e = 0 /\ e * e * blockBytes <= budget
  IN  Max({1} \cup {2^k : k \in {j \in 1..8 : \A i \in 1..j : Fits(2^i)}})

StageTranspose(f, nest, budget) ==
  LET Trip(l) == OpAt(f.body, nest.band[l]).n
      depth == Len(nest.band)
      body == OpAt(f.body, nest.band[depth]).body
      bytes == FoldSet(LAMBDA k, sum : sum + (4 * f.type[body[k].buf].size), 0, ToSet(nest.loads))
      edge == TileEdge(Trip(nest.source), Trip(nest.dest), bytes, budget)
      count == Len(nest.loads)
      tile(l) == f.fresh + l
      \* The point loops of the fill half, then those of the drain half: source, destination.
      point(half) == <<f.fresh + depth + (2 * half) + 1, f.fresh + depth + (2 * half) + 2>>
      block(j) == Len(f.type) + j
      blockOf(k) == {j \in 1..count : nest.loads[j] = k}
      blockMap(half) == <<Term(point(half)[1]), Term(point(half)[2])>>
      Substitute(e, half) ==
        LET c(l) == IF nest.ivs[l] \in DOMAIN e.terms THEN e.terms[nest.ivs[l]] ELSE 0
            split == {nest.source, nest.dest}
            all == [v \in {tile(l) : l \in 1..depth} \cup ToSet(point(half)) |->
                      IF v = point(half)[1] THEN c(nest.source)
                      ELSE IF v = point(half)[2] THEN c(nest.dest)
                      ELSE c(v - f.fresh) * (IF v - f.fresh \in split THEN edge ELSE 1)]
        IN  [e EXCEPT !.terms = [v \in {u \in DOMAIN all : all[u] # 0} |-> all[v]]]
      Retarget(map, half) == [k \in DOMAIN map |-> Substitute(map[k], half)]
      Half(half, slow, fast, inside) ==
        For(point(half)[slow], edge, <<For(point(half)[fast], edge, inside)>>)
      fill == FlattenSeq([j \in 1..count |->
        LET load == body[nest.loads[j]]
            r == f.fresh + depth + 4 + j
        IN  <<Load(r, load.buf, Retarget(load.map, 0)), Store(block(j), blockMap(0), r)>>])
      drain == [k \in DOMAIN body |->
        IF body[k].op \notin {"load", "store"} THEN body[k]
        ELSE IF blockOf(k) # {} THEN Load(body[k].reg, block(The(blockOf(k))), blockMap(1))
        ELSE [body[k] EXCEPT !.map = Retarget(@, 1)]]
      halves == <<Half(0, 2, 1, fill), Half(1, 1, 2, drain)>>
      rebuilt == FoldRight(LAMBDA l, inside :
                   <<For(tile(l), IF l \in {nest.source, nest.dest} THEN Trip(l) \div edge ELSE Trip(l), inside)>>,
                   [l \in 1..depth |-> l], halves)
  IN  IF edge < 2 THEN f
      ELSE [f EXCEPT !.type = @ \o [j \in 1..count |-> [shape |-> <<edge, edge>>,
                                      size |-> f.type[body[nest.loads[j]].buf].size, hinted |-> FALSE]],
                     !.fresh = @ + depth + 4 + count,
                     !.body = Splice(@, nest.path, [j \in 1..count |-> Alloc(block(j))] \o rebuilt)]

\* The outermost match of every nest, the last in the text first: paths before it stand.
StageTransposes(f, budget) ==
  LET loops == {p \in ToSet(Paths(f.body)) : OpAt(f.body, p).op = "for"}
      nests == UNION {MatchTranspose(f, p) : p \in loops}
      outer == {t \in nests : \A u \in nests : u = t \/ t.path \notin Below(f.body, u.path)}
      before(p, q) == \E i \in DOMAIN p : i \in DOMAIN q /\ p[i] < q[i] /\ SubSeq(p, 1, i - 1) = SubSeq(q, 1, i - 1)
  IN  FoldLeft(LAMBDA g, t : StageTranspose(g, t, budget), f,
               SetToSortSeq(outer, LAMBDA t, u : before(u.path, t.path)))
==================================================================================
