-------------------------------- MODULE LoopPasses --------------------------------
(***************************************************************************)
(* The passes of the HLS dialect over affine loop nests: store forwarding, *)
(* fusion of sibling nests, and the copies they raise, drop and lower.     *)
(***************************************************************************)
EXTENDS LoopIR

-----------------------------------------------------------------------------
(***************************************************************************)
(* Where one operation stands to another.                                  *)
(***************************************************************************)

Parent(p) == SubSeq(p, 1, Len(p) - 1)
Prefix(p, q) == Len(p) <= Len(q) /\ SubSeq(q, 1, Len(p)) = p
\* The ancestor of q, or q, among the siblings of p.
Beside(p, q) == SubSeq(q, 1, Len(p))

Dominates(p, q) == Prefix(Parent(p), q) /\ Len(q) >= Len(p) /\ p[Len(p)] < q[Len(p)]
WrittenBefore(p, q) ==
  \E i \in DOMAIN p \cap DOMAIN q : p[i] < q[i] /\ SubSeq(p, 1, i - 1) = SubSeq(q, 1, i - 1)

\* The affine loops around an operation, outermost first, by their paths.
Around(f, p) ==
  SelectSeq([k \in 1..(Len(p) - 1) |-> SubSeq(p, 1, k)], LAMBDA q : OpAt(f.body, q).op = "for")
Common(f, p, q) == Cardinality(ToSet(Around(f, p)) \cap ToSet(Around(f, q)))

SameAccess(o, u) == o.buf = u.buf /\ o.map = u.map

\* LocalAliasAnalysis: an allocation aliases nothing else, two arguments may be one array.
MayAlias(f, a, b) == a = b \/ (IsArg(f, a) /\ IsArg(f, b))

\* checkMemrefAccessDependence: whether some iteration of p reaches the element that a
\* later iteration of q reaches, the loops the two share being equal up to depth d - 1
\* and ordered at depth d; beyond the shared loops the order is that of the text.
Dependence(f, p, q, d) ==
  LET a == Around(f, p)
      b == Around(f, q)
      shared == Common(f, p, q)
      Iterations(loops) ==
        FoldLeft(LAMBDA tuples, loop : {Append(t, i) : t \in tuples, i \in 0..(OpAt(f.body, loop).n - 1)}, {<<>>}, loops)
      Index(o, loops, t) ==
        LET value == [v \in Named(o.map) |->
              IF \E l \in DOMAIN loops : OpAt(f.body, loops[l]).iv = v
              THEN t[CHOOSE l \in DOMAIN loops : OpAt(f.body, loops[l]).iv = v] ELSE 0]
        IN  [k \in DOMAIN o.map |-> At(o.map[k], value)]
  IN  /\ d = shared + 1 => WrittenBefore(p, q)
      /\ \E s \in Iterations(a), t \in Iterations(b) :
           /\ \A l \in 1..(d - 1) : s[l] = t[l]
           /\ d <= shared => s[d] < t[d]
           /\ Index(OpAt(f.body, p), a, s) = Index(OpAt(f.body, q), b, t)

-----------------------------------------------------------------------------
(***************************************************************************)
(* hls-affine-store-forward.                                               *)
(***************************************************************************)

Effects(o) ==
  CASE o.op = "load" -> [read |-> {o.buf}, write |-> {}]
    [] o.op = "store" -> [read |-> {}, write |-> {o.buf}]
    [] o.op = "copy" -> [read |-> {o.from}, write |-> {o.buf}]
    [] OTHER -> [read |-> {}, write |-> {}]

\* No effect of this kind on what may be the buffer of "at", on a way from "start" to it:
\* the operations after start beside it, and all of what encloses "at" there.
HasNoInterveningEffect(f, start, at, kind) ==
  LET here == Beside(start, at)
      target == OpAt(f.body, at)
      between == {p \in ToSet(Paths(f.body)) :
                    /\ Len(p) >= Len(start) /\ Parent(here) = Parent(Beside(start, p))
                    /\ Beside(start, p)[Len(start)] > start[Len(start)]
                    /\ \/ Beside(start, p)[Len(start)] < here[Len(here)]
                       \/ here # at /\ Beside(start, p) = here}
      Affects(p) ==
        LET o == OpAt(f.body, p)
        IN  /\ \E b \in Effects(o)[kind] : MayAlias(f, b, target.buf)
            /\ \/ o.op = "copy" \/ o.buf # target.buf
               \/ \E d \in (Common(f, start, at) + 1)..(Common(f, p, at) + 1) : Dependence(f, p, at, d)
  IN  \A p \in between : ~Affects(p)

\* A store alone in an if, which stands for it where "other" is beside or inside of it.
Lone(f, p, other) ==
  Len(p) > 1 /\ OpAt(f.body, Parent(p)).op = "if" /\ Len(OpAt(f.body, Parent(p)).body) = 1
  /\ Prefix(Parent(Parent(p)), other)
StandsFor(f, p, other) == IF Parent(p) # Parent(other) /\ Lone(f, p, other) THEN Parent(p) ELSE p

Accesses(f, op, b) == {p \in Users(f, b) : OpAt(f.body, p).op = op /\ OpAt(f.body, p).buf = b}
LoadAt(f, r) == CHOOSE p \in ToSet(Paths(f.body)) : OpAt(f.body, p).op = "load" /\ OpAt(f.body, p).reg = r

Forwarding(f, load) ==
  {p \in Accesses(f, "store", OpAt(f.body, load).buf) :
     LET start == StandsFor(f, p, load)
     IN  /\ SameAccess(OpAt(f.body, p), OpAt(f.body, load))
         /\ Dominates(start, load)
         /\ HasNoInterveningEffect(f, start, load, "write")}

\* The walk over the loads works on the function, the loads it has replaced and the
\* buffers that may have no reader left; "again" is a load put in the place of one.
Walk(f) == [f |-> f, replaced |-> {}, dead |-> {}, again |-> 0]
ForwardFrom(w, at, stores) ==
  LET f == w.f
      load == OpAt(f.body, at)
      store == The(stores)
      if == Parent(store)
      value == OpAt(f.body, store).args[1]
      new == f.fresh + 1
      select == f.fresh + 2
      unconditional == <<[load EXCEPT !.reg = new], Select(select, OpAt(f.body, if).iv, value, new),
                         [OpAt(f.body, store) EXCEPT !.args = <<select>>]>>
  IN  IF Cardinality(stores) # 1 THEN [w EXCEPT !.again = load.reg]
      ELSE IF ~Dominates(store, at)
      THEN [w EXCEPT !.f = [f EXCEPT !.fresh = @ + 2,
                              !.body = Renamed(Splice(@, if, unconditional), load.reg :> select, <<>>)],
                     !.replaced = @ \cup {load.reg}, !.again = new]
      ELSE [w EXCEPT !.f.body = Renamed(@, load.reg :> value, <<>>), !.replaced = @ \cup {load.reg},
                     !.dead = @ \cup {load.buf}, !.again = 0]
ForwardStoreToLoad(w, r) ==
  LET at == LoadAt(w.f, r)
  IN  The({ForwardFrom(w, at, stores) : stores \in {Forwarding(w.f, at)}})

\* A load takes the value of an earlier load of the element, the first of all such.
LoadCSE(w, r) ==
  LET f == w.f
      at == LoadAt(f, r)
      load == OpAt(f.body, at)
      candidates == {p \in Accesses(f, "load", load.buf) \ {at} :
                       /\ SameAccess(OpAt(f.body, p), load)
                       /\ Dominates(p, at)
                       /\ HasNoInterveningEffect(f, p, at, "write")}
      first == {p \in candidates : \A q \in candidates : q = p \/ Dominates(p, q)}
  IN  IF first = {} THEN w
      ELSE [w EXCEPT !.f.body = Renamed(@, r :> OpAt(f.body, The(first)).reg, <<>>), !.replaced = @ \cup {r}]

RECURSIVE ForwardLoad(_, _)
ForwardLoad(w, r) ==
  LET done == ForwardStoreToLoad(w, r)
  IN  IF done.again = 0 THEN done
      ELSE IF done.again = r THEN LoadCSE(done, r)
      ELSE ForwardLoad(done, done.again)

Written(f, op) == SelectSeq(Paths(f.body), LAMBDA p : OpAt(f.body, p).op = op)

\* The paths the k-th store and a later store of the element stand at, beside each other.
Targets(f, a, b) ==
  LET conditional(p) == Len(p) > 1 /\ OpAt(f.body, Parent(p)).op = "if"
      sameIf == conditional(b) /\ OpAt(f.body, Parent(a)).iv = OpAt(f.body, Parent(b)).iv
  IN  IF Parent(a) = Parent(b) THEN <<a, b>>
      ELSE IF conditional(a) THEN <<StandsFor(f, a, b), IF sameIf THEN Parent(b) ELSE b>>
      ELSE <<a, StandsFor(f, b, a)>>

Overwriting(f, a) ==
  {b \in Accesses(f, "store", OpAt(f.body, a).buf) \ {a} :
     LET t == Targets(f, a, b)
     IN  /\ SameAccess(OpAt(f.body, a), OpAt(f.body, b))
         /\ Parent(t[1]) = Parent(t[2]) /\ Dominates(t[1], t[2])
         /\ HasNoInterveningEffect(f, t[1], b, "read")}

\* The k-th store is unused when a later one always overwrites it unread; one that does
\* so in an if becomes a store of the selected value.
OverwrittenBy(w, k, a, stores) ==
  LET f == w.f
      b == The({p \in stores : \A q \in stores : q = p \/ WrittenBefore(q, p)})
      t == Targets(f, a, b)
      value == OpAt(f.body, b).args[1]
      select == f.fresh + 1
      unconditional == <<Select(select, OpAt(f.body, t[2]).iv, value, OpAt(f.body, a).args[1]),
                         [OpAt(f.body, b) EXCEPT !.args = <<select>>]>>
      onlyStores == \A p \in Users(f, OpAt(f.body, a).buf) : OpAt(f.body, p).op = "store"
      hoisted == IF t[1] = a /\ t[2] # b
                 THEN [f EXCEPT !.fresh = @ + 1, !.body = Splice(@, t[2], unconditional)] ELSE f
  IN  [w EXCEPT !.f = IF stores = {} THEN f ELSE hoisted,
                !.replaced = IF stores = {} THEN @ ELSE @ \cup {<<k, t[1] # a>>},
                !.dead = IF onlyStores THEN @ \cup {OpAt(f.body, a).buf} ELSE @]
FindUnusedStore(w, k) ==
  LET a == Written(w.f, "store")[k]
  IN  The({OverwrittenBy(w, k, a, stores) : stores \in {Overwriting(w.f, a)}})

EraseDead(f, dead) ==
  LET gone == {b \in dead : /\ \E o \in Ops(f.body) : o = Alloc(b)
                            /\ \A p \in Users(f, b) : OpAt(f.body, p).op = "store"}
  IN  [f EXCEPT !.body = Without(@, {p \in ToSet(Paths(@)) :
         OpAt(@, p).op \in {"alloc", "store"} /\ OpAt(@, p).buf \in gone})]

ForwardLoads(f) ==
  FoldLeft(ForwardLoad, Walk(f), [k \in DOMAIN Written(f, "load") |-> OpAt(f.body, Written(f, "load")[k]).reg])
EraseLoads(w) == [w EXCEPT !.f.body = Without(@, {LoadAt(w.f, r) : r \in w.replaced})]
FindUnusedStores(w) ==
  FoldLeft(FindUnusedStore, [Walk(w.f) EXCEPT !.dead = w.dead], [k \in DOMAIN Written(w.f, "store") |-> k])
EraseStores(w) ==
  LET place(e) == LET p == Written(w.f, "store")[e[1]] IN IF e[2] THEN Parent(p) ELSE p
  IN  EraseDead([w.f EXCEPT !.body = Without(@, {place(e) : e \in w.replaced})], w.dead)

AffineStoreForward(f) ==
  The({EraseStores(w) : w \in {FindUnusedStores(v) : v \in {EraseLoads(u) : u \in {ForwardLoads(f)}}}})

-----------------------------------------------------------------------------
(***************************************************************************)
(* hls-fuse-sibling-loops.                                                 *)
(***************************************************************************)

Reads(o) == UNION {Effects(u).read : u \in Ops(o.body)}
Writes(o) == UNION {Effects(u).write : u \in Ops(o.body)}
Supported(o) == \A u \in Ops(o.body) : u.op # "copy"

RECURSIVE PerfectNest(_)
PerfectNest(o) == <<o>> \o (IF Len(o.body) = 1 /\ o.body[1].op = "for" THEN PerfectNest(o.body[1]) ELSE <<>>)

SameIterationSpace(a, b) == Len(a) = Len(b) /\ \A l \in DOMAIN a : a[l].n = b[l].n

\* From the loops of the second nest to those of the first.
Matched(a, b) == [v \in {b[l].iv : l \in DOMAIN b} |-> a[CHOOSE l \in DOMAIN b : b[l].iv = v].iv]

\* Each buffer handed over is stored once and loaded once, through the same map.
PointwiseProducerConsumer(first, second, mapping) ==
  \A b \in Writes(first) \cap Reads(second) :
    \E store \in Ops(first.body), load \in Ops(second.body) :
      /\ {p \in ToSet(Paths(first.body)) : OpAt(first.body, p).op = "store" /\ OpAt(first.body, p).buf = b}
           = {p \in ToSet(Paths(first.body)) : OpAt(first.body, p) = store}
      /\ {p \in ToSet(Paths(second.body)) : OpAt(second.body, p).op = "load" /\ OpAt(second.body, p).buf = b}
           = {p \in ToSet(Paths(second.body)) : OpAt(second.body, p) = load}
      /\ Cardinality({p \in ToSet(Paths(first.body)) : OpAt(first.body, p) = store}) = 1
      /\ store.map = RenamedMap(load.map, mapping)

IsResultArgument(f, b) == \E k \in (f.inputs + 1)..Len(f.args) : f.args[k] = b
ReadOutside(f, b, i, j) ==
  \E p \in Users(f, b) : p[1] \notin {i, j} /\ b \in Effects(OpAt(f.body, p)).read
WritesResult(f, o) == \E b \in Writes(o) : IsResultArgument(f, b)
WritesLiveInternal(f, o, i, j) == \E b \in Writes(o) : ~IsResultArgument(f, b) /\ ReadOutside(f, b, i, j)

Fusable(f, i, j, preserveRoles) ==
  LET a == f.body[i]
      b == f.body[j]
      mapping == Matched(PerfectNest(a), PerfectNest(b))
  IN  /\ SameIterationSpace(PerfectNest(a), PerfectNest(b))
      /\ Supported(a) /\ Supported(b)
      /\ Reads(a) \cap Writes(b) = {} /\ Writes(a) \cap Writes(b) = {}
      /\ preserveRoles => /\ ~(WritesResult(f, a) /\ WritesLiveInternal(f, b, i, j))
                          /\ ~(WritesResult(f, b) /\ WritesLiveInternal(f, a, i, j))
      /\ Writes(a) \cap Reads(b) # {} => PointwiseProducerConsumer(a, b, mapping)

\* The body of the innermost loop of a nest, followed by that of another.
RECURSIVE Extended(_, _)
Extended(o, tail) ==
  IF Len(PerfectNest(o)) = 1 THEN [o EXCEPT !.body = @ \o tail] ELSE [o EXCEPT !.body[1] = Extended(@, tail)]

FusePair(f, i, j) ==
  LET a == PerfectNest(f.body[i])
      b == PerfectNest(f.body[j])
      tail == Renamed(b[Len(b)].body, Matched(a, b), <<>>)
  IN  [f EXCEPT !.body = SubSeq(@, 1, i - 1) \o SubSeq(@, i + 1, j - 1) \o <<Extended(@[i], tail)>>
                           \o SubSeq(@, j + 1, Len(@))]

\* Two nests with nothing but allocations between them.
Siblings(f) ==
  {<<i, j>> \in (DOMAIN f.body) \X (DOMAIN f.body) :
     /\ i < j /\ f.body[i].op = "for" /\ f.body[j].op = "for"
     /\ \A k \in (i + 1)..(j - 1) : f.body[k].op = "alloc"}

RECURSIVE FuseSiblingLoops(_, _)
FuseSiblingLoops(f, preserveRoles) ==
  LET fusable == {s \in Siblings(f) : Fusable(f, s[1], s[2], preserveRoles)}
      first == CHOOSE s \in fusable : \A t \in fusable : s[1] <= t[1]
  IN  IF fusable = {} THEN f ELSE FuseSiblingLoops(FusePair(f, first[1], first[2]), preserveRoles)

-----------------------------------------------------------------------------
(***************************************************************************)
(* hls-raise-affine-to-copy and hls-simplify-copy.                         *)
(***************************************************************************)

\* A nest that loads and stores every element of its two buffers once, in the same place.
IsCopyNest(f, o) ==
  LET nest == PerfectNest(o)
      body == nest[Len(nest)].body
      shape == f.type[body[1].buf].shape
      ivs == [l \in DOMAIN nest |-> nest[l].iv]
      Sweeps(e, extent) ==
        IF DOMAIN e.terms = {} THEN e.add = 0 /\ e.mod = 0 /\ extent = 1
        ELSE \E l \in DOMAIN nest : e = Term(ivs[l]) /\ nest[l].n = extent
  IN  /\ Len(body) = 2 /\ body[1].op = "load" /\ body[2].op = "store"
      /\ body[2].args = <<body[1].reg>> /\ body[1].map = body[2].map
      /\ shape = f.type[body[2].buf].shape
      /\ \A d \in DOMAIN shape : Sweeps(body[1].map[d], shape[d])
      /\ \A d, e \in DOMAIN shape :
           d # e => DOMAIN body[1].map[d].terms \cap DOMAIN body[1].map[e].terms = {}

\* Bands start under a loop that holds several, or under none.
BandRoots(f) ==
  {p \in ToSet(Paths(f.body)) :
     /\ OpAt(f.body, p).op = "for"
     /\ \/ Len(p) = 1 \/ OpAt(f.body, Parent(p)).op # "for"
        \/ Cardinality({k \in DOMAIN OpAt(f.body, Parent(p)).body :
                           OpAt(f.body, Parent(p)).body[k].op = "for"}) > 1}

RaiseAffineToCopy(f) ==
  LET raised == {p \in BandRoots(f) : IsCopyNest(f, OpAt(f.body, p))}
      CopyOf(o) == LET nest == PerfectNest(o) IN Copy(nest[Len(nest)].body[1].buf, nest[Len(nest)].body[2].buf)
  IN  FoldSet(LAMBDA p, g : [g EXCEPT !.body = Splice(@, p, <<CopyOf(OpAt(@, p))>>)], f, raised)

\* Users that come before a copy in the text, and the others.
CrossRegionDominates(p, q) == \E k \in DOMAIN p : Dominates(SubSeq(p, 1, k), q)
UsersBefore(f, b, at) == {p \in Users(f, b) \ {at} : CrossRegionDominates(p, at)}
UsersAfter(f, b, at) == (Users(f, b) \ {at}) \ UsersBefore(f, b, at)
HasWriteUsers(f, users) == \E p \in users : OpAt(f.body, p).op \in {"store", "copy"}
CountWriters(f, b, at) == Cardinality({p \in Users(f, b) \ {at} : OpAt(f.body, p).op \in {"store", "copy"}})

Interchangeable(f, at) ==
  LET source == OpAt(f.body, at).from
      target == OpAt(f.body, at).buf
      readFirst == UsersBefore(f, source, at) # {} /\ UsersBefore(f, target, at) # {}
  IN  /\ ~(HasWriteUsers(f, UsersAfter(f, source, at)) /\ UsersAfter(f, target, at) # {})
      /\ ~(HasWriteUsers(f, UsersAfter(f, target, at)) /\ UsersAfter(f, source, at) # {})
      /\ ~(HasWriteUsers(f, UsersBefore(f, source, at)) /\ UsersBefore(f, target, at) # {})
      /\ ~HasWriteUsers(f, UsersBefore(f, target, at))
      /\ readFirst => ~IsArg(f, source) /\ ~IsArg(f, target)

\* One of the two buffers takes the place of the other, the target's by preference; a
\* port only that of a source with one writer.
Replaced(f, at) ==
  LET source == OpAt(f.body, at).from
      target == OpAt(f.body, at).buf
  IN  IF ~Interchangeable(f, at) THEN <<>>
      ELSE IF ~IsArg(f, target) THEN target :> source
      ELSE IF ~IsArg(f, source) /\ CountWriters(f, source, at) < 2 THEN source :> target
      ELSE <<>>

RECURSIVE SimplifyCopy(_)
SimplifyCopy(f) ==
  LET droppable == {p \in ToSet(Paths(f.body)) : OpAt(f.body, p).op = "copy" /\ Replaced(f, p) # <<>>}
      at == CHOOSE p \in droppable : \A q \in droppable : q = p \/ WrittenBefore(p, q)
      map == Replaced(f, at)
      body == Without(f.body, {at})
  IN  IF droppable = {} THEN f
      ELSE SimplifyCopy([f EXCEPT !.body = Renamed(Without(body, {p \in ToSet(Paths(body)) :
             OpAt(body, p).op = "alloc" /\ OpAt(body, p).buf \in DOMAIN map}), <<>>, map)])
==================================================================================
