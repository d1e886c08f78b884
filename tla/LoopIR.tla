---------------------------------- MODULE LoopIR ----------------------------------
(***************************************************************************)
(* A function of loop nests over buffers, as one-shot bufferization leaves *)
(* it and as the buffer passes rewrite it, and what it computes.           *)
(*                                                                         *)
(* A body is a sequence of operations; a path (a sequence of positions)    *)
(* names one inside its nested bodies.  Buffers are the positions of the   *)
(* function's "type"; values and induction variables share one numbering.  *)
(* An index is an affine expression: a coefficient for each induction      *)
(* variable it names, an offset, and a modulus (0 for none).  Elements are *)
(* numbers; a cell of storage holds one four-byte part of an element, so   *)
(* that a buffer read through another type reads no element of it.         *)
(***************************************************************************)
EXTENDS Naturals, FiniteSets, SequencesExt, FiniteSetsExt, TLC

Junk == 5003
The(S) == CHOOSE x \in S : TRUE

-----------------------------------------------------------------------------
(***************************************************************************)
(* Operations.                                                             *)
(***************************************************************************)

Nop == [op |-> "nop", buf |-> 0, from |-> 0, map |-> <<>>, reg |-> 0, args |-> <<>>,
        iv |-> 0, n |-> 0, carries |-> <<>>, body |-> <<>>]

Alloc(b) == [Nop EXCEPT !.op = "alloc", !.buf = b]
View(b, of) == [Nop EXCEPT !.op = "view", !.buf = b, !.from = of]
Copy(source, target) == [Nop EXCEPT !.op = "copy", !.from = source, !.buf = target]
Load(r, b, map) == [Nop EXCEPT !.op = "load", !.reg = r, !.buf = b, !.map = map]
Store(b, map, r) == [Nop EXCEPT !.op = "store", !.buf = b, !.map = map, !.args = <<r>>]
\* A pure computation, the n-th one of the program, of values and induction variables.
Apply(r, n, args) == [Nop EXCEPT !.op = "apply", !.reg = r, !.n = n, !.args = args]
\* affine.select and affine.if: the condition is that the induction variable is 0.
Select(r, iv, a, b) == [Nop EXCEPT !.op = "select", !.reg = r, !.iv = iv, !.args = <<a, b>>]
When(iv, body) == [Nop EXCEPT !.op = "if", !.iv = iv, !.body = body]
\* affine.for from 0 by 1; scf.for, which may carry buffers; linalg.generic, around the nest it is.
For(iv, n, body) == [Nop EXCEPT !.op = "for", !.iv = iv, !.n = n, !.body = body]
Counted(iv, n, carries, body) == [Nop EXCEPT !.op = "scf", !.iv = iv, !.n = n, !.carries = carries, !.body = body]
Generic(nest) == [Nop EXCEPT !.op = "linalg", !.body = <<nest>>]

Term(iv) == [terms |-> (iv :> 1), add |-> 0, mod |-> 0]
Number(n) == [terms |-> <<>>, add |-> n, mod |-> 0]
Named(map) == UNION {DOMAIN map[k].terms : k \in DOMAIN map}

ResultBuffers(f) == IF f.ret # <<>> THEN f.ret ELSE SubSeq(f.args, f.inputs + 1, Len(f.args))
IsArg(f, b) == \E k \in DOMAIN f.args : f.args[k] = b
Elements(type) == FoldLeft(LAMBDA x, y : x * y, 1, type.shape)

-----------------------------------------------------------------------------
(***************************************************************************)
(* What a function computes.                                               *)
(***************************************************************************)

At(e, value) ==
  LET sum == MapThenSumSet(LAMBDA i : e.terms[i] * value[i], DOMAIN e.terms) + e.add
  IN  IF e.mod = 0 THEN sum ELSE sum % e.mod

Offset(type, map, value) ==
  type.size * (IF Len(map) = 1 THEN At(map[1], value) ELSE (At(map[1], value) * type.shape[2]) + At(map[2], value))

Element(cells, at, size) ==
  IF \A k \in 0..(size - 1) : at + k \in DOMAIN cells /\ cells[at + k] = <<cells[at][1], k, size>>
  THEN cells[at][1] ELSE Junk

Parts(v, at, size) == [c \in at..(at + size - 1) |-> <<v, c - at, size>>]

Mix(n, vs) ==
  FoldLeft(LAMBDA x, y : ((x * x * 7) + (x * 31) + (y * y * 3) + (y * 17) + (x * y)) % 997, 11 * n, vs)

RECURSIVE Run(_, _, _), Iterate(_, _, _, _)
Exec(f, o, s) ==
  LET type == f.type[o.buf]
      cells == s.mem[s.env[o.buf]]
      taken(i) == s.value[i] = 0
  IN  CASE o.op = "alloc" -> [s EXCEPT !.env[o.buf] = Cardinality(DOMAIN s.mem),
                                       !.mem = (Cardinality(DOMAIN s.mem) :> <<>>) @@ @]
        [] o.op = "view" -> [s EXCEPT !.env[o.buf] = s.env[o.from]]
        [] o.op = "copy" ->
             LET source == s.mem[s.env[o.from]]
             IN  [s EXCEPT !.mem[s.env[o.buf]] =
                    [c \in 0..((Elements(type) * type.size) - 1) |->
                       IF c \in DOMAIN source THEN source[c] ELSE <<Junk, 0, 0>>] @@ @]
        [] o.op = "load" -> [s EXCEPT !.value[o.reg] = Element(cells, Offset(type, o.map, s.value), type.size)]
        [] o.op = "store" ->
             [s EXCEPT !.mem[s.env[o.buf]] = Parts(s.value[o.args[1]], Offset(type, o.map, s.value), type.size) @@ @]
        [] o.op = "apply" -> [s EXCEPT !.value[o.reg] = Mix(o.n, [k \in DOMAIN o.args |-> s.value[o.args[k]]])]
        [] o.op = "select" -> [s EXCEPT !.value[o.reg] = s.value[o.args[IF taken(o.iv) THEN 1 ELSE 2]]]
        [] o.op = "if" -> IF taken(o.iv) THEN Run(f, o.body, s) ELSE s
        [] o.op = "linalg" -> Run(f, o.body, s)
        [] o.op \in {"for", "scf"} ->
             Iterate(f, o, 0, [s EXCEPT !.env = [b \in DOMAIN @ |->
               IF \E c \in ToSet(o.carries) : c.arg = b
               THEN @[The({c \in ToSet(o.carries) : c.arg = b}).init] ELSE @[b]]])
Iterate(f, o, i, s) ==
  LET carried(to, from, t) ==
        [t EXCEPT !.env = [b \in DOMAIN @ |->
           IF \E c \in ToSet(o.carries) : c[to] = b THEN @[The({c \in ToSet(o.carries) : c[to] = b})[from]] ELSE @[b]]]
  IN  IF i = o.n THEN carried("result", "arg", s)
      ELSE The({Iterate(f, o, i + 1, carried("arg", "yield", t)) : t \in {Run(f, o.body, [s EXCEPT !.value[o.iv] = i])}})
Run(f, body, s) ==
  IF body = <<>> THEN s ELSE The({Run(f, Tail(body), t) : t \in {Exec(f, Head(body), s)}})

Given(k, c) == Mix(k + 40, <<c>>)

\* What the caller finds in its arrays: the results, and what it passed in.
Meaning(f) ==
  LET at(b) == CHOOSE k \in DOMAIN f.args : f.args[k] = b
      start == [env |-> [b \in DOMAIN f.type |-> IF IsArg(f, b) THEN at(b) ELSE 0],
                mem |-> [k \in 0..Len(f.args) |->
                           IF k \notin 1..f.inputs THEN <<>>
                           ELSE LET t == f.type[f.args[k]]
                                IN  [c \in 0..((Elements(t) * t.size) - 1) |->
                                       <<Given(k, c \div t.size), c % t.size, t.size>>]],
                value |-> [v \in 0..f.fresh |-> Junk]]
      held(s, b) == [e \in 0..(Elements(f.type[b]) - 1) |->
                       Element(s.mem[s.env[b]], f.type[b].size * e, f.type[b].size)]
  IN  The({[results |-> [k \in DOMAIN ResultBuffers(f) |-> held(s, ResultBuffers(f)[k])],
            inputs |-> [k \in 1..f.inputs |-> held(s, f.args[k])]] : s \in {Run(f, f.body, start)}})

-----------------------------------------------------------------------------
(***************************************************************************)
(* Walking and rewriting.                                                  *)
(***************************************************************************)

\* The paths of all operations, in the order they are written.
RECURSIVE Paths(_)
Paths(body) ==
  FlattenSeq([k \in DOMAIN body |-> <<<<k>>>> \o LET below == Paths(body[k].body)
                                                 IN  [j \in DOMAIN below |-> <<k>> \o below[j]]])

RECURSIVE OpAt(_, _)
OpAt(body, p) == IF Len(p) = 1 THEN body[p[1]] ELSE OpAt(body[p[1]].body, Tail(p))

Below(body, p) == {q \in ToSet(Paths(body)) : Len(p) <= Len(q) /\ SubSeq(q, 1, Len(p)) = p}
Ops(body) == {OpAt(body, p) : p \in ToSet(Paths(body))}

\* The operation at a path replaced by a sequence of them.
RECURSIVE Splice(_, _, _)
Splice(body, p, new) ==
  IF Len(p) = 1 THEN SubSeq(body, 1, p[1] - 1) \o new \o SubSeq(body, p[1] + 1, Len(body))
  ELSE [body EXCEPT ![p[1]].body = Splice(@, Tail(p), new)]

RECURSIVE Without(_, _)
Without(body, P) ==
  LET kept(k) == [body[k] EXCEPT !.body = Without(@, {Tail(p) : p \in {q \in P : Len(q) > 1 /\ q[1] = k}})]
  IN  FlattenSeq([k \in DOMAIN body |-> IF <<k>> \in P THEN <<>> ELSE <<kept(k)>>])

\* Values and induction variables renamed by one function, buffers by another.
Sub(g, x) == IF x \in DOMAIN g THEN g[x] ELSE x
RenamedMap(map, values) ==
  [k \in DOMAIN map |-> [map[k] EXCEPT !.terms =
     FoldSet(LAMBDA i, g : (Sub(values, i) :> @[i]) @@ g, <<>>, DOMAIN @)]]
RECURSIVE Renamed(_, _, _)
Renamed(body, values, buffers) ==
  [k \in DOMAIN body |->
     [body[k] EXCEPT !.buf = Sub(buffers, @), !.from = Sub(buffers, @), !.iv = Sub(values, @),
        !.args = [j \in DOMAIN @ |-> Sub(values, @[j])], !.map = RenamedMap(@, values),
        !.carries = [j \in DOMAIN @ |-> [@[j] EXCEPT !.init = Sub(buffers, @), !.yield = Sub(buffers, @)]],
        !.body = Renamed(@, values, buffers)]]

Mentions(o, b) ==
  b \in {o.buf, o.from} \/ \E c \in ToSet(o.carries) : b \in {c.init, c.yield}
Users(f, b) == {p \in ToSet(Paths(f.body)) : Mentions(OpAt(f.body, p), b) /\ OpAt(f.body, p).op # "alloc"}
==================================================================================
