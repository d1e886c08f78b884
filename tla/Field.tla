-------------------------------- MODULE Field --------------------------------
(***************************************************************************)
(* Numbers for the transforms and the interpolation kernels.               *)
(*                                                                         *)
(* The code computes with doubles; the model computes the same formulas in *)
(* the field of P elements, extended by i with i * i = -1, where every     *)
(* equation that holds between them is exact.  P = 3 (mod 4), so that -1   *)
(* has no root, and conjugation inverts the P + 1 elements of norm 1:      *)
(* these are the unit circle, Turn is one step of it, and cos and sin are  *)
(* the two coordinates of its elements.  Rounding is what this leaves out. *)
(***************************************************************************)
EXTENDS Integers, Sequences

CONSTANTS P, Turn

Zero == <<0, 0>>
One == <<1, 0>>

Plus(a, b) == <<(a[1] + b[1]) % P, (a[2] + b[2]) % P>>
Minus(a, b) == <<(a[1] - b[1]) % P, (a[2] - b[2]) % P>>
Times(a, b) == <<(a[1] * b[1] - a[2] * b[2]) % P, (a[1] * b[2] + a[2] * b[1]) % P>>
Conj(a) == <<a[1], (0 - a[2]) % P>>
Scale(a, s) == <<(a[1] * s) % P, (a[2] * s) % P>>

\* 1 / k for a k that P does not divide.
Inverses == [k \in 1..(P - 1) |->
  LET power[e \in 0..P] == IF e = 0 THEN 1
                           ELSE LET h == power[e \div 2]
                                    sq == (h * h) % P
                                IN  IF e % 2 = 0 THEN sq ELSE (sq * k) % P
  IN  power[P - 2]]
Over(k) == Inverses[k % P]

Circle == LET power[e \in 0..P] == IF e = 0 THEN One
                                   ELSE LET h == power[e \div 2]
                                            sq == Times(h, h)
                                        IN  IF e % 2 = 0 THEN sq ELSE Times(sq, Turn)
          IN  [e \in 0..P |-> power[e]]

\* exp(2 pi i k / n), for an n that divides the circle.
Unit(k, n) == Circle[(k * ((P + 1) \div n)) % (P + 1)]

ASSUME FieldAssumption ==
  /\ P \in Nat /\ P % 4 = 3
  /\ Times(Turn, Conj(Turn)) = One
  /\ \A e \in 1..P : Circle[e] # One
  /\ Times(Circle[P], Turn) = One
  /\ Unit(1, 4) = <<0, 1>>

Sum(f, n) == LET upTo[k \in 0..n] == IF k = 0 THEN Zero ELSE Plus(upTo[k - 1], f[k - 1])
             IN  upTo[n]
=============================================================================
