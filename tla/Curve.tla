--------------------------------- MODULE Curve ---------------------------------
(***************************************************************************)
(* The group of edwards25519 as the client uses it through Kyber (external *)
(* to this program; src/src/lib/KeyPair.ts wraps its scalars and points).  *)
(* A point is its discrete logarithm: the group is that of the integers    *)
(* modulo a prime, in which everybody can divide.  That is enough for what *)
(* holders of keys can do, and says nothing of what others cannot.         *)
(***************************************************************************)
EXTENDS Integers

CONSTANT q   \* the order of the group

ASSUME OrderAssumption ==
  q \in Nat \ {0, 1} /\ \A a, b \in 1 .. q - 1 : (a * b) % q # 0

Scalar == 0 .. q - 1

\* Of the scalars and the points alike, but Public: a scalar times the base point.
Mul(s, p) == (s * p) % q
Add(a, b) == (a + b) % q
Sub(a, b) == (a - b) % q
Neg(a) == (-a) % q
Public(private) == Mul(private, 1)
================================================================================
