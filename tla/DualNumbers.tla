---------------------------- MODULE DualNumbers ----------------------------
(***************************************************************************)
(* The arithmetic in which the derivation of the EKF is evaluated instead  *)
(* of being transformed symbolically.                                      *)
(*                                                                         *)
(* A scalar of the program is a member of the field of integers modulo     *)
(* Prime: there the ring operations of the program and its factor 1/2 are  *)
(* exact, so two polynomials that differ do so at almost every point.  A   *)
(* number is a quadruple a + e*EPS + t*TAU + u*EPS*TAU in which            *)
(* EPS^2 = TAU^2 = 0.  The coefficient of EPS of an expression is its      *)
(* derivative along EPS, which is what symforce's jacobian followed by a   *)
(* substitution of zero computes; TAU stands in for dt where the program   *)
(* substitutes zero for dt^2.                                              *)
(*                                                                         *)
(* Quaternions and rotations are symforce's.                               *)
(***************************************************************************)
EXTENDS Integers

CONSTANT Prime

ASSUME PrimeAssumption == Prime \in Nat /\ Prime > 2 /\ Prime % 2 = 1

Scalar == 0 .. Prime - 1

\* The numbers with no infinitesimal part, and the two infinitesimals.
Lift(a) == <<a % Prime, 0, 0, 0>>
EPS     == <<0, 1, 0, 0>>
TAU     == <<0, 0, 1, 0>>

Value(x)      == x[1]
Derivative(x) == x[2]

\* What is left of x when TAU is replaced by 1.
AtOne(x) == <<(x[1] + x[3]) % Prime, (x[2] + x[4]) % Prime, 0, 0>>

x ++ y == [i \in 1 .. 4 |-> (x[i] + y[i]) % Prime]
x -- y == [i \in 1 .. 4 |-> (x[i] - y[i]) % Prime]
x ** y ==
    <<(x[1] * y[1]) % Prime,
      (x[1] * y[2] + x[2] * y[1]) % Prime,
      (x[1] * y[3] + x[3] * y[1]) % Prime,
      (x[1] * y[4] + x[4] * y[1] + x[2] * y[3] + x[3] * y[2]) % Prime>>

Zero == Lift(0)
One  == Lift(1)
Half == Lift((Prime + 1) \div 2)
Twice(x) == x ++ x

(***************************************************************************)
(* Vectors of three, quaternions and rotations                             *)
(***************************************************************************)
V3(a, b, c)  == [i \in 0 .. 2 |-> <<a, b, c>>[i + 1]]
Plus(v, w)   == [i \in 0 .. 2 |-> v[i] ++ w[i]]
Minus(v, w)  == [i \in 0 .. 2 |-> v[i] -- w[i]]
Times(k, v)  == [i \in 0 .. 2 |-> k ** v[i]]
Inner(v, w)  == (v[0] ** w[0] ++ v[1] ** w[1]) ++ v[2] ** w[2]

Quaternion(xyz, w) == [w |-> w, x |-> xyz[0], y |-> xyz[1], z |-> xyz[2]]
Xyz(q)  == V3(q.x, q.y, q.z)
conj(q) == Quaternion(Times(Zero -- One, Xyz(q)), q.w)

QuatTimes(p, q) ==
    [w |-> p.w ** q.w -- Inner(Xyz(p), Xyz(q)),
     x |-> (p.w ** q.x ++ p.x ** q.w) ++ (p.y ** q.z -- p.z ** q.y),
     y |-> (p.w ** q.y ++ p.y ** q.w) ++ (p.z ** q.x -- p.x ** q.z),
     z |-> (p.w ** q.z ++ p.z ** q.w) ++ (p.x ** q.y -- p.y ** q.x)]

\* The rows of the rotation matrix of q, in the form symforce gives it: the
\* diagonal uses that q is a unit quaternion.
RotationRows(q) ==
    V3(V3(One -- Twice(q.y ** q.y ++ q.z ** q.z),
          Twice(q.x ** q.y -- q.z ** q.w),
          Twice(q.x ** q.z ++ q.y ** q.w)),
       V3(Twice(q.x ** q.y ++ q.z ** q.w),
          One -- Twice(q.x ** q.x ++ q.z ** q.z),
          Twice(q.y ** q.z -- q.x ** q.w)),
       V3(Twice(q.x ** q.z -- q.y ** q.w),
          Twice(q.y ** q.z ++ q.x ** q.w),
          One -- Twice(q.x ** q.x ++ q.y ** q.y)))

Rotate(q, v) == [i \in 0 .. 2 |-> Inner(RotationRows(q)[i], v)]

\* The inverse of a rotation.
RotateBack(q, v) == Rotate(conj(q), v)
=============================================================================
