----------------------------- MODULE EkfProofs -----------------------------
(***************************************************************************)
(* Theorems about the generated functions of the EKF, for every odd prime  *)
(* of the field and every argument: the measurement functions return what  *)
(* the derivation computes, their Jacobians are with respect to the error  *)
(* that the prediction of the covariance estimates, and the prediction is  *)
(* that of the linearised kinematics.                                      *)
(*                                                                         *)
(* The numbers of the derivation are quadruples of residues.  The proofs   *)
(* take them as reductions of quadruples of integers (Mod), on which the   *)
(* provers calculate, and reduce once at the end: first the rotation of a  *)
(* field by an attitude that changes (FieldAlong), then the true state     *)
(* along an error (TrueIs) and the rows of H by it (HIsDerivative), then   *)
(* the rows by the chain rule through the 16 numbers of the state          *)
(* (ChainIsGenerated), the innovation and its variance.                    *)
(*                                                                         *)
(* For the prediction most numbers are known by their value and derivative *)
(* only (Has), and the attitude by its four layers (Layers): first one     *)
(* step of both states along an error and a noise, then the columns of the *)
(* Jacobians A and G (ErrorCoefficients, NoiseCoefficients), then the      *)
(* entries of A P A^T + G V G^T from those columns (PredictedEntry).       *)
(***************************************************************************)
EXTENDS EkfFunctions, TLAPS

(***************************************************************************)
(* Remainders                                                              *)
(***************************************************************************)
\* Division with remainder.
LEMMA ModIs ==
    ASSUME NEW a \in Int
    PROVE  /\ a % Prime \in Scalar /\ a % Prime \in Int /\ a \div Prime \in Int
           /\ a = Prime * (a \div Prime) + (a % Prime)
  BY PrimeAssumption DEF Scalar

\* The remainder is unique.
LEMMA ModUnique ==
    ASSUME NEW a \in Int, NEW q \in Int, NEW r \in Scalar, a = Prime * q + r
    PROVE  a % Prime = r
<1> DEFINE d == a \div Prime
           m == a % Prime
<1>1. /\ d \in Int /\ m \in Int /\ r \in Int /\ Prime \in Int /\ Prime > 0
      /\ 0 <= m /\ m < Prime /\ 0 <= r /\ r < Prime /\ a = Prime * d + m
  BY ModIs, PrimeAssumption DEF Scalar
<1> HIDE DEF d, m
<1>2. Prime * (q - d) = m - r /\ q - d \in Int
  BY <1>1
<1>3. ~(q - d >= 1)
  <2> SUFFICES ASSUME q - d >= 1 PROVE FALSE
    OBVIOUS
  <2>1. Prime * (q - d) >= Prime
    BY <1>1, <1>2
  <2> QED
    BY <1>1, <1>2, <2>1
<1>4. ~(q - d <= -1)
  <2> SUFFICES ASSUME q - d <= -1 PROVE FALSE
    OBVIOUS
  <2>1. Prime * (q - d) <= -Prime
    BY <1>1, <1>2
  <2> QED
    BY <1>1, <1>2, <2>1
<1>5. q - d = 0
  BY <1>2, <1>3, <1>4
<1>6. Prime * (q - d) = 0
  BY <1>1, <1>5
<1>7. m = r
  BY <1>1, <1>2, <1>6
<1> QED
  BY <1>7 DEF m

\* Numbers that differ by a multiple of Prime.
Congruent(a, b) == \E q \in Int : a = Prime * q + b

\* They have one remainder.
LEMMA ModSame ==
    ASSUME NEW a \in Int, NEW b \in Int, Congruent(a, b)
    PROVE  a % Prime = b % Prime
<1>1. PICK q \in Int : a = Prime * q + b
  BY DEF Congruent
<1>2. a = Prime * (q + (b \div Prime)) + (b % Prime)
  BY <1>1, ModIs, PrimeAssumption
<1>3. b % Prime \in Scalar /\ q + (b \div Prime) \in Int
  BY ModIs
<1> QED
  BY <1>2, <1>3, ModUnique

\* An operand may be reduced first.
LEMMA ModArith ==
    ASSUME NEW a \in Int, NEW b \in Int
    PROVE  /\ ((a % Prime) + b) % Prime = (a + b) % Prime
           /\ ((a % Prime) - b) % Prime = (a - b) % Prime
           /\ (b - (a % Prime)) % Prime = (b - a) % Prime
           /\ ((a % Prime) * b) % Prime = (a * b) % Prime
<1> DEFINE q == a \div Prime
           r == a % Prime
<1>1. q \in Int /\ r \in Int /\ a = Prime * q + r /\ Prime \in Int
  BY ModIs, PrimeAssumption
<1> HIDE DEF q, r
<1>2. Congruent(a + b, r + b) /\ Congruent(a - b, r - b)
  BY <1>1 DEF Congruent
<1>3. Congruent(b - r, b - a)
  BY <1>1 DEF Congruent
<1>4. Congruent(a * b, r * b)
  <2>1. a * b = Prime * (q * b) + r * b /\ q * b \in Int
    BY <1>1
  <2> QED
    BY <2>1 DEF Congruent
<1>5. /\ a + b \in Int /\ r + b \in Int /\ a - b \in Int /\ r - b \in Int
      /\ b - r \in Int /\ b - a \in Int /\ a * b \in Int /\ r * b \in Int
  BY <1>1
<1>6. /\ (r + b) % Prime = (a + b) % Prime
      /\ (r - b) % Prime = (a - b) % Prime
      /\ (b - r) % Prime = (b - a) % Prime
      /\ (r * b) % Prime = (a * b) % Prime
  BY <1>2, <1>3, <1>4, <1>5, ModSame
<1> QED
  BY <1>6 DEF r

\* Both operands may be.
LEMMA ModBoth ==
    ASSUME NEW a \in Int, NEW b \in Int
    PROVE  /\ ((a % Prime) + (b % Prime)) % Prime = (a + b) % Prime
           /\ ((a % Prime) - (b % Prime)) % Prime = (a - b) % Prime
           /\ ((a % Prime) * (b % Prime)) % Prime = (a * b) % Prime
<1> DEFINE r == a % Prime
           t == b % Prime
<1>1. r \in Int /\ t \in Int
  BY ModIs
<1>2. /\ (r + t) % Prime = (a + t) % Prime /\ (r - t) % Prime = (a - t) % Prime
      /\ (r * t) % Prime = (a * t) % Prime
  <2> HIDE DEF t
  <2> QED
    BY <1>1, ModArith
<1>3. /\ (t + a) % Prime = (b + a) % Prime /\ (a - t) % Prime = (a - b) % Prime
      /\ (t * a) % Prime = (b * a) % Prime
  BY ModArith
<1> HIDE DEF r, t
<1>4. t + a = a + t /\ b + a = a + b /\ t * a = a * t /\ b * a = a * b
  BY <1>1
<1>5. /\ (r + t) % Prime = (a + b) % Prime
      /\ (r - t) % Prime = (a - b) % Prime
      /\ (r * t) % Prime = (a * b) % Prime
  BY <1>2, <1>3, <1>4
<1> QED
  BY <1>5 DEF r, t

\* 0 and 1 are reduced, and so is what is reduced.
LEMMA ModSmall ==
    /\ 0 % Prime = 0 /\ 1 % Prime = 1
    /\ \A a \in Int : (a % Prime) % Prime = a % Prime
<1>1. 0 \in Scalar /\ 1 \in Scalar /\ 0 = Prime * 0 + 0 /\ 1 = Prime * 0 + 1
  BY PrimeAssumption DEF Scalar
<1>2. \A r \in Scalar : r \in Int /\ r = Prime * 0 + r
  BY PrimeAssumption DEF Scalar
<1>3. ASSUME NEW r \in Scalar PROVE r % Prime = r
  <2>1. r \in Int /\ 0 \in Int /\ r = Prime * 0 + r
    BY <1>2
  <2> QED
    BY <2>1, ModUnique
<1> QED
  BY <1>1, <1>3, ModIs

(***************************************************************************)
(* Numbers of the derivation                                               *)
(***************************************************************************)
\* The numbers of the derivation before they are reduced, and their arithmetic.
Dual == [1 .. 4 -> Int]

p \oplus q  == [i \in 1 .. 4 |-> p[i] + q[i]]
p \ominus q == [i \in 1 .. 4 |-> p[i] - q[i]]
p \otimes q ==
    [i \in 1 .. 4 |->
        CASE i = 1 -> p[1] * q[1]
          [] i = 2 -> p[1] * q[2] + p[2] * q[1]
          [] i = 3 -> p[1] * q[3] + p[3] * q[1]
          [] i = 4 -> (p[1] * q[4] + p[4] * q[1]) + (p[2] * q[3] + p[3] * q[2])]

Mod(p) == [i \in 1 .. 4 |-> p[i] % Prime]

\* The parts are integers.
LEMMA DualInt ==
    ASSUME NEW p \in Dual
    PROVE  p[1] \in Int /\ p[2] \in Int /\ p[3] \in Int /\ p[4] \in Int
  BY DEF Dual

\* What it does to each part.
LEMMA DualParts ==
    ASSUME NEW p \in Dual, NEW q \in Dual
    PROVE  /\ p \oplus q \in Dual /\ p \ominus q \in Dual /\ p \otimes q \in Dual
           /\ \A i \in 1 .. 4 : p[i] \in Int
           /\ \A i \in 1 .. 4 : (p \oplus q)[i] = p[i] + q[i]
           /\ \A i \in 1 .. 4 : (p \ominus q)[i] = p[i] - q[i]
           /\ (p \otimes q)[1] = p[1] * q[1]
           /\ (p \otimes q)[2] = p[1] * q[2] + p[2] * q[1]
           /\ (p \otimes q)[3] = p[1] * q[3] + p[3] * q[1]
           /\ (p \otimes q)[4] = (p[1] * q[4] + p[4] * q[1]) + (p[2] * q[3] + p[3] * q[2])
<1>1. \A i \in 1 .. 4 : p[i] \in Int /\ q[i] \in Int
  BY DEF Dual
<1>2. p \oplus q \in Dual /\ p \ominus q \in Dual
  BY <1>1 DEF Dual, \oplus, \ominus
<1>3. /\ (p \otimes q)[1] = p[1] * q[1]
      /\ (p \otimes q)[2] = p[1] * q[2] + p[2] * q[1]
      /\ (p \otimes q)[3] = p[1] * q[3] + p[3] * q[1]
      /\ (p \otimes q)[4] = (p[1] * q[4] + p[4] * q[1]) + (p[2] * q[3] + p[3] * q[2])
  BY DEF \otimes
<1>4. \A i \in 1 .. 4 : (p \otimes q)[i] \in Int
  <2>1. \A i \in 1 .. 4 : i = 1 \/ i = 2 \/ i = 3 \/ i = 4
    OBVIOUS
  <2> QED
    BY <1>1, <1>3, <2>1
<1>5. p \otimes q = [i \in 1 .. 4 |-> (p \otimes q)[i]]
  BY DEF \otimes
<1>6. p \otimes q \in Dual
  BY <1>4, <1>5 DEF Dual
<1> QED
  BY <1>1, <1>2, <1>3, <1>6 DEF \oplus, \ominus

\* Sums of products may be reduced part by part.
LEMMA ModProducts ==
    ASSUME NEW a \in Int, NEW b \in Int, NEW c \in Int, NEW d \in Int
    PROVE  /\ ((a % Prime) * (b % Prime) + (c % Prime) * (d % Prime)) % Prime
                = (a * b + c * d) % Prime
<1> DEFINE x == (a % Prime) * (b % Prime)
           y == (c % Prime) * (d % Prime)
           u == a * b
           v == c * d
<1>1. x \in Int /\ y \in Int /\ u \in Int /\ v \in Int
  BY ModIs
<1>2. x % Prime = u % Prime /\ y % Prime = v % Prime
  BY ModBoth
<1> HIDE DEF x, y, u, v
<1>3. (x + y) % Prime = ((x % Prime) + (y % Prime)) % Prime
      /\ (u + v) % Prime = ((u % Prime) + (v % Prime)) % Prime
  BY <1>1, ModBoth
<1>4. (x + y) % Prime = (u + v) % Prime
  BY <1>2, <1>3
<1> QED
  BY <1>4 DEF x, y, u, v

\* Reduction commutes with the arithmetic: the derivation can be read as one
\* on integers.
LEMMA ModHom ==
    ASSUME NEW p \in Dual, NEW q \in Dual
    PROVE  /\ Mod(p) ++ Mod(q) = Mod(p \oplus q)
           /\ Mod(p) -- Mod(q) = Mod(p \ominus q)
           /\ Mod(p) ** Mod(q) = Mod(p \otimes q)
<1>1. /\ p[1] \in Int /\ p[2] \in Int /\ p[3] \in Int /\ p[4] \in Int
      /\ q[1] \in Int /\ q[2] \in Int /\ q[3] \in Int /\ q[4] \in Int
  BY DEF Dual
<1>2. \A i \in 1 .. 4 : Mod(p)[i] = p[i] % Prime /\ Mod(q)[i] = q[i] % Prime
  BY DEF Mod
<1>3. Mod(p) ++ Mod(q) = Mod(p \oplus q)
  <2>1. ASSUME NEW i \in 1 .. 4
        PROVE  (Mod(p)[i] + Mod(q)[i]) % Prime = (p \oplus q)[i] % Prime
    <3>1. p[i] \in Int /\ q[i] \in Int /\ (p \oplus q)[i] = p[i] + q[i]
      BY DualParts
    <3>2. PICK a \in Int, b \in Int : a = p[i] /\ b = q[i]
      BY <3>1
    <3>3. ((a % Prime) + (b % Prime)) % Prime = (a + b) % Prime
      BY ModBoth
    <3> QED
      BY <1>2, <3>1, <3>2, <3>3
  <2> QED
    BY <2>1 DEF ++, Mod
<1>4. Mod(p) -- Mod(q) = Mod(p \ominus q)
  <2>1. ASSUME NEW i \in 1 .. 4
        PROVE  (Mod(p)[i] - Mod(q)[i]) % Prime = (p \ominus q)[i] % Prime
    <3>1. p[i] \in Int /\ q[i] \in Int /\ (p \ominus q)[i] = p[i] - q[i]
      BY DualParts
    <3>2. PICK a \in Int, b \in Int : a = p[i] /\ b = q[i]
      BY <3>1
    <3>3. ((a % Prime) - (b % Prime)) % Prime = (a - b) % Prime
      BY ModBoth
    <3> QED
      BY <1>2, <3>1, <3>2, <3>3
  <2> QED
    BY <2>1 DEF --, Mod
<1>5. Mod(p) ** Mod(q) = Mod(p \otimes q)
  <2> DEFINE x == Mod(p)
             y == Mod(q)
             r == p \otimes q
  <2>1. PICK p1 \in Int, p2 \in Int, p3 \in Int, p4 \in Int,
             q1 \in Int, q2 \in Int, q3 \in Int, q4 \in Int :
           /\ p[1] = p1 /\ p[2] = p2 /\ p[3] = p3 /\ p[4] = p4
           /\ q[1] = q1 /\ q[2] = q2 /\ q[3] = q3 /\ q[4] = q4
    BY <1>1
  <2>2. /\ x[1] = p1 % Prime /\ x[2] = p2 % Prime /\ x[3] = p3 % Prime /\ x[4] = p4 % Prime
        /\ y[1] = q1 % Prime /\ y[2] = q2 % Prime /\ y[3] = q3 % Prime /\ y[4] = q4 % Prime
    BY <1>2, <2>1
  <2>3. /\ r[1] = p1 * q1 /\ r[2] = p1 * q2 + p2 * q1 /\ r[3] = p1 * q3 + p3 * q1
        /\ r[4] = (p1 * q4 + p4 * q1) + (p2 * q3 + p3 * q2)
    BY <2>1, DualParts
  <2> HIDE DEF x, y, r
  <2>4. ((p1 % Prime) * (q1 % Prime)) % Prime = (p1 * q1) % Prime
    BY ModBoth
  <2>5. ((p1 % Prime) * (q2 % Prime) + (p2 % Prime) * (q1 % Prime)) % Prime
          = (p1 * q2 + p2 * q1) % Prime
    BY ModProducts
  <2>6. ((p1 % Prime) * (q3 % Prime) + (p3 % Prime) * (q1 % Prime)) % Prime
          = (p1 * q3 + p3 * q1) % Prime
    BY ModProducts
  <2>7. ((p1 % Prime) * (q4 % Prime) + (p4 % Prime) * (q1 % Prime) + (p2 % Prime) * (q3 % Prime)
           + (p3 % Prime) * (q2 % Prime)) % Prime
          = ((p1 * q4 + p4 * q1) + (p2 * q3 + p3 * q2)) % Prime
    <3> DEFINE a == (p1 % Prime) * (q4 % Prime) + (p4 % Prime) * (q1 % Prime)
               b == (p2 % Prime) * (q3 % Prime) + (p3 % Prime) * (q2 % Prime)
               c == p1 * q4 + p4 * q1
               d == p2 * q3 + p3 * q2
    <3>1. a % Prime = c % Prime
      BY ModProducts
    <3>2. b % Prime = d % Prime
      BY ModProducts
    <3>3. a \in Int /\ b \in Int /\ c \in Int /\ d \in Int
      BY ModIs
    <3>4. (p1 % Prime) * (q4 % Prime) + (p4 % Prime) * (q1 % Prime)
             + (p2 % Prime) * (q3 % Prime) + (p3 % Prime) * (q2 % Prime) = a + b
      <4>1. /\ (p1 % Prime) \in Int /\ (p2 % Prime) \in Int /\ (p3 % Prime) \in Int
            /\ (p4 % Prime) \in Int /\ (q1 % Prime) \in Int /\ (q2 % Prime) \in Int
            /\ (q3 % Prime) \in Int /\ (q4 % Prime) \in Int
        BY ModIs
      <4> QED
        BY <4>1
    <3> HIDE DEF a, b, c, d
    <3>5. (a + b) % Prime = ((a % Prime) + (b % Prime)) % Prime
          /\ (c + d) % Prime = ((c % Prime) + (d % Prime)) % Prime
      BY <3>3, ModBoth
    <3>6. (a + b) % Prime = (c + d) % Prime
      BY <3>1, <3>2, <3>5
    <3> QED
      BY <3>4, <3>6 DEF c, d
  <2>8. x ** y = <<r[1] % Prime, r[2] % Prime, r[3] % Prime, r[4] % Prime>>
    BY <2>2, <2>3, <2>4, <2>5, <2>6, <2>7 DEF **
  <2>9. <<r[1] % Prime, r[2] % Prime, r[3] % Prime, r[4] % Prime>> = Mod(r)
    BY DEF Mod
  <2> QED
    BY <2>8, <2>9 DEF x, y, r
<1> QED
  BY <1>3, <1>4, <1>5

\* The number a + b*EPS.
Pair(a, b) == [i \in 1 .. 4 |-> CASE i = 1 -> a [] i = 2 -> b [] OTHER -> 0]

\* Its parts.
LEMMA PairIs ==
    ASSUME NEW a \in Int, NEW b \in Int
    PROVE  /\ Pair(a, b) \in Dual
           /\ Pair(a, b)[1] = a /\ Pair(a, b)[2] = b /\ Pair(a, b)[3] = 0 /\ Pair(a, b)[4] = 0
  BY DEF Dual, Pair

\* The numbers of the program, before they are reduced.
LEMMA ModIsNumber ==
    /\ Zero = Mod(Pair(0, 0)) /\ One = Mod(Pair(1, 0)) /\ EPS = Mod(Pair(0, 1))
    /\ \A a \in Int : Lift(a) = Mod(Pair(a, 0))
<1>1. \A a, b \in Int : Mod(Pair(a, b)) = <<a % Prime, b % Prime, 0, 0>>
  BY ModSmall DEF Mod, Pair
<1> QED
  BY <1>1, ModSmall DEF Zero, One, EPS, Lift

\* What the parts of a reduced number are.
LEMMA ModParts ==
    ASSUME NEW p \in Dual
    PROVE  Value(Mod(p)) = p[1] % Prime /\ Derivative(Mod(p)) = p[2] % Prime
  BY DEF Value, Derivative, Mod

(***************************************************************************)
(* The layout of the state, and the nominal state of an argument           *)
(***************************************************************************)
\* The recursive functions of the layout, step by step.
LEMMA StorageStartIs ==
    /\ StorageStart[1] = 0 /\ StorageStart[2] = 4 /\ StorageStart[3] = 7
    /\ StorageStart[4] = 10 /\ StorageStart[5] = 13 /\ StorageStart[6] = 16
<1> DEFINE Starts(f) == f = [n \in 1 .. Len(State) + 1 |->
                               IF n = 1 THEN 0 ELSE f[n - 1] + storage_dim(State[n - 1])]
           F == [n \in 1 .. 6 |-> IF n = 1 THEN 0 ELSE 3 * n - 2]
<1>1. /\ Len(State) = 5 /\ 1 .. Len(State) + 1 = 1 .. 6
      /\ State[1] = "quat_nominal" /\ State[2] = "vel" /\ State[3] = "pos"
      /\ State[4] = "gyro_bias" /\ State[5] = "accel_bias"
  BY DEF State
<1>2. /\ storage_dim(State[1]) = 4 /\ storage_dim(State[2]) = 3 /\ storage_dim(State[3]) = 3
      /\ storage_dim(State[4]) = 3 /\ storage_dim(State[5]) = 3
  BY <1>1 DEF storage_dim
<1>3. \A n \in 1 .. 6 : n = 1 \/ n = 2 \/ n = 3 \/ n = 4 \/ n = 5 \/ n = 6
  OBVIOUS
<1>4. F = [n \in 1 .. 6 |-> IF n = 1 THEN 0 ELSE F[n - 1] + storage_dim(State[n - 1])]
  <2>1. ASSUME NEW n \in 1 .. 6
        PROVE  (IF n = 1 THEN 0 ELSE 3 * n - 2)
                  = (IF n = 1 THEN 0 ELSE F[n - 1] + storage_dim(State[n - 1]))
    BY <1>2, <1>3
  <2> QED
    BY <2>1
<1>5. Starts(F)
  BY <1>1, <1>4
<1>6. StorageStart = CHOOSE f : Starts(f)
  BY DEF StorageStart
<1>7. Starts(StorageStart)
  BY <1>5, <1>6
<1>8. \A n \in 1 .. 6 : StorageStart[n] = IF n = 1 THEN 0 ELSE StorageStart[n - 1] + storage_dim(State[n - 1])
  BY <1>1, <1>7
<1> QED
  BY <1>2, <1>8

\* The same of the errors.
LEMMA TangentStartIs ==
    /\ TangentStart[1] = 0 /\ TangentStart[2] = 3 /\ TangentStart[3] = 6
    /\ TangentStart[4] = 9 /\ TangentStart[5] = 12 /\ TangentStart[6] = 15
<1> DEFINE Starts(f) == f = [n \in 1 .. Len(State) + 1 |->
                               IF n = 1 THEN 0 ELSE f[n - 1] + tangent_dim(State[n - 1])]
           F == [n \in 1 .. 6 |-> 3 * n - 3]
<1>1. Len(State) = 5 /\ 1 .. Len(State) + 1 = 1 .. 6 /\ \A n \in 1 .. 5 : tangent_dim(State[n]) = 3
  BY DEF State, tangent_dim
<1>2. F = [n \in 1 .. 6 |-> IF n = 1 THEN 0 ELSE F[n - 1] + tangent_dim(State[n - 1])]
  <2>1. ASSUME NEW n \in 1 .. 6
        PROVE  3 * n - 3 = (IF n = 1 THEN 0 ELSE F[n - 1] + tangent_dim(State[n - 1]))
    BY <1>1
  <2> QED
    BY <2>1
<1>3. Starts(F)
  BY <1>1, <1>2
<1>4. TangentStart = CHOOSE f : Starts(f)
  BY DEF TangentStart
<1>5. Starts(TangentStart)
  BY <1>3, <1>4
<1>6. \A n \in 1 .. 6 :
         TangentStart[n] = IF n = 1 THEN 0 ELSE TangentStart[n - 1] + tangent_dim(State[n - 1])
  BY <1>1, <1>5
<1> QED
  BY <1>1, <1>6

\* The layout: where each member of the state and of the error lies.
LEMMA Layout ==
    /\ STATE_DIM = 16 /\ TANGENT_DIM = 15 /\ Storage = 0 .. 15 /\ Tangent = 0 .. 14
    /\ Keys = {"quat_nominal", "vel", "pos", "gyro_bias", "accel_bias"}
    /\ offset("vel") = 4 /\ offset("pos") = 7 /\ offset("gyro_bias") = 10
    /\ offset("accel_bias") = 13
    /\ BuildTangentStateIndex["quat_nominal"].idx = 0 /\ BuildTangentStateIndex["vel"].idx = 3
    /\ BuildTangentStateIndex["pos"].idx = 6 /\ BuildTangentStateIndex["gyro_bias"].idx = 9
    /\ BuildTangentStateIndex["accel_bias"].idx = 12
<1>1. /\ Len(State) = 5
      /\ State[1] = "quat_nominal" /\ State[2] = "vel" /\ State[3] = "pos"
      /\ State[4] = "gyro_bias" /\ State[5] = "accel_bias"
      /\ 1 .. Len(State) = {1, 2, 3, 4, 5}
  BY DEF State
<1>2. /\ STATE_DIM = 16 /\ TANGENT_DIM = 15
  BY <1>1, StorageStartIs, TangentStartIs DEF STATE_DIM, TANGENT_DIM
<1>3. Keys = {"quat_nominal", "vel", "pos", "gyro_bias", "accel_bias"}
  BY <1>1 DEF Keys
<1>4. /\ Position("quat_nominal") = 1 /\ Position("vel") = 2 /\ Position("pos") = 3
      /\ Position("gyro_bias") = 4 /\ Position("accel_bias") = 5
  BY <1>1 DEF Position
<1> QED
  BY <1>2, <1>3, <1>4, StorageStartIs, TangentStartIs
     DEF offset, BuildTangentStateIndex, Storage, Tangent

\* The members of an argument, as far as they are used here.
IsArgument(arg) ==
    /\ arg.state \in [0 .. 15 -> Int] /\ arg.P \in [0 .. 14 -> [0 .. 14 -> Int]]
    /\ arg.mag_ref \in [0 .. 2 -> Int] /\ arg.meas \in [0 .. 2 -> Int] /\ arg.R \in Int

\* The arguments of the calls have them.
LEMMA ArgumentsAre == \A arg \in EkfArguments : IsArgument(arg)
<1> SUFFICES ASSUME NEW arg \in EkfArguments PROVE IsArgument(arg)
  OBVIOUS
<1>1. Scalar \subseteq Int
  BY PrimeAssumption DEF Scalar
<1>2. /\ arg.state \in [0 .. 15 -> Scalar] /\ arg.P \in [0 .. 14 -> [0 .. 14 -> Scalar]]
      /\ arg.mag_ref \in [0 .. 2 -> Scalar] /\ arg.meas \in [0 .. 2 -> Scalar] /\ arg.R \in Scalar
  BY EkfArgumentsAssumption, Layout DEF Axes
<1> HIDE DEF Scalar
<1> QED
  BY <1>1, <1>2 DEF IsArgument

\* The members of the nominal state.
LEMMA NominalIs ==
    ASSUME NEW arg, IsArgument(arg)
    PROVE  /\ Nominal(arg)["quat_nominal"] = [w |-> Mod(Pair(arg.state[0], 0)), x |-> Mod(Pair(arg.state[1], 0)),
                                              y |-> Mod(Pair(arg.state[2], 0)), z |-> Mod(Pair(arg.state[3], 0))]
           /\ Nominal(arg)["vel"] = [j \in 0 .. 2 |-> Mod(Pair(arg.state[4 + j], 0))]
           /\ Nominal(arg)["pos"] = [j \in 0 .. 2 |-> Mod(Pair(arg.state[7 + j], 0))]
           /\ Nominal(arg)["gyro_bias"] = [j \in 0 .. 2 |-> Mod(Pair(arg.state[10 + j], 0))]
           /\ Nominal(arg)["accel_bias"] = [j \in 0 .. 2 |-> Mod(Pair(arg.state[13 + j], 0))]
<1> DEFINE v == [i \in Storage |-> Lift(arg.state[i])]
<1>1. \A i \in 0 .. 15 : v[i] = Mod(Pair(arg.state[i], 0))
  BY ModIsNumber, Layout DEF IsArgument
<1> HIDE DEF v
<1>2. Nominal(arg) = vstate_to_state(v)
  BY DEF Nominal, v
<1>3. /\ vstate_to_state(v)["quat_nominal"] = [w |-> v[0], x |-> v[1], y |-> v[2], z |-> v[3]]
      /\ vstate_to_state(v)["vel"] = [j \in 0 .. 2 |-> v[4 + j]]
      /\ vstate_to_state(v)["pos"] = [j \in 0 .. 2 |-> v[7 + j]]
      /\ vstate_to_state(v)["gyro_bias"] = [j \in 0 .. 2 |-> v[10 + j]]
      /\ vstate_to_state(v)["accel_bias"] = [j \in 0 .. 2 |-> v[13 + j]]
  BY Layout DEF vstate_to_state
<1>4. /\ \A j \in 0 .. 2 : v[4 + j] = Mod(Pair(arg.state[4 + j], 0))
      /\ \A j \in 0 .. 2 : v[7 + j] = Mod(Pair(arg.state[7 + j], 0))
      /\ \A j \in 0 .. 2 : v[10 + j] = Mod(Pair(arg.state[10 + j], 0))
      /\ \A j \in 0 .. 2 : v[13 + j] = Mod(Pair(arg.state[13 + j], 0))
  BY <1>1
<1> QED
  BY <1>1, <1>2, <1>3, <1>4

(***************************************************************************)
(* A field in the body frame of an attitude that changes                   *)
(***************************************************************************)
\* The rotation of DualNumbers on numbers that are not reduced.
Double(p) == p \oplus p

DualRows(w, x, y, z) ==
    V3(V3(Pair(1, 0) \ominus Double((y \otimes y) \oplus (z \otimes z)),
          Double((x \otimes y) \ominus (z \otimes w)),
          Double((x \otimes z) \oplus (y \otimes w))),
       V3(Double((x \otimes y) \oplus (z \otimes w)),
          Pair(1, 0) \ominus Double((x \otimes x) \oplus (z \otimes z)),
          Double((y \otimes z) \ominus (x \otimes w))),
       V3(Double((x \otimes z) \ominus (y \otimes w)),
          Double((y \otimes z) \oplus (x \otimes w)),
          Pair(1, 0) \ominus Double((x \otimes x) \oplus (y \otimes y))))

DualInner(v, w) == ((v[0] \otimes w[0]) \oplus (v[1] \otimes w[1])) \oplus (v[2] \otimes w[2])

\* A quaternion whose members are these numbers, reduced.
Reduces(q, w, x, y, z) ==
    /\ w \in Dual /\ x \in Dual /\ y \in Dual /\ z \in Dual
    /\ q.w = Mod(w) /\ q.x = Mod(x) /\ q.y = Mod(y) /\ q.z = Mod(z)

\* The rotation matrix is that matrix, reduced.
LEMMA RotationIs ==
    ASSUME NEW w, NEW x, NEW y, NEW z, NEW q, Reduces(q, w, x, y, z)
    PROVE  \A r, k \in 0 .. 2 :
              /\ DualRows(w, x, y, z)[r][k] \in Dual
              /\ RotationRows(q)[r][k] = Mod(DualRows(w, x, y, z)[r][k])
<1>1. /\ w \in Dual /\ x \in Dual /\ y \in Dual /\ z \in Dual
      /\ q.w = Mod(w) /\ q.x = Mod(x) /\ q.y = Mod(y) /\ q.z = Mod(z)
  BY DEF Reduces
<1> DEFINE R == RotationRows(q)
           D == DualRows(w, x, y, z)
<1>2. ASSUME NEW a \in Dual, NEW b \in Dual, NEW c \in Dual, NEW d \in Dual
      PROVE  /\ Twice(Mod(a) ** Mod(b) ++ Mod(c) ** Mod(d))
                   = Mod(Double((a \otimes b) \oplus (c \otimes d)))
             /\ Twice(Mod(a) ** Mod(b) -- Mod(c) ** Mod(d))
                   = Mod(Double((a \otimes b) \ominus (c \otimes d)))
             /\ One -- Twice(Mod(a) ** Mod(b) ++ Mod(c) ** Mod(d))
                   = Mod(Pair(1, 0) \ominus Double((a \otimes b) \oplus (c \otimes d)))
             /\ Double((a \otimes b) \oplus (c \otimes d)) \in Dual
             /\ Double((a \otimes b) \ominus (c \otimes d)) \in Dual
             /\ Pair(1, 0) \ominus Double((a \otimes b) \oplus (c \otimes d)) \in Dual
  <2>1. PICK f \in Dual, g \in Dual : f = a \otimes b /\ g = c \otimes d
    BY DualParts
  <2>2. /\ Mod(a) ** Mod(b) = Mod(f) /\ Mod(c) ** Mod(d) = Mod(g)
    BY <2>1, ModHom
  <2>3. PICK s \in Dual, t \in Dual : s = f \oplus g /\ t = f \ominus g
    BY DualParts
  <2>4. Mod(f) ++ Mod(g) = Mod(s) /\ Mod(f) -- Mod(g) = Mod(t)
    BY <2>3, ModHom
  <2>5. /\ Twice(Mod(s)) = Mod(Double(s)) /\ Twice(Mod(t)) = Mod(Double(t))
        /\ Double(s) \in Dual /\ Double(t) \in Dual
    BY ModHom, DualParts DEF Twice, Double
  <2>6. One = Mod(Pair(1, 0)) /\ Pair(1, 0) \in Dual
    BY ModIsNumber, PairIs
  <2>7. One -- Mod(Double(s)) = Mod(Pair(1, 0) \ominus Double(s))
        /\ Pair(1, 0) \ominus Double(s) \in Dual
    BY <2>5, <2>6, ModHom, DualParts
  <2> QED
    BY <2>1, <2>2, <2>3, <2>4, <2>5, <2>7
<1>3. /\ R[0][0] = One -- Twice(q.y ** q.y ++ q.z ** q.z)
      /\ R[0][1] = Twice(q.x ** q.y -- q.z ** q.w)
      /\ R[0][2] = Twice(q.x ** q.z ++ q.y ** q.w)
      /\ R[1][0] = Twice(q.x ** q.y ++ q.z ** q.w)
      /\ R[1][1] = One -- Twice(q.x ** q.x ++ q.z ** q.z)
      /\ R[1][2] = Twice(q.y ** q.z -- q.x ** q.w)
      /\ R[2][0] = Twice(q.x ** q.z -- q.y ** q.w)
      /\ R[2][1] = Twice(q.y ** q.z ++ q.x ** q.w)
      /\ R[2][2] = One -- Twice(q.x ** q.x ++ q.y ** q.y)
  BY DEF RotationRows, V3
<1>4. /\ D[0][0] = Pair(1, 0) \ominus Double((y \otimes y) \oplus (z \otimes z))
      /\ D[0][1] = Double((x \otimes y) \ominus (z \otimes w))
      /\ D[0][2] = Double((x \otimes z) \oplus (y \otimes w))
      /\ D[1][0] = Double((x \otimes y) \oplus (z \otimes w))
      /\ D[1][1] = Pair(1, 0) \ominus Double((x \otimes x) \oplus (z \otimes z))
      /\ D[1][2] = Double((y \otimes z) \ominus (x \otimes w))
      /\ D[2][0] = Double((x \otimes z) \ominus (y \otimes w))
      /\ D[2][1] = Double((y \otimes z) \oplus (x \otimes w))
      /\ D[2][2] = Pair(1, 0) \ominus Double((x \otimes x) \oplus (y \otimes y))
  BY DEF DualRows, V3
<1> HIDE DEF R, D
<1>5. ASSUME NEW k \in 0 .. 2 PROVE D[0][k] \in Dual /\ R[0][k] = Mod(D[0][k])
  <2>1. D[0][0] \in Dual /\ R[0][0] = Mod(D[0][0])
    BY <1>1, <1>2, <1>3, <1>4
  <2>2. D[0][1] \in Dual /\ R[0][1] = Mod(D[0][1])
    BY <1>1, <1>2, <1>3, <1>4
  <2>3. D[0][2] \in Dual /\ R[0][2] = Mod(D[0][2])
    BY <1>1, <1>2, <1>3, <1>4
  <2>4. k = 0 \/ k = 1 \/ k = 2
    OBVIOUS
  <2> QED
    BY <2>1, <2>2, <2>3, <2>4
<1>6. ASSUME NEW k \in 0 .. 2 PROVE D[1][k] \in Dual /\ R[1][k] = Mod(D[1][k])
  <2>1. D[1][0] \in Dual /\ R[1][0] = Mod(D[1][0])
    BY <1>1, <1>2, <1>3, <1>4
  <2>2. D[1][1] \in Dual /\ R[1][1] = Mod(D[1][1])
    BY <1>1, <1>2, <1>3, <1>4
  <2>3. D[1][2] \in Dual /\ R[1][2] = Mod(D[1][2])
    BY <1>1, <1>2, <1>3, <1>4
  <2>4. k = 0 \/ k = 1 \/ k = 2
    OBVIOUS
  <2> QED
    BY <2>1, <2>2, <2>3, <2>4
<1>7. ASSUME NEW k \in 0 .. 2 PROVE D[2][k] \in Dual /\ R[2][k] = Mod(D[2][k])
  <2>1. D[2][0] \in Dual /\ R[2][0] = Mod(D[2][0])
    BY <1>1, <1>2, <1>3, <1>4
  <2>2. D[2][1] \in Dual /\ R[2][1] = Mod(D[2][1])
    BY <1>1, <1>2, <1>3, <1>4
  <2>3. D[2][2] \in Dual /\ R[2][2] = Mod(D[2][2])
    BY <1>1, <1>2, <1>3, <1>4
  <2>4. k = 0 \/ k = 1 \/ k = 2
    OBVIOUS
  <2> QED
    BY <2>1, <2>2, <2>3, <2>4
<1>8. ASSUME NEW r \in 0 .. 2, NEW k \in 0 .. 2 PROVE D[r][k] \in Dual /\ R[r][k] = Mod(D[r][k])
  <2>1. r = 0 \/ r = 1 \/ r = 2
    OBVIOUS
  <2> QED
    BY <1>5, <1>6, <1>7, <2>1
<1> QED
  BY <1>8 DEF R, D

\* An inner product is that of the numbers, reduced.
LEMMA InnerIs ==
    ASSUME NEW v, NEW w, NEW f, NEW g,
           \A i \in 0 .. 2 : f[i] \in Dual /\ g[i] \in Dual /\ v[i] = Mod(f[i]) /\ w[i] = Mod(g[i])
    PROVE  DualInner(f, g) \in Dual /\ Inner(v, w) = Mod(DualInner(f, g))
<1>1. PICK a0 \in Dual, a1 \in Dual, a2 \in Dual, b0 \in Dual, b1 \in Dual, b2 \in Dual :
         /\ a0 = f[0] /\ a1 = f[1] /\ a2 = f[2] /\ b0 = g[0] /\ b1 = g[1] /\ b2 = g[2]
         /\ v[0] = Mod(a0) /\ v[1] = Mod(a1) /\ v[2] = Mod(a2)
         /\ w[0] = Mod(b0) /\ w[1] = Mod(b1) /\ w[2] = Mod(b2)
  OBVIOUS
<1>2. /\ Mod(a0) ** Mod(b0) = Mod(a0 \otimes b0) /\ a0 \otimes b0 \in Dual
      /\ Mod(a1) ** Mod(b1) = Mod(a1 \otimes b1) /\ a1 \otimes b1 \in Dual
      /\ Mod(a2) ** Mod(b2) = Mod(a2 \otimes b2) /\ a2 \otimes b2 \in Dual
  BY ModHom, DualParts
<1>3. PICK c0 \in Dual, c1 \in Dual, c2 \in Dual :
         c0 = a0 \otimes b0 /\ c1 = a1 \otimes b1 /\ c2 = a2 \otimes b2
  BY <1>2
<1>4. Mod(c0) ++ Mod(c1) = Mod(c0 \oplus c1) /\ c0 \oplus c1 \in Dual
  BY ModHom, DualParts
<1>5. Mod(c0 \oplus c1) ++ Mod(c2) = Mod((c0 \oplus c1) \oplus c2)
      /\ (c0 \oplus c1) \oplus c2 \in Dual
  BY <1>4, ModHom, DualParts
<1> QED
  BY <1>1, <1>2, <1>3, <1>4, <1>5 DEF Inner, DualInner

\* The parts of an entry of the rotation matrix, by its form.
LEMMA DoubleParts ==
    ASSUME NEW p \in Dual
    PROVE  /\ Double(p) \in Dual /\ Double(p)[1] = 2 * p[1] /\ Double(p)[2] = 2 * p[2]
<1>1. p[1] \in Int /\ p[2] \in Int /\ p \oplus p \in Dual
  BY DualParts
<1>2. (p \oplus p)[1] = p[1] + p[1] /\ (p \oplus p)[2] = p[2] + p[2]
  BY DualParts
<1>3. p[1] + p[1] = 2 * p[1] /\ p[2] + p[2] = 2 * p[2]
  BY <1>1
<1> QED
  BY <1>1, <1>2, <1>3 DEF Double

\* The sum of two products, doubled.
LEMMA SumParts ==
    ASSUME NEW a \in Dual, NEW b \in Dual, NEW c \in Dual, NEW d \in Dual
    PROVE  /\ Double((a \otimes b) \oplus (c \otimes d)) \in Dual
           /\ Double((a \otimes b) \oplus (c \otimes d))[1] = 2 * (a[1] * b[1] + c[1] * d[1])
           /\ Double((a \otimes b) \oplus (c \otimes d))[2]
                = 2 * ((a[1] * b[2] + a[2] * b[1]) + (c[1] * d[2] + c[2] * d[1]))
<1>1. PICK f \in Dual, g \in Dual : f = a \otimes b /\ g = c \otimes d
  BY DualParts
<1>2. /\ f[1] = a[1] * b[1] /\ f[2] = a[1] * b[2] + a[2] * b[1]
      /\ g[1] = c[1] * d[1] /\ g[2] = c[1] * d[2] + c[2] * d[1]
  BY <1>1, DualParts
<1>3. PICK s \in Dual : s = f \oplus g /\ s[1] = f[1] + g[1] /\ s[2] = f[2] + g[2]
  BY DualParts
<1> QED
  BY <1>1, <1>2, <1>3, DoubleParts

\* The difference of two products, doubled.
LEMMA DifferenceParts ==
    ASSUME NEW a \in Dual, NEW b \in Dual, NEW c \in Dual, NEW d \in Dual
    PROVE  /\ Double((a \otimes b) \ominus (c \otimes d))[1] = 2 * (a[1] * b[1] - c[1] * d[1])
           /\ Double((a \otimes b) \ominus (c \otimes d))[2]
                = 2 * ((a[1] * b[2] + a[2] * b[1]) - (c[1] * d[2] + c[2] * d[1]))
<1>1. PICK f \in Dual, g \in Dual : f = a \otimes b /\ g = c \otimes d
  BY DualParts
<1>2. /\ f[1] = a[1] * b[1] /\ f[2] = a[1] * b[2] + a[2] * b[1]
      /\ g[1] = c[1] * d[1] /\ g[2] = c[1] * d[2] + c[2] * d[1]
  BY <1>1, DualParts
<1>3. PICK s \in Dual : s = f \ominus g /\ s[1] = f[1] - g[1] /\ s[2] = f[2] - g[2]
  BY DualParts
<1> QED
  BY <1>1, <1>2, <1>3, DoubleParts

\* The same on the diagonal.
LEMMA DiagonalParts ==
    ASSUME NEW a \in Dual, NEW b \in Dual, NEW c \in Dual, NEW d \in Dual
    PROVE  /\ (Pair(1, 0) \ominus Double((a \otimes b) \oplus (c \otimes d)))[1]
                = 1 - 2 * (a[1] * b[1] + c[1] * d[1])
           /\ (Pair(1, 0) \ominus Double((a \otimes b) \oplus (c \otimes d)))[2]
                = 0 - 2 * ((a[1] * b[2] + a[2] * b[1]) + (c[1] * d[2] + c[2] * d[1]))
<1> DEFINE D == Double((a \otimes b) \oplus (c \otimes d))
<1>1. /\ D \in Dual /\ D[1] = 2 * (a[1] * b[1] + c[1] * d[1])
      /\ D[2] = 2 * ((a[1] * b[2] + a[2] * b[1]) + (c[1] * d[2] + c[2] * d[1]))
  BY SumParts
<1> HIDE DEF D
<1>2. PICK s \in Dual : s = D
  BY <1>1
<1>3. PICK u \in Dual : u = Pair(1, 0) /\ u[1] = 1 /\ u[2] = 0
  BY PairIs
<1>4. (u \ominus s)[1] = u[1] - s[1] /\ (u \ominus s)[2] = u[2] - s[2]
  BY DualParts
<1> QED
  BY <1>1, <1>2, <1>3, <1>4 DEF D

\* The parts of an inner product with a vector without infinitesimal parts.
LEMMA InnerParts ==
    ASSUME NEW v, NEW w, \A i \in 0 .. 2 : v[i] \in Dual /\ w[i] \in Dual /\ w[i][2] = 0
    PROVE  /\ DualInner(v, w)[1] = v[0][1] * w[0][1] + v[1][1] * w[1][1] + v[2][1] * w[2][1]
           /\ DualInner(v, w)[2] = v[0][2] * w[0][1] + v[1][2] * w[1][1] + v[2][2] * w[2][1]
<1>1. ASSUME NEW p \in Dual, NEW q \in Dual, q[2] = 0
      PROVE  /\ p \otimes q \in Dual
             /\ (p \otimes q)[1] = p[1] * q[1] /\ (p \otimes q)[2] = p[2] * q[1]
  <2>1. PICK a \in Int, b \in Int, m \in Int : a = p[1] /\ b = p[2] /\ m = q[1]
    BY DualInt
  <2>2. a * 0 + b * m = b * m
    OBVIOUS
  <2>3. (p \otimes q)[2] = p[1] * q[2] + p[2] * q[1] /\ (p \otimes q)[1] = p[1] * q[1]
        /\ p \otimes q \in Dual
    BY DualParts
  <2> QED
    BY <1>1, <2>1, <2>2, <2>3
<1>2. PICK f0 \in Dual : /\ f0 = v[0] \otimes w[0]
                         /\ f0[1] = v[0][1] * w[0][1] /\ f0[2] = v[0][2] * w[0][1]
  BY <1>1
<1>3. PICK f1 \in Dual : /\ f1 = v[1] \otimes w[1]
                         /\ f1[1] = v[1][1] * w[1][1] /\ f1[2] = v[1][2] * w[1][1]
  BY <1>1
<1>4. PICK f2 \in Dual : /\ f2 = v[2] \otimes w[2]
                         /\ f2[1] = v[2][1] * w[2][1] /\ f2[2] = v[2][2] * w[2][1]
  BY <1>1
<1>5. PICK g \in Dual : g = f0 \oplus f1 /\ g[1] = f0[1] + f1[1] /\ g[2] = f0[2] + f1[2]
  BY DualParts
<1>6. (g \oplus f2)[1] = g[1] + f2[1] /\ (g \oplus f2)[2] = g[2] + f2[2]
  BY DualParts
<1>7. DualInner(v, w) = g \oplus f2
  BY <1>2, <1>3, <1>4, <1>5 DEF DualInner
<1> QED
  BY <1>2, <1>3, <1>4, <1>5, <1>6, <1>7

\* What is measured of a field, and how it changes with the quaternion: w, x,
\* y, z are numbers of the quaternion, dw, dx, dy, dz their changes.
FieldValue(s, m, c) ==
    CASE c = 0 -> (1 - 2 * (s[2] * s[2] + s[3] * s[3])) * m[0]
                    + 2 * (s[1] * s[2] + s[3] * s[0]) * m[1]
                    + 2 * (s[1] * s[3] - s[2] * s[0]) * m[2]
      [] c = 1 -> 2 * (s[1] * s[2] - s[3] * s[0]) * m[0]
                    + (1 - 2 * (s[1] * s[1] + s[3] * s[3])) * m[1]
                    + 2 * (s[2] * s[3] + s[1] * s[0]) * m[2]
      [] c = 2 -> 2 * (s[1] * s[3] + s[2] * s[0]) * m[0]
                    + 2 * (s[2] * s[3] - s[1] * s[0]) * m[1]
                    + (1 - 2 * (s[1] * s[1] + s[2] * s[2])) * m[2]

\* A quaternion of numbers s that change by d, and a field m.
FieldChange(q, s, m, d) ==
    /\ s[0] \in Int /\ s[1] \in Int /\ s[2] \in Int /\ s[3] \in Int
    /\ m \in [0 .. 2 -> Int]
    /\ d.w \in Int /\ d.x \in Int /\ d.y \in Int /\ d.z \in Int
    /\ q.w = Mod(Pair(s[0], d.w)) /\ q.x = Mod(Pair(s[1], d.x))
    /\ q.y = Mod(Pair(s[2], d.y)) /\ q.z = Mod(Pair(s[3], d.z))

\* The field in the body frame, for a quaternion that changes: its derivative
\* is the one that the generated function computes, times the change.
LEMMA FieldAlong ==
    ASSUME NEW s, NEW m, NEW d, NEW q, FieldChange(q, s, m, d), NEW c \in 0 .. 2
    PROVE  \E p \in Dual :
              /\ RotateBack(q, LiftV3(m))[c] = Mod(p)
              /\ p[1] = FieldValue(s, m, c)
              /\ p[2] = d.w * FieldDerivative(s, m, c).w + d.x * FieldDerivative(s, m, c).x
                          + d.y * FieldDerivative(s, m, c).y + d.z * FieldDerivative(s, m, c).z
<1>1. PICK dw \in Int, dx \in Int, dy \in Int, dz \in Int :
         /\ dw = d.w /\ dx = d.x /\ dy = d.y /\ dz = d.z
  BY DEF FieldChange
<1> SUFFICES \E p \in Dual :
              /\ RotateBack(q, LiftV3(m))[c] = Mod(p)
              /\ p[1] = FieldValue(s, m, c)
              /\ p[2] = dw * FieldDerivative(s, m, c).w + dx * FieldDerivative(s, m, c).x
                          + dy * FieldDerivative(s, m, c).y + dz * FieldDerivative(s, m, c).z
  BY <1>1
<1>2. PICK sw \in Int, sx \in Int, sy \in Int, sz \in Int, m0 \in Int, m1 \in Int, m2 \in Int :
         /\ sw = s[0] /\ sx = s[1] /\ sy = s[2] /\ sz = s[3]
         /\ m0 = m[0] /\ m1 = m[1] /\ m2 = m[2]
  <2>1. /\ s[0] \in Int /\ s[1] \in Int /\ s[2] \in Int /\ s[3] \in Int
        /\ m[0] \in Int /\ m[1] \in Int /\ m[2] \in Int
    BY DEF FieldChange
  <2> QED
    BY <2>1
\* The conjugate.
<1>3. PICK w \in Dual, X \in Dual, Y \in Dual, Z \in Dual :
         /\ w = Pair(sw, dw) /\ X = Pair(-sx, -dx) /\ Y = Pair(-sy, -dy) /\ Z = Pair(-sz, -dz)
         /\ w[1] = sw /\ X[1] = -sx /\ Y[1] = -sy /\ Z[1] = -sz
         /\ w[2] = dw /\ X[2] = -dx /\ Y[2] = -dy /\ Z[2] = -dz
  <2>1. -sx \in Int /\ -sy \in Int /\ -sz \in Int /\ -dx \in Int /\ -dy \in Int /\ -dz \in Int
    OBVIOUS
  <2>2. PICK x1 \in Int, y1 \in Int, z1 \in Int, x2 \in Int, y2 \in Int, z2 \in Int :
           x1 = -sx /\ y1 = -sy /\ z1 = -sz /\ x2 = -dx /\ y2 = -dy /\ z2 = -dz
    BY <2>1
  <2>3. /\ Pair(sw, dw) \in Dual /\ Pair(x1, x2) \in Dual /\ Pair(y1, y2) \in Dual
        /\ Pair(z1, z2) \in Dual
        /\ Pair(sw, dw)[1] = sw /\ Pair(x1, x2)[1] = x1 /\ Pair(y1, y2)[1] = y1
        /\ Pair(z1, z2)[1] = z1
        /\ Pair(sw, dw)[2] = dw /\ Pair(x1, x2)[2] = x2 /\ Pair(y1, y2)[2] = y2
        /\ Pair(z1, z2)[2] = z2
    BY DEF Pair, Dual
  <2> QED
    BY <2>2, <2>3
<1>4. conj(q).w = Mod(w) /\ conj(q).x = Mod(X) /\ conj(q).y = Mod(Y) /\ conj(q).z = Mod(Z)
  <2>1. ASSUME NEW a \in Int, NEW b \in Int
        PROVE  (Zero -- One) ** Mod(Pair(a, b)) = Mod(Pair(-a, -b))
    <3> DEFINE p == Pair(a, b)
    <3>1. p \in Dual /\ p[1] = a /\ p[2] = b /\ p[3] = 0 /\ p[4] = 0
      BY DEF Pair, Dual
    <3> HIDE DEF p
    <3>2. PICK n \in Dual : /\ n = Pair(0, 0) \ominus Pair(1, 0) /\ Zero -- One = Mod(n)
                            /\ n[1] = 0 - 1 /\ n[2] = 0 - 0 /\ n[3] = 0 - 0 /\ n[4] = 0 - 0
      <4>1. PICK f \in Dual, g \in Dual : /\ f = Pair(0, 0) /\ g = Pair(1, 0)
                                         /\ f[1] = 0 /\ f[2] = 0 /\ f[3] = 0 /\ f[4] = 0
                                         /\ g[1] = 1 /\ g[2] = 0 /\ g[3] = 0 /\ g[4] = 0
        BY PairIs
      <4>2. /\ f \ominus g \in Dual /\ Zero -- One = Mod(f \ominus g)
            /\ \A i \in 1 .. 4 : (f \ominus g)[i] = f[i] - g[i]
        BY <4>1, ModIsNumber, ModHom, DualParts
      <4> QED
        BY <4>1, <4>2
    <3>3. Zero -- One = Mod(n)
      BY <3>2
    <3>4. n[1] = -1 /\ n[2] = 0 /\ n[3] = 0 /\ n[4] = 0
      BY <3>2
    <3>5. /\ (n \otimes p)[1] = -a /\ (n \otimes p)[2] = -b
          /\ (n \otimes p)[3] = 0 /\ (n \otimes p)[4] = 0 /\ n \otimes p \in Dual
      <4>1. /\ n \otimes p \in Dual
            /\ (n \otimes p)[1] = n[1] * p[1]
            /\ (n \otimes p)[2] = n[1] * p[2] + n[2] * p[1]
            /\ (n \otimes p)[3] = n[1] * p[3] + n[3] * p[1]
            /\ (n \otimes p)[4] = (n[1] * p[4] + n[4] * p[1]) + (n[2] * p[3] + n[3] * p[2])
        BY <3>1, DualParts
      <4> QED
        BY <3>1, <3>4, <4>1
    <3>6. n \otimes p = Pair(-a, -b)
      <4>1. \A i \in 1 .. 4 : i = 1 \/ i = 2 \/ i = 3 \/ i = 4
        OBVIOUS
      <4>2. \A i \in 1 .. 4 : (n \otimes p)[i] = Pair(-a, -b)[i]
        BY <3>5, <4>1 DEF Pair
      <4> QED
        BY <4>2 DEF \otimes, Pair
    <3> QED
      BY <3>1, <3>2, <3>3, <3>6, ModHom DEF p
  <2>2. /\ conj(q).w = q.w /\ conj(q).x = (Zero -- One) ** q.x
        /\ conj(q).y = (Zero -- One) ** q.y /\ conj(q).z = (Zero -- One) ** q.z
    BY DEF conj, Quaternion, Times, Xyz, V3
  <2>3. /\ q.w = Mod(Pair(sw, dw)) /\ q.x = Mod(Pair(sx, dx))
        /\ q.y = Mod(Pair(sy, dy)) /\ q.z = Mod(Pair(sz, dz))
    BY <1>1, <1>2 DEF FieldChange
  <2> QED
    BY <1>3, <2>1, <2>2, <2>3
<1> DEFINE D == DualRows(w, X, Y, Z)
           M == [k \in 0 .. 2 |-> Pair(m[k], 0)]
<1>5. /\ \A k \in 0 .. 2 : M[k] \in Dual /\ LiftV3(m)[k] = Mod(M[k])
      /\ M[0][1] = m0 /\ M[1][1] = m1 /\ M[2][1] = m2
      /\ M[0][2] = 0 /\ M[1][2] = 0 /\ M[2][2] = 0
  <2>1. ASSUME NEW k \in 0 .. 2
        PROVE  /\ M[k] \in Dual /\ LiftV3(m)[k] = Mod(M[k])
               /\ M[k][1] = m[k] /\ M[k][2] = 0
    <3>1. PICK a \in Int : a = m[k]
      BY DEF FieldChange
    <3>2. Pair(a, 0) \in Dual /\ Pair(a, 0)[1] = a /\ Pair(a, 0)[2] = 0 /\ Lift(a) = Mod(Pair(a, 0))
      <4>1. Pair(a, 0) \in Dual /\ Pair(a, 0)[1] = a /\ Pair(a, 0)[2] = 0
        BY DEF Pair, Dual
      <4> QED
        BY <4>1, ModIsNumber
    <3> QED
      BY <3>1, <3>2 DEF LiftV3, Axes
  <2> QED
    BY <1>2, <2>1
<1>6. \A r, k \in 0 .. 2 : D[r][k] \in Dual /\ RotationRows(conj(q))[r][k] = Mod(D[r][k])
  <2>1. Reduces(conj(q), w, X, Y, Z)
    BY <1>4 DEF Reduces
  <2>2. \A r, k \in 0 .. 2 : /\ DualRows(w, X, Y, Z)[r][k] \in Dual
                             /\ RotationRows(conj(q))[r][k] = Mod(DualRows(w, X, Y, Z)[r][k])
    BY <2>1, RotationIs
  <2> QED
    BY <2>1, <2>2
<1>7. /\ DualInner(D[c], M) \in Dual
      /\ RotateBack(q, LiftV3(m))[c] = Mod(DualInner(D[c], M))
  <2>1. \A k \in 0 .. 2 : /\ D[c][k] \in Dual /\ M[k] \in Dual
                          /\ RotationRows(conj(q))[c][k] = Mod(D[c][k])
                          /\ LiftV3(m)[k] = Mod(M[k])
    BY <1>5, <1>6
  <2> HIDE DEF D, M
  <2>2. /\ DualInner(D[c], M) \in Dual
        /\ Inner(RotationRows(conj(q))[c], LiftV3(m)) = Mod(DualInner(D[c], M))
    BY <2>1, InnerIs
  <2> QED
    BY <2>2 DEF RotateBack, Rotate
<1>8. /\ D[0][0] = Pair(1, 0) \ominus Double((Y \otimes Y) \oplus (Z \otimes Z))
      /\ D[0][1] = Double((X \otimes Y) \ominus (Z \otimes w))
      /\ D[0][2] = Double((X \otimes Z) \oplus (Y \otimes w))
      /\ D[1][0] = Double((X \otimes Y) \oplus (Z \otimes w))
      /\ D[1][1] = Pair(1, 0) \ominus Double((X \otimes X) \oplus (Z \otimes Z))
      /\ D[1][2] = Double((Y \otimes Z) \ominus (X \otimes w))
      /\ D[2][0] = Double((X \otimes Z) \ominus (Y \otimes w))
      /\ D[2][1] = Double((Y \otimes Z) \oplus (X \otimes w))
      /\ D[2][2] = Pair(1, 0) \ominus Double((X \otimes X) \oplus (Y \otimes Y))
  BY DEF DualRows, V3
<1> HIDE DEF D, M
<1>9. CASE c = 0
  <2>1. D[0][0][1] = 1 - 2 * ((-sy) * (-sy) + (-sz) * (-sz))
        /\ D[0][0][2] = 0 - 2 * (((-sy) * (-dy) + (-dy) * (-sy)) + ((-sz) * (-dz) + (-dz) * (-sz)))
    <3>1. /\ D[0][0][1] = 1 - 2 * (Y[1] * Y[1] + Z[1] * Z[1])
          /\ D[0][0][2] = 0 - 2 * ((Y[1] * Y[2] + Y[2] * Y[1]) + (Z[1] * Z[2] + Z[2] * Z[1]))
      BY <1>8, DiagonalParts
    <3> QED
      BY <1>3, <3>1
  <2>2. D[0][1][1] = 2 * ((-sx) * (-sy) - (-sz) * sw)
        /\ D[0][1][2] = 2 * (((-sx) * (-dy) + (-dx) * (-sy)) - ((-sz) * dw + (-dz) * sw))
    <3>1. /\ D[0][1][1] = 2 * (X[1] * Y[1] - Z[1] * w[1])
          /\ D[0][1][2] = 2 * ((X[1] * Y[2] + X[2] * Y[1]) - (Z[1] * w[2] + Z[2] * w[1]))
      BY <1>8, DifferenceParts
    <3> QED
      BY <1>3, <3>1
  <2>3. D[0][2][1] = 2 * ((-sx) * (-sz) + (-sy) * sw)
        /\ D[0][2][2] = 2 * (((-sx) * (-dz) + (-dx) * (-sz)) + ((-sy) * dw + (-dy) * sw))
    <3>1. /\ D[0][2][1] = 2 * (X[1] * Z[1] + Y[1] * w[1])
          /\ D[0][2][2] = 2 * ((X[1] * Z[2] + X[2] * Z[1]) + (Y[1] * w[2] + Y[2] * w[1]))
      BY <1>8, SumParts
    <3> QED
      BY <1>3, <3>1
  <2> DEFINE a0 == 1 - 2 * ((-sy) * (-sy) + (-sz) * (-sz))
             a1 == 2 * ((-sx) * (-sy) - (-sz) * sw)
             a2 == 2 * ((-sx) * (-sz) + (-sy) * sw)
             b0 == 0 - 2 * (((-sy) * (-dy) + (-dy) * (-sy)) + ((-sz) * (-dz) + (-dz) * (-sz)))
             b1 == 2 * (((-sx) * (-dy) + (-dx) * (-sy)) - ((-sz) * dw + (-dz) * sw))
             b2 == 2 * (((-sx) * (-dz) + (-dx) * (-sz)) + ((-sy) * dw + (-dy) * sw))
  <2>4. a0 \in Int /\ a1 \in Int /\ a2 \in Int /\ b0 \in Int /\ b1 \in Int /\ b2 \in Int
    OBVIOUS
  <2>5. /\ a0 * m0 + a1 * m1 + a2 * m2 = FieldValue(s, m, 0)
        /\ b0 * m0 + b1 * m1 + b2 * m2
             = dw * FieldDerivative(s, m, 0).w + dx * FieldDerivative(s, m, 0).x
                 + dy * FieldDerivative(s, m, 0).y + dz * FieldDerivative(s, m, 0).z
    <3>1. /\ FieldDerivative(s, m, 0).w = 2 * (m1 * sz - m2 * sy)
          /\ FieldDerivative(s, m, 0).x = 2 * (m2 * sz + m1 * sy)
          /\ FieldDerivative(s, m, 0).y = 2 * (m1 * sx - m2 * sw) - 4 * m0 * sy
          /\ FieldDerivative(s, m, 0).z = 2 * (m2 * sx + m1 * sw) - 4 * m0 * sz
      BY <1>2 DEF FieldDerivative
    <3>2. FieldValue(s, m, 0) = (1 - 2 * (sy * sy + sz * sz)) * m0 + 2 * (sx * sy + sz * sw) * m1 + 2 * (sx * sz - sy * sw) * m2
      BY <1>2 DEF FieldValue
    <3>3. a0 * m0 + a1 * m1 + a2 * m2 = (1 - 2 * (sy * sy + sz * sz)) * m0 + 2 * (sx * sy + sz * sw) * m1 + 2 * (sx * sz - sy * sw) * m2
      OBVIOUS
    <3>4. b0 * m0 + b1 * m1 + b2 * m2
             = dw * (2 * (m1 * sz - m2 * sy)) + dx * (2 * (m2 * sz + m1 * sy))
                 + dy * (2 * (m1 * sx - m2 * sw) - 4 * m0 * sy) + dz * (2 * (m2 * sx + m1 * sw) - 4 * m0 * sz)
      OBVIOUS
    <3> HIDE DEF a0, a1, a2, b0, b1, b2
    <3> QED
      BY <3>1, <3>2, <3>3, <3>4
  <2> HIDE DEF a0, a1, a2, b0, b1, b2
  <2>6. /\ DualInner(D[0], M)[1] = a0 * m0 + a1 * m1 + a2 * m2
        /\ DualInner(D[0], M)[2] = b0 * m0 + b1 * m1 + b2 * m2
    <3>1. /\ D[0][0][1] = a0 /\ D[0][1][1] = a1 /\ D[0][2][1] = a2
          /\ D[0][0][2] = b0 /\ D[0][1][2] = b1 /\ D[0][2][2] = b2
      BY <2>1, <2>2, <2>3 DEF a0, a1, a2, b0, b1, b2
    <3>2. \A k \in 0 .. 2 : D[0][k] \in Dual /\ M[k] \in Dual /\ M[k][2] = 0
      BY <1>5, <1>6
    <3>3. /\ DualInner(D[0], M)[1] = D[0][0][1] * M[0][1] + D[0][1][1] * M[1][1] + D[0][2][1] * M[2][1]
          /\ DualInner(D[0], M)[2] = D[0][0][2] * M[0][1] + D[0][1][2] * M[1][1] + D[0][2][2] * M[2][1]
      BY <3>2, InnerParts
    <3> QED
      BY <1>5, <2>4, <3>1, <3>3
  <2> QED
    BY <1>7, <1>9, <2>5, <2>6
<1>10. CASE c = 1
  <2>1. D[1][0][1] = 2 * ((-sx) * (-sy) + (-sz) * sw)
        /\ D[1][0][2] = 2 * (((-sx) * (-dy) + (-dx) * (-sy)) + ((-sz) * dw + (-dz) * sw))
    <3>1. /\ D[1][0][1] = 2 * (X[1] * Y[1] + Z[1] * w[1])
          /\ D[1][0][2] = 2 * ((X[1] * Y[2] + X[2] * Y[1]) + (Z[1] * w[2] + Z[2] * w[1]))
      BY <1>8, SumParts
    <3> QED
      BY <1>3, <3>1
  <2>2. D[1][1][1] = 1 - 2 * ((-sx) * (-sx) + (-sz) * (-sz))
        /\ D[1][1][2] = 0 - 2 * (((-sx) * (-dx) + (-dx) * (-sx)) + ((-sz) * (-dz) + (-dz) * (-sz)))
    <3>1. /\ D[1][1][1] = 1 - 2 * (X[1] * X[1] + Z[1] * Z[1])
          /\ D[1][1][2] = 0 - 2 * ((X[1] * X[2] + X[2] * X[1]) + (Z[1] * Z[2] + Z[2] * Z[1]))
      BY <1>8, DiagonalParts
    <3> QED
      BY <1>3, <3>1
  <2>3. D[1][2][1] = 2 * ((-sy) * (-sz) - (-sx) * sw)
        /\ D[1][2][2] = 2 * (((-sy) * (-dz) + (-dy) * (-sz)) - ((-sx) * dw + (-dx) * sw))
    <3>1. /\ D[1][2][1] = 2 * (Y[1] * Z[1] - X[1] * w[1])
          /\ D[1][2][2] = 2 * ((Y[1] * Z[2] + Y[2] * Z[1]) - (X[1] * w[2] + X[2] * w[1]))
      BY <1>8, DifferenceParts
    <3> QED
      BY <1>3, <3>1
  <2> DEFINE a0 == 2 * ((-sx) * (-sy) + (-sz) * sw)
             a1 == 1 - 2 * ((-sx) * (-sx) + (-sz) * (-sz))
             a2 == 2 * ((-sy) * (-sz) - (-sx) * sw)
             b0 == 2 * (((-sx) * (-dy) + (-dx) * (-sy)) + ((-sz) * dw + (-dz) * sw))
             b1 == 0 - 2 * (((-sx) * (-dx) + (-dx) * (-sx)) + ((-sz) * (-dz) + (-dz) * (-sz)))
             b2 == 2 * (((-sy) * (-dz) + (-dy) * (-sz)) - ((-sx) * dw + (-dx) * sw))
  <2>4. a0 \in Int /\ a1 \in Int /\ a2 \in Int /\ b0 \in Int /\ b1 \in Int /\ b2 \in Int
    OBVIOUS
  <2>5. /\ a0 * m0 + a1 * m1 + a2 * m2 = FieldValue(s, m, 1)
        /\ b0 * m0 + b1 * m1 + b2 * m2
             = dw * FieldDerivative(s, m, 1).w + dx * FieldDerivative(s, m, 1).x
                 + dy * FieldDerivative(s, m, 1).y + dz * FieldDerivative(s, m, 1).z
    <3>1. /\ FieldDerivative(s, m, 1).w = 2 * (m2 * sx - m0 * sz)
          /\ FieldDerivative(s, m, 1).x = 2 * (m2 * sw + m0 * sy) - 4 * m1 * sx
          /\ FieldDerivative(s, m, 1).y = 2 * (m2 * sz + m0 * sx)
          /\ FieldDerivative(s, m, 1).z = 2 * (m2 * sy - m0 * sw) - 4 * m1 * sz
      BY <1>2 DEF FieldDerivative
    <3>2. FieldValue(s, m, 1) = 2 * (sx * sy - sz * sw) * m0 + (1 - 2 * (sx * sx + sz * sz)) * m1 + 2 * (sy * sz + sx * sw) * m2
      BY <1>2 DEF FieldValue
    <3>3. a0 * m0 + a1 * m1 + a2 * m2 = 2 * (sx * sy - sz * sw) * m0 + (1 - 2 * (sx * sx + sz * sz)) * m1 + 2 * (sy * sz + sx * sw) * m2
      OBVIOUS
    <3>4. b0 * m0 + b1 * m1 + b2 * m2
             = dw * (2 * (m2 * sx - m0 * sz)) + dx * (2 * (m2 * sw + m0 * sy) - 4 * m1 * sx)
                 + dy * (2 * (m2 * sz + m0 * sx)) + dz * (2 * (m2 * sy - m0 * sw) - 4 * m1 * sz)
      OBVIOUS
    <3> HIDE DEF a0, a1, a2, b0, b1, b2
    <3> QED
      BY <3>1, <3>2, <3>3, <3>4
  <2> HIDE DEF a0, a1, a2, b0, b1, b2
  <2>6. /\ DualInner(D[1], M)[1] = a0 * m0 + a1 * m1 + a2 * m2
        /\ DualInner(D[1], M)[2] = b0 * m0 + b1 * m1 + b2 * m2
    <3>1. /\ D[1][0][1] = a0 /\ D[1][1][1] = a1 /\ D[1][2][1] = a2
          /\ D[1][0][2] = b0 /\ D[1][1][2] = b1 /\ D[1][2][2] = b2
      BY <2>1, <2>2, <2>3 DEF a0, a1, a2, b0, b1, b2
    <3>2. \A k \in 0 .. 2 : D[1][k] \in Dual /\ M[k] \in Dual /\ M[k][2] = 0
      BY <1>5, <1>6
    <3>3. /\ DualInner(D[1], M)[1] = D[1][0][1] * M[0][1] + D[1][1][1] * M[1][1] + D[1][2][1] * M[2][1]
          /\ DualInner(D[1], M)[2] = D[1][0][2] * M[0][1] + D[1][1][2] * M[1][1] + D[1][2][2] * M[2][1]
      BY <3>2, InnerParts
    <3> QED
      BY <1>5, <2>4, <3>1, <3>3
  <2> QED
    BY <1>7, <1>10, <2>5, <2>6
<1>11. CASE c = 2
  <2>1. D[2][0][1] = 2 * ((-sx) * (-sz) - (-sy) * sw)
        /\ D[2][0][2] = 2 * (((-sx) * (-dz) + (-dx) * (-sz)) - ((-sy) * dw + (-dy) * sw))
    <3>1. /\ D[2][0][1] = 2 * (X[1] * Z[1] - Y[1] * w[1])
          /\ D[2][0][2] = 2 * ((X[1] * Z[2] + X[2] * Z[1]) - (Y[1] * w[2] + Y[2] * w[1]))
      BY <1>8, DifferenceParts
    <3> QED
      BY <1>3, <3>1
  <2>2. D[2][1][1] = 2 * ((-sy) * (-sz) + (-sx) * sw)
        /\ D[2][1][2] = 2 * (((-sy) * (-dz) + (-dy) * (-sz)) + ((-sx) * dw + (-dx) * sw))
    <3>1. /\ D[2][1][1] = 2 * (Y[1] * Z[1] + X[1] * w[1])
          /\ D[2][1][2] = 2 * ((Y[1] * Z[2] + Y[2] * Z[1]) + (X[1] * w[2] + X[2] * w[1]))
      BY <1>8, SumParts
    <3> QED
      BY <1>3, <3>1
  <2>3. D[2][2][1] = 1 - 2 * ((-sx) * (-sx) + (-sy) * (-sy))
        /\ D[2][2][2] = 0 - 2 * (((-sx) * (-dx) + (-dx) * (-sx)) + ((-sy) * (-dy) + (-dy) * (-sy)))
    <3>1. /\ D[2][2][1] = 1 - 2 * (X[1] * X[1] + Y[1] * Y[1])
          /\ D[2][2][2] = 0 - 2 * ((X[1] * X[2] + X[2] * X[1]) + (Y[1] * Y[2] + Y[2] * Y[1]))
      BY <1>8, DiagonalParts
    <3> QED
      BY <1>3, <3>1
  <2> DEFINE a0 == 2 * ((-sx) * (-sz) - (-sy) * sw)
             a1 == 2 * ((-sy) * (-sz) + (-sx) * sw)
             a2 == 1 - 2 * ((-sx) * (-sx) + (-sy) * (-sy))
             b0 == 2 * (((-sx) * (-dz) + (-dx) * (-sz)) - ((-sy) * dw + (-dy) * sw))
             b1 == 2 * (((-sy) * (-dz) + (-dy) * (-sz)) + ((-sx) * dw + (-dx) * sw))
             b2 == 0 - 2 * (((-sx) * (-dx) + (-dx) * (-sx)) + ((-sy) * (-dy) + (-dy) * (-sy)))
  <2>4. a0 \in Int /\ a1 \in Int /\ a2 \in Int /\ b0 \in Int /\ b1 \in Int /\ b2 \in Int
    OBVIOUS
  <2>5. /\ a0 * m0 + a1 * m1 + a2 * m2 = FieldValue(s, m, 2)
        /\ b0 * m0 + b1 * m1 + b2 * m2
             = dw * FieldDerivative(s, m, 2).w + dx * FieldDerivative(s, m, 2).x
                 + dy * FieldDerivative(s, m, 2).y + dz * FieldDerivative(s, m, 2).z
    <3>1. /\ FieldDerivative(s, m, 2).w = 2 * (m0 * sy - m1 * sx)
          /\ FieldDerivative(s, m, 2).x = 2 * (m0 * sz - m1 * sw) - 4 * m2 * sx
          /\ FieldDerivative(s, m, 2).y = 2 * (m1 * sz + m0 * sw) - 4 * m2 * sy
          /\ FieldDerivative(s, m, 2).z = 2 * (m1 * sy + m0 * sx)
      BY <1>2 DEF FieldDerivative
    <3>2. FieldValue(s, m, 2) = 2 * (sx * sz + sy * sw) * m0 + 2 * (sy * sz - sx * sw) * m1 + (1 - 2 * (sx * sx + sy * sy)) * m2
      BY <1>2 DEF FieldValue
    <3>3. a0 * m0 + a1 * m1 + a2 * m2 = 2 * (sx * sz + sy * sw) * m0 + 2 * (sy * sz - sx * sw) * m1 + (1 - 2 * (sx * sx + sy * sy)) * m2
      OBVIOUS
    <3>4. b0 * m0 + b1 * m1 + b2 * m2
             = dw * (2 * (m0 * sy - m1 * sx)) + dx * (2 * (m0 * sz - m1 * sw) - 4 * m2 * sx)
                 + dy * (2 * (m1 * sz + m0 * sw) - 4 * m2 * sy) + dz * (2 * (m1 * sy + m0 * sx))
      OBVIOUS
    <3> HIDE DEF a0, a1, a2, b0, b1, b2
    <3> QED
      BY <3>1, <3>2, <3>3, <3>4
  <2> HIDE DEF a0, a1, a2, b0, b1, b2
  <2>6. /\ DualInner(D[2], M)[1] = a0 * m0 + a1 * m1 + a2 * m2
        /\ DualInner(D[2], M)[2] = b0 * m0 + b1 * m1 + b2 * m2
    <3>1. /\ D[2][0][1] = a0 /\ D[2][1][1] = a1 /\ D[2][2][1] = a2
          /\ D[2][0][2] = b0 /\ D[2][1][2] = b1 /\ D[2][2][2] = b2
      BY <2>1, <2>2, <2>3 DEF a0, a1, a2, b0, b1, b2
    <3>2. \A k \in 0 .. 2 : D[2][k] \in Dual /\ M[k] \in Dual /\ M[k][2] = 0
      BY <1>5, <1>6
    <3>3. /\ DualInner(D[2], M)[1] = D[2][0][1] * M[0][1] + D[2][1][1] * M[1][1] + D[2][2][1] * M[2][1]
          /\ DualInner(D[2], M)[2] = D[2][0][2] * M[0][1] + D[2][1][2] * M[1][1] + D[2][2][2] * M[2][1]
      BY <3>2, InnerParts
    <3> QED
      BY <1>5, <2>4, <3>1, <3>3
  <2> QED
    BY <1>7, <1>11, <2>5, <2>6
<1> QED
  BY <1>9, <1>10, <1>11

(***************************************************************************)
(* The attitude that turns by a small angle                                *)
(***************************************************************************)
\* The reduced number a + b*EPS, and its arithmetic with a number that is
\* only an infinitesimal.
Number(a, b) == Mod(Pair(a, b))

\* What these operations are on the two parts.
LEMMA NumberArith ==
    ASSUME NEW a \in Int, NEW b \in Int, NEW c \in Int
    PROVE  /\ One ** Number(a, 0) = Number(a, 0)
           /\ Number(0, b) ** Number(a, 0) = Number(0, b * a)
           /\ Number(a, b) ++ Number(0, c) = Number(a, b + c)
           /\ Number(a, b) -- Number(0, c) = Number(a, b - c)
<1>1. /\ Pair(a, 0) \in Dual /\ Pair(0, b) \in Dual /\ Pair(a, b) \in Dual
      /\ Pair(0, c) \in Dual /\ Pair(1, 0) \in Dual
  BY DEF Pair, Dual
<1>2. Pair(1, 0) \otimes Pair(a, 0) = Pair(a, 0)
  BY DEF Pair, \otimes
<1>3. Pair(0, b) \otimes Pair(a, 0) = Pair(0, b * a)
  BY DEF Pair, \otimes
<1>4. Pair(a, b) \oplus Pair(0, c) = Pair(a, b + c)
  BY DEF Pair, \oplus
<1>5. Pair(a, b) \ominus Pair(0, c) = Pair(a, b - c)
  BY DEF Pair, \ominus
<1>6. One = Mod(Pair(1, 0))
  BY ModIsNumber
<1>7. One ** Number(a, 0) = Number(a, 0)
  BY <1>1, <1>2, <1>6, ModHom DEF Number
<1>8. Number(0, b) ** Number(a, 0) = Number(0, b * a)
  BY <1>1, <1>3, ModHom DEF Number
<1>9. Number(a, b) ++ Number(0, c) = Number(a, b + c)
  BY <1>1, <1>4, ModHom DEF Number
<1>10. Number(a, b) -- Number(0, c) = Number(a, b - c)
  BY <1>1, <1>5, ModHom DEF Number
<1> QED
  BY <1>7, <1>8, <1>9, <1>10

\* A quaternion of reduced numbers that turns by an infinitesimal angle:
\* k0, k1, k2 are half the angle.
Turn(k0, k1, k2) ==
    [w |-> One, x |-> Number(0, k0), y |-> Number(0, k1), z |-> Number(0, k2)]

Turned(s, k0, k1, k2) ==
    [w |-> Number(s[0], 0 - (k0 * s[1] + k1 * s[2] + k2 * s[3])),
     x |-> Number(s[1], k0 * s[0] + (k1 * s[3] - k2 * s[2])),
     y |-> Number(s[2], k1 * s[0] + (k2 * s[1] - k0 * s[3])),
     z |-> Number(s[3], k2 * s[0] + (k0 * s[2] - k1 * s[1]))]

\* A member of the product of that quaternion with one without infinitesimal
\* parts: its two halves.
FirstPart(i, k, f)     == One ** Number(i, 0) ++ Number(0, k) ** Number(f, 0)
SecondPart(l, g, m, h) == Number(0, l) ** Number(g, 0) -- Number(0, m) ** Number(h, 0)

\* The first half, as a number with its change.
LEMMA FirstPartIs ==
    ASSUME NEW i \in Int, NEW k \in Int, NEW f \in Int
    PROVE  FirstPart(i, k, f) = Number(i, k * f)
<1>1. One ** Number(i, 0) = Number(i, 0) /\ Number(0, k) ** Number(f, 0) = Number(0, k * f)
  BY NumberArith
<1>2. PICK u \in Int : u = k * f
  OBVIOUS
<1>3. Number(i, 0) ++ Number(0, u) = Number(i, 0 + u) /\ 0 + u = u
  BY NumberArith
<1> QED
  BY <1>1, <1>2, <1>3 DEF FirstPart

\* The second half is a change only.
LEMMA SecondPartIs ==
    ASSUME NEW l \in Int, NEW g \in Int, NEW m \in Int, NEW h \in Int
    PROVE  SecondPart(l, g, m, h) = Number(0, l * g - m * h)
<1>1. Number(0, l) ** Number(g, 0) = Number(0, l * g)
      /\ Number(0, m) ** Number(h, 0) = Number(0, m * h)
  BY NumberArith
<1>2. PICK v \in Int, x \in Int : v = l * g /\ x = m * h
  OBVIOUS
<1>3. Number(0, v) -- Number(0, x) = Number(0, v - x)
  BY NumberArith
<1> QED
  BY <1>1, <1>2, <1>3 DEF SecondPart

\* The attitude of the nominal state s.
IsAttitude(q, s) ==
    /\ s[0] \in Int /\ s[1] \in Int /\ s[2] \in Int /\ s[3] \in Int
    /\ q = [w |-> Number(s[0], 0), x |-> Number(s[1], 0),
            y |-> Number(s[2], 0), z |-> Number(s[3], 0)]

\* The true attitude of a small error.
LEMMA TurnedIs ==
    ASSUME NEW s, NEW k0 \in Int, NEW k1 \in Int, NEW k2 \in Int, NEW q, IsAttitude(q, s)
    PROVE  QuatTimes(Turn(k0, k1, k2), q) = Turned(s, k0, k1, k2)
<1>1. PICK a \in Int, b \in Int, c \in Int, d \in Int :
         a = s[0] /\ b = s[1] /\ c = s[2] /\ d = s[3]
  BY DEF IsAttitude
<1> DEFINE p == Turn(k0, k1, k2)
<1>2. /\ p.w = One /\ p.x = Number(0, k0) /\ p.y = Number(0, k1) /\ p.z = Number(0, k2)
      /\ q.w = Number(a, 0) /\ q.x = Number(b, 0) /\ q.y = Number(c, 0) /\ q.z = Number(d, 0)
  BY <1>1 DEF Turn, IsAttitude
<1> HIDE DEF p
<1>3. \A k, m, n \in Int :
         /\ One ** Number(m, 0) = Number(m, 0)
         /\ Number(0, k) ** Number(m, 0) = Number(0, k * m)
         /\ Number(m, k) ++ Number(0, n) = Number(m, k + n)
         /\ Number(m, k) -- Number(0, n) = Number(m, k - n)
  BY NumberArith
<1>4. p.w ** q.w -- Inner(Xyz(p), Xyz(q)) = Number(a, 0 - (k0 * b + k1 * c + k2 * d))
  <2>1. /\ Xyz(p)[0] = p.x /\ Xyz(p)[1] = p.y /\ Xyz(p)[2] = p.z
        /\ Xyz(q)[0] = q.x /\ Xyz(q)[1] = q.y /\ Xyz(q)[2] = q.z
    BY DEF Xyz, V3
  <2>2. PICK u \in Int, v \in Int, x \in Int : u = k0 * b /\ v = k1 * c /\ x = k2 * d
    OBVIOUS
  <2>3. /\ p.x ** q.x = Number(0, u) /\ p.y ** q.y = Number(0, v) /\ p.z ** q.z = Number(0, x)
        /\ p.w ** q.w = Number(a, 0)
    <3>1. Number(0, k0) ** Number(b, 0) = Number(0, k0 * b)
      BY NumberArith
    <3>2. Number(0, k1) ** Number(c, 0) = Number(0, k1 * c)
      BY NumberArith
    <3>3. Number(0, k2) ** Number(d, 0) = Number(0, k2 * d)
      BY NumberArith
    <3>4. One ** Number(a, 0) = Number(a, 0)
      BY NumberArith
    <3> QED
      BY <1>2, <2>2, <3>1, <3>2, <3>3, <3>4
  <2>4. PICK y \in Int : y = u + v
    OBVIOUS
  <2>5. PICK t \in Int : t = y + x
    OBVIOUS
  <2>6. Number(0, u) ++ Number(0, v) = Number(0, y)
    BY <2>4, NumberArith
  <2>7. Number(0, y) ++ Number(0, x) = Number(0, t)
    BY <2>5, NumberArith
  <2>8. Number(a, 0) -- Number(0, t) = Number(a, 0 - t)
    BY NumberArith
  <2> QED
    BY <2>1, <2>2, <2>3, <2>4, <2>5, <2>6, <2>7, <2>8 DEF Inner
<1>5. (p.w ** q.x ++ p.x ** q.w) ++ (p.y ** q.z -- p.z ** q.y)
         = Number(b, k0 * a + (k1 * d - k2 * c))
  <2>1. FirstPart(b, k0, a) = Number(b, k0 * a)
    BY FirstPartIs
  <2>2. SecondPart(k1, d, k2, c) = Number(0, k1 * d - k2 * c)
    BY SecondPartIs
  <2>3. PICK u \in Int, v \in Int : u = k0 * a /\ v = k1 * d - k2 * c
    OBVIOUS
  <2>4. Number(b, u) ++ Number(0, v) = Number(b, u + v)
    BY NumberArith
  <2> QED
    BY <1>2, <2>1, <2>2, <2>3, <2>4 DEF FirstPart, SecondPart
<1>6. (p.w ** q.y ++ p.y ** q.w) ++ (p.z ** q.x -- p.x ** q.z)
         = Number(c, k1 * a + (k2 * b - k0 * d))
  <2>1. FirstPart(c, k1, a) = Number(c, k1 * a)
    BY FirstPartIs
  <2>2. SecondPart(k2, b, k0, d) = Number(0, k2 * b - k0 * d)
    BY SecondPartIs
  <2>3. PICK u \in Int, v \in Int : u = k1 * a /\ v = k2 * b - k0 * d
    OBVIOUS
  <2>4. Number(c, u) ++ Number(0, v) = Number(c, u + v)
    BY NumberArith
  <2> QED
    BY <1>2, <2>1, <2>2, <2>3, <2>4 DEF FirstPart, SecondPart
<1>7. (p.w ** q.z ++ p.z ** q.w) ++ (p.x ** q.y -- p.y ** q.x)
         = Number(d, k2 * a + (k0 * c - k1 * b))
  <2>1. FirstPart(d, k2, a) = Number(d, k2 * a)
    BY FirstPartIs
  <2>2. SecondPart(k0, c, k1, b) = Number(0, k0 * c - k1 * b)
    BY SecondPartIs
  <2>3. PICK u \in Int, v \in Int : u = k2 * a /\ v = k0 * c - k1 * b
    OBVIOUS
  <2>4. Number(d, u) ++ Number(0, v) = Number(d, u + v)
    BY NumberArith
  <2> QED
    BY <1>2, <2>1, <2>2, <2>3, <2>4 DEF FirstPart, SecondPart
<1>8. QuatTimes(p, q) = Turned(s, k0, k1, k2)
  BY <1>1, <1>4, <1>5, <1>6, <1>7 DEF QuatTimes, Turned
<1> QED
  BY <1>8 DEF p

(***************************************************************************)
(* The true state along an error                                           *)
(***************************************************************************)
\* 1/2 in the field.
HalfInt == (Prime + 1) \div 2

\* It is an integer, and Half is the number it stands for.
LEMMA HalfIs == HalfInt \in Int /\ Half = Number(HalfInt, 0) /\ Half[1] = HalfInt % Prime
<1>1. HalfInt \in Int
  BY PrimeAssumption DEF HalfInt
<1>2. Half = Mod(Pair(HalfInt, 0))
  BY <1>1, ModIsNumber DEF Half, HalfInt
<1>3. Mod(Pair(HalfInt, 0))[1] = HalfInt % Prime
  BY DEF Mod, Pair
<1> QED
  BY <1>1, <1>2, <1>3 DEF Number

\* Whether an index is the one along which the derivative is taken.
Delta(i, j) == IF i = j THEN 1 ELSE 0

\* Arithmetic with a number that changes.
LEMMA ChangeArith ==
    ASSUME NEW a \in Int, NEW b \in Int
    PROVE  /\ Number(a, 0) ++ Number(0, b) = Number(a, b)
           /\ Zero -- Number(a, b) = Number(0 - a, 0 - b)
           /\ Half ** Number(0, b) = Number(0, HalfInt * b)
           /\ Value(Number(a, b)) = a % Prime /\ Derivative(Number(a, b)) = b % Prime
<1>1. Number(a, 0) ++ Number(0, b) = Number(a, b)
  <2>1. Number(a, 0) ++ Number(0, b) = Number(a, 0 + b) /\ 0 + b = b
    BY NumberArith
  <2> QED
    BY <2>1
<1>2. Zero -- Number(a, b) = Number(0 - a, 0 - b)
  <2>1. Pair(0, 0) \in Dual /\ Pair(a, b) \in Dual
    BY DEF Pair, Dual
  <2>2. Pair(0, 0) \ominus Pair(a, b) = Pair(0 - a, 0 - b)
    BY DEF Pair, \ominus
  <2> QED
    BY <2>1, <2>2, ModHom, ModIsNumber DEF Number
<1>3. Half ** Number(0, b) = Number(0, HalfInt * b)
  <2>1. PICK h \in Int : h = HalfInt
    BY HalfIs
  <2>2. Pair(h, 0) \in Dual /\ Pair(0, b) \in Dual
    BY DEF Pair, Dual
  <2>3. Pair(h, 0) \otimes Pair(0, b) = Pair(0, h * b)
    BY DEF Pair, \otimes
  <2> QED
    BY <2>1, <2>2, <2>3, ModHom, HalfIs DEF Number
<1>4. Value(Number(a, b)) = a % Prime /\ Derivative(Number(a, b)) = b % Prime
  BY DEF Number, Mod, Pair, Value, Derivative
<1> QED
  BY <1>1, <1>2, <1>3, <1>4

\* The error along index j.
LEMMA ErrorIs ==
    ASSUME NEW j \in 0 .. 14
    PROVE  /\ \A i \in 0 .. 2 : ErrorOf(Along(j, Tangent))["quat_nominal"][i] = Number(0, Delta(i, j))
           /\ \A i \in 0 .. 2 : ErrorOf(Along(j, Tangent))["vel"][i] = Number(0, Delta(3 + i, j))
           /\ \A i \in 0 .. 2 : ErrorOf(Along(j, Tangent))["pos"][i] = Number(0, Delta(6 + i, j))
<1> DEFINE e == Along(j, Tangent)
<1>1. \A i \in 0 .. 14 : e[i] = Number(0, Delta(i, j))
  <2>1. \A i \in 0 .. 14 : e[i] = IF i = j THEN EPS ELSE Zero
    BY Layout DEF Along
  <2>2. EPS = Number(0, 1) /\ Zero = Number(0, 0)
    BY ModIsNumber DEF Number
  <2> QED
    BY <2>1, <2>2 DEF Delta
<1> HIDE DEF e
<1>2. /\ \A i \in 0 .. 2 : ErrorOf(e)["quat_nominal"][i] = e[0 + i]
      /\ \A i \in 0 .. 2 : ErrorOf(e)["vel"][i] = e[3 + i]
      /\ \A i \in 0 .. 2 : ErrorOf(e)["pos"][i] = e[6 + i]
  BY Layout DEF ErrorOf, Axes
<1>3. \A i \in 0 .. 2 : 0 + i = i /\ i \in 0 .. 14 /\ 3 + i \in 0 .. 14 /\ 6 + i \in 0 .. 14
  OBVIOUS
<1>4. /\ \A i \in 0 .. 2 : ErrorOf(e)["quat_nominal"][i] = Number(0, Delta(i, j))
      /\ \A i \in 0 .. 2 : ErrorOf(e)["vel"][i] = Number(0, Delta(3 + i, j))
      /\ \A i \in 0 .. 2 : ErrorOf(e)["pos"][i] = Number(0, Delta(6 + i, j))
  BY <1>1, <1>2, <1>3
<1> QED
  BY <1>4 DEF e

\* The true state along index j.
LEMMA TrueIs ==
    ASSUME NEW arg, IsArgument(arg), NEW j \in 0 .. 14
    PROVE  /\ TrueState(Nominal(arg), ErrorOf(Along(j, Tangent)))["quat_nominal"]
                = Turned(arg.state, HalfInt * Delta(0, j), HalfInt * Delta(1, j), HalfInt * Delta(2, j))
           /\ \A i \in 0 .. 2 : TrueState(Nominal(arg), ErrorOf(Along(j, Tangent)))["vel"][i]
                = Number(arg.state[4 + i], Delta(3 + i, j))
           /\ \A i \in 0 .. 2 : TrueState(Nominal(arg), ErrorOf(Along(j, Tangent)))["pos"][i]
                = Number(arg.state[7 + i], Delta(6 + i, j))
<1> DEFINE E == ErrorOf(Along(j, Tangent))
           N == Nominal(arg)
           s == arg.state
<1>1. \A i \in 0 .. 15 : s[i] \in Int
  BY DEF IsArgument
<1>2. /\ \A i \in 0 .. 2 : E["quat_nominal"][i] = Number(0, Delta(i, j))
      /\ \A i \in 0 .. 2 : E["vel"][i] = Number(0, Delta(3 + i, j))
      /\ \A i \in 0 .. 2 : E["pos"][i] = Number(0, Delta(6 + i, j))
  BY ErrorIs
<1>3. /\ N["quat_nominal"] = [w |-> Number(s[0], 0), x |-> Number(s[1], 0),
                              y |-> Number(s[2], 0), z |-> Number(s[3], 0)]
      /\ \A i \in 0 .. 2 : N["vel"][i] = Number(s[4 + i], 0)
      /\ \A i \in 0 .. 2 : N["pos"][i] = Number(s[7 + i], 0)
  <2>1. N["quat_nominal"] = [w |-> Mod(Pair(s[0], 0)), x |-> Mod(Pair(s[1], 0)),
                             y |-> Mod(Pair(s[2], 0)), z |-> Mod(Pair(s[3], 0))]
    BY NominalIs
  <2>2. N["vel"] = [i \in 0 .. 2 |-> Mod(Pair(s[4 + i], 0))]
    BY NominalIs
  <2>3. N["pos"] = [i \in 0 .. 2 |-> Mod(Pair(s[7 + i], 0))]
    BY NominalIs
  <2> HIDE DEF N, s
  <2> QED
    BY <2>1, <2>2, <2>3 DEF Number
<1>4. \A i, l : Delta(i, l) \in Int
  BY DEF Delta
<1> HIDE DEF E, N, s
<1>5. /\ TrueState(N, E)["quat_nominal"]
           = QuatTimes(Quaternion(Times(Half, E["quat_nominal"]), One), N["quat_nominal"])
      /\ \A i \in 0 .. 2 : TrueState(N, E)["vel"][i] = N["vel"][i] ++ E["vel"][i]
      /\ \A i \in 0 .. 2 : TrueState(N, E)["pos"][i] = N["pos"][i] ++ E["pos"][i]
  BY Layout DEF TrueState, Plus
<1>6. TrueState(N, E)["quat_nominal"]
         = Turned(s, HalfInt * Delta(0, j), HalfInt * Delta(1, j), HalfInt * Delta(2, j))
  <2>1. PICK d0 \in Int, d1 \in Int, d2 \in Int :
           d0 = Delta(0, j) /\ d1 = Delta(1, j) /\ d2 = Delta(2, j)
    BY <1>4
  <2>2. PICK k0 \in Int, k1 \in Int, k2 \in Int :
           k0 = HalfInt * d0 /\ k1 = HalfInt * d1 /\ k2 = HalfInt * d2
    BY HalfIs
  <2>3. /\ Half ** E["quat_nominal"][0] = Number(0, HalfInt * d0)
        /\ Half ** E["quat_nominal"][1] = Number(0, HalfInt * d1)
        /\ Half ** E["quat_nominal"][2] = Number(0, HalfInt * d2)
    BY <1>2, <2>1, ChangeArith
  <2>4. Quaternion(Times(Half, E["quat_nominal"]), One) = Turn(k0, k1, k2)
    BY <2>2, <2>3 DEF Quaternion, Times, Turn
  <2>5. IsAttitude(N["quat_nominal"], s)
    BY <1>1, <1>3 DEF IsAttitude
  <2>6. QuatTimes(Turn(k0, k1, k2), N["quat_nominal"]) = Turned(s, k0, k1, k2)
    BY <2>5, TurnedIs
  <2> QED
    BY <1>5, <2>1, <2>2, <2>4, <2>6
<1>7. ASSUME NEW i \in 0 .. 2
      PROVE  /\ TrueState(N, E)["vel"][i] = Number(s[4 + i], Delta(3 + i, j))
             /\ TrueState(N, E)["pos"][i] = Number(s[7 + i], Delta(6 + i, j))
  <2>1. PICK a \in Int, b \in Int, d \in Int, f \in Int :
           a = s[4 + i] /\ b = s[7 + i] /\ d = Delta(3 + i, j) /\ f = Delta(6 + i, j)
    <3>1. 4 + i \in 0 .. 15 /\ 7 + i \in 0 .. 15
      OBVIOUS
    <3>2. s[4 + i] \in Int /\ s[7 + i] \in Int /\ Delta(3 + i, j) \in Int /\ Delta(6 + i, j) \in Int
      BY <1>1, <1>4, <3>1
    <3> QED
      BY <3>2
  <2>2. Number(a, 0) ++ Number(0, d) = Number(a, d) /\ Number(b, 0) ++ Number(0, f) = Number(b, f)
    BY ChangeArith
  <2> QED
    BY <1>2, <1>3, <1>5, <2>1, <2>2
<1>8. /\ TrueState(N, E)["quat_nominal"]
           = Turned(s, HalfInt * Delta(0, j), HalfInt * Delta(1, j), HalfInt * Delta(2, j))
      /\ \A i \in 0 .. 2 : TrueState(N, E)["vel"][i] = Number(s[4 + i], Delta(3 + i, j))
      /\ \A i \in 0 .. 2 : TrueState(N, E)["pos"][i] = Number(s[7 + i], Delta(6 + i, j))
  BY <1>6, <1>7
<1> QED
  BY <1>8 DEF E, N, s

(***************************************************************************)
(* What the function of the magnetometer computes                          *)
(***************************************************************************)
\* An alternating inner product of four numbers.
Alternating(u, v) == u[0] * v[0] - u[1] * v[1] + u[2] * v[2] - u[3] * v[3]

\* One operand of it may be reduced first.
LEMMA AlternatingIs ==
    ASSUME NEW u \in [0 .. 3 -> Int], NEW v \in [0 .. 3 -> Int]
    PROVE  /\ Alternating(u, v) \in Int
           /\ Alternating(u, [i \in 0 .. 3 |-> v[i] % Prime]) % Prime = Alternating(u, v) % Prime
<1>1. PICK a \in Int, b \in Int, c \in Int, d \in Int, x \in Int, y \in Int, z \in Int, w \in Int :
         /\ a = u[0] /\ b = u[1] /\ c = u[2] /\ d = u[3]
         /\ x = v[0] /\ y = v[1] /\ z = v[2] /\ w = v[3]
  <2>1. /\ u[0] \in Int /\ u[1] \in Int /\ u[2] \in Int /\ u[3] \in Int
        /\ v[0] \in Int /\ v[1] \in Int /\ v[2] \in Int /\ v[3] \in Int
    OBVIOUS
  <2> QED
    BY <2>1
<1>2. PICK xr \in Int, yr \in Int, zr \in Int, wr \in Int, xq \in Int, yq \in Int, zq \in Int, wq \in Int :
         /\ xr = x % Prime /\ yr = y % Prime /\ zr = z % Prime /\ wr = w % Prime
         /\ x = Prime * xq + xr /\ y = Prime * yq + yr
         /\ z = Prime * zq + zr /\ w = Prime * wq + wr
  <2>1. /\ \A e \in Int : e % Prime \in Int /\ e \div Prime \in Int
                            /\ e = Prime * (e \div Prime) + (e % Prime)
    BY ModIs
  <2>2. \A e \in Int : \E r \in Int, q \in Int : r = e % Prime /\ e = Prime * q + r
    BY <2>1
  <2>3. PICK xr \in Int, xq \in Int : xr = x % Prime /\ x = Prime * xq + xr
    BY <2>2
  <2>4. PICK yr \in Int, yq \in Int : yr = y % Prime /\ y = Prime * yq + yr
    BY <2>2
  <2>5. PICK zr \in Int, zq \in Int : zr = z % Prime /\ z = Prime * zq + zr
    BY <2>2
  <2>6. PICK wr \in Int, wq \in Int : wr = w % Prime /\ w = Prime * wq + wr
    BY <2>2
  <2> QED
    BY <2>3, <2>4, <2>5, <2>6
<1>3. PICK P \in Int : P = Prime
  BY PrimeAssumption
<1>4. a * x - b * y + c * z - d * w
         = P * (a * xq - b * yq + c * zq - d * wq) + (a * xr - b * yr + c * zr - d * wr)
  BY <1>2, <1>3
<1>5. PICK f \in Int, g \in Int, k \in Int :
         /\ f = a * x - b * y + c * z - d * w /\ g = a * xr - b * yr + c * zr - d * wr
         /\ k = a * xq - b * yq + c * zq - d * wq
  OBVIOUS
<1>6. f = Prime * k + g
  BY <1>3, <1>4, <1>5
<1>7. f % Prime = g % Prime
  BY <1>6, ModSame DEF Congruent
<1>8. Alternating(u, v) = f
  BY <1>1, <1>5 DEF Alternating
<1>9. Alternating(u, [i \in 0 .. 3 |-> v[i] % Prime]) = g
  BY <1>1, <1>2, <1>5 DEF Alternating
<1> QED
  BY <1>7, <1>8, <1>9

\* A quaternion of integers and a field.
IsField(s, m) ==
    /\ s[0] \in Int /\ s[1] \in Int /\ s[2] \in Int /\ s[3] \in Int
    /\ m[0] \in Int /\ m[1] \in Int /\ m[2] \in Int

\* The derivatives of the field are integers.
LEMMA FieldDerivativeInt ==
    ASSUME NEW s, NEW m, IsField(s, m), NEW c \in 0 .. 2
    PROVE  /\ FieldDerivative(s, m, c).w \in Int /\ FieldDerivative(s, m, c).x \in Int
           /\ FieldDerivative(s, m, c).y \in Int /\ FieldDerivative(s, m, c).z \in Int
<1>1. CASE c = 0
  BY <1>1 DEF FieldDerivative, IsField
<1>2. CASE c = 1
  BY <1>2 DEF FieldDerivative, IsField
<1>3. CASE c = 2
  BY <1>3 DEF FieldDerivative, IsField
<1> QED
  BY <1>1, <1>2, <1>3

\* What FieldTurn halves and sums, before it is reduced.
TurnSum(s, D, j) ==
    CASE j = 0 -> s[0] * D.x - s[1] * D.w + s[2] * D.z - s[3] * D.y
      [] j = 1 -> s[0] * D.y - s[2] * D.w + s[3] * D.x - s[1] * D.z
      [] j = 2 -> s[0] * D.z - s[3] * D.w + s[1] * D.y - s[2] * D.x

\* Half of that sum, reduced, is what the generated function returns.
LEMMA FieldTurnIs ==
    ASSUME NEW s, NEW m, IsField(s, m), NEW c \in 0 .. 2, NEW j \in 0 .. 2
    PROVE  /\ TurnSum(s, FieldDerivative(s, m, c), j) \in Int
           /\ FieldTurn(s, m, c)[j]
                = (HalfInt * TurnSum(s, FieldDerivative(s, m, c), j)) % Prime
<1>1. PICK a \in Int, b \in Int, e \in Int, f \in Int :
         a = s[0] /\ b = s[1] /\ e = s[2] /\ f = s[3]
  BY DEF IsField
<1>2. PICK w \in Int, x \in Int, y \in Int, z \in Int :
         /\ w = FieldDerivative(s, m, c).w /\ x = FieldDerivative(s, m, c).x
         /\ y = FieldDerivative(s, m, c).y /\ z = FieldDerivative(s, m, c).z
  BY FieldDerivativeInt
<1>3. /\ FieldTurn(s, m, c)[0]
           = Halved((a * (x % Prime) - b * (w % Prime) + e * (z % Prime) - f * (y % Prime)) % Prime)
      /\ FieldTurn(s, m, c)[1]
           = Halved((a * (y % Prime) - e * (w % Prime) + f * (x % Prime) - b * (z % Prime)) % Prime)
      /\ FieldTurn(s, m, c)[2]
           = Halved((a * (z % Prime) - f * (w % Prime) + b * (y % Prime) - e * (x % Prime)) % Prime)
  BY <1>1, <1>2 DEF FieldTurn, V3
<1>4. /\ TurnSum(s, FieldDerivative(s, m, c), 0) = a * x - b * w + e * z - f * y
      /\ TurnSum(s, FieldDerivative(s, m, c), 1) = a * y - e * w + f * x - b * z
      /\ TurnSum(s, FieldDerivative(s, m, c), 2) = a * z - f * w + b * y - e * x
  BY <1>1, <1>2 DEF TurnSum
<1>5. ASSUME NEW u \in [0 .. 3 -> Int], NEW v \in [0 .. 3 -> Int]
      PROVE  Halved(Alternating(u, [i \in 0 .. 3 |-> v[i] % Prime]) % Prime)
               = (HalfInt * Alternating(u, v)) % Prime
  <2>1. PICK n \in Int, h \in Int : n = Alternating(u, v) /\ h = HalfInt
    BY AlternatingIs, HalfIs
  <2>2. ((n % Prime) * (h % Prime)) % Prime = (n * h) % Prime
    BY ModBoth
  <2>3. n * h = h * n
    OBVIOUS
  <2> QED
    BY <2>1, <2>2, <2>3, AlternatingIs, HalfIs DEF Halved
<1>6. CASE j = 0
  <2>1. PICK u \in [0 .. 3 -> Int], v \in [0 .. 3 -> Int] :
           /\ u[0] = a /\ u[1] = b /\ u[2] = e /\ u[3] = f
           /\ v[0] = x /\ v[1] = w /\ v[2] = z /\ v[3] = y
    <3> DEFINE u0 == [i \in 0 .. 3 |-> CASE i = 0 -> a [] i = 1 -> b [] i = 2 -> e [] OTHER -> f]
               v0 == [i \in 0 .. 3 |-> CASE i = 0 -> x [] i = 1 -> w [] i = 2 -> z [] OTHER -> y]
    <3>1. u0 \in [0 .. 3 -> Int] /\ v0 \in [0 .. 3 -> Int]
      OBVIOUS
    <3>2. /\ u0[0] = a /\ u0[1] = b /\ u0[2] = e /\ u0[3] = f
          /\ v0[0] = x /\ v0[1] = w /\ v0[2] = z /\ v0[3] = y
      OBVIOUS
    <3> HIDE DEF u0, v0
    <3> QED
      BY <3>1, <3>2
  <2>2. Alternating(u, v) = a * x - b * w + e * z - f * y
    BY <2>1 DEF Alternating
  <2>3. Alternating(u, [i \in 0 .. 3 |-> v[i] % Prime])
          = a * (x % Prime) - b * (w % Prime) + e * (z % Prime) - f * (y % Prime)
    BY <2>1 DEF Alternating
  <2>4. Halved(Alternating(u, [i \in 0 .. 3 |-> v[i] % Prime]) % Prime)
          = (HalfInt * Alternating(u, v)) % Prime
    BY <1>5
  <2> QED
    BY <1>3, <1>4, <1>6, <2>2, <2>3, <2>4
<1>7. CASE j = 1
  <2>1. PICK u \in [0 .. 3 -> Int], v \in [0 .. 3 -> Int] :
           /\ u[0] = a /\ u[1] = e /\ u[2] = f /\ u[3] = b
           /\ v[0] = y /\ v[1] = w /\ v[2] = x /\ v[3] = z
    <3> DEFINE u0 == [i \in 0 .. 3 |-> CASE i = 0 -> a [] i = 1 -> e [] i = 2 -> f [] OTHER -> b]
               v0 == [i \in 0 .. 3 |-> CASE i = 0 -> y [] i = 1 -> w [] i = 2 -> x [] OTHER -> z]
    <3>1. u0 \in [0 .. 3 -> Int] /\ v0 \in [0 .. 3 -> Int]
      OBVIOUS
    <3>2. /\ u0[0] = a /\ u0[1] = e /\ u0[2] = f /\ u0[3] = b
          /\ v0[0] = y /\ v0[1] = w /\ v0[2] = x /\ v0[3] = z
      OBVIOUS
    <3> HIDE DEF u0, v0
    <3> QED
      BY <3>1, <3>2
  <2>2. Alternating(u, v) = a * y - e * w + f * x - b * z
    BY <2>1 DEF Alternating
  <2>3. Alternating(u, [i \in 0 .. 3 |-> v[i] % Prime])
          = a * (y % Prime) - e * (w % Prime) + f * (x % Prime) - b * (z % Prime)
    BY <2>1 DEF Alternating
  <2>4. Halved(Alternating(u, [i \in 0 .. 3 |-> v[i] % Prime]) % Prime)
          = (HalfInt * Alternating(u, v)) % Prime
    BY <1>5
  <2> QED
    BY <1>3, <1>4, <1>7, <2>2, <2>3, <2>4
<1>8. CASE j = 2
  <2>1. PICK u \in [0 .. 3 -> Int], v \in [0 .. 3 -> Int] :
           /\ u[0] = a /\ u[1] = f /\ u[2] = b /\ u[3] = e
           /\ v[0] = z /\ v[1] = w /\ v[2] = y /\ v[3] = x
    <3> DEFINE u0 == [i \in 0 .. 3 |-> CASE i = 0 -> a [] i = 1 -> f [] i = 2 -> b [] OTHER -> e]
               v0 == [i \in 0 .. 3 |-> CASE i = 0 -> z [] i = 1 -> w [] i = 2 -> y [] OTHER -> x]
    <3>1. u0 \in [0 .. 3 -> Int] /\ v0 \in [0 .. 3 -> Int]
      OBVIOUS
    <3>2. /\ u0[0] = a /\ u0[1] = f /\ u0[2] = b /\ u0[3] = e
          /\ v0[0] = z /\ v0[1] = w /\ v0[2] = y /\ v0[3] = x
      OBVIOUS
    <3> HIDE DEF u0, v0
    <3> QED
      BY <3>1, <3>2
  <2>2. Alternating(u, v) = a * z - f * w + b * y - e * x
    BY <2>1 DEF Alternating
  <2>3. Alternating(u, [i \in 0 .. 3 |-> v[i] % Prime])
          = a * (z % Prime) - f * (w % Prime) + b * (y % Prime) - e * (x % Prime)
    BY <2>1 DEF Alternating
  <2>4. Halved(Alternating(u, [i \in 0 .. 3 |-> v[i] % Prime]) % Prime)
          = (HalfInt * Alternating(u, v)) % Prime
    BY <1>5
  <2> QED
    BY <1>3, <1>4, <1>8, <2>2, <2>3, <2>4
<1>9. TurnSum(s, FieldDerivative(s, m, c), j) \in Int
  BY <1>4, <1>6, <1>7, <1>8
<1> QED
  BY <1>6, <1>7, <1>8, <1>9

(***************************************************************************)
(* H along the errors                                                      *)
(***************************************************************************)
\* The error along index j, as the measurement sees it.
TrueAlong(arg, j) == TrueState(Nominal(arg), ErrorOf(Along(j, Tangent)))

\* How the numbers of the quaternion change when it turns.
Changes(s, k0, k1, k2) ==
    [w |-> 0 - (k0 * s[1] + k1 * s[2] + k2 * s[3]),
     x |-> k0 * s[0] + (k1 * s[3] - k2 * s[2]),
     y |-> k1 * s[0] + (k2 * s[1] - k0 * s[3]),
     z |-> k2 * s[0] + (k0 * s[2] - k1 * s[1])]

\* Along the error j.
ChangesAlong(arg, j) ==
    Changes(arg.state, HalfInt * Delta(0, j), HalfInt * Delta(1, j), HalfInt * Delta(2, j))

\* The changes are integers.
LEMMA ChangesInt ==
    ASSUME NEW arg, IsArgument(arg), NEW j
    PROVE  /\ ChangesAlong(arg, j).w \in Int /\ ChangesAlong(arg, j).x \in Int
           /\ ChangesAlong(arg, j).y \in Int /\ ChangesAlong(arg, j).z \in Int
<1> DEFINE s == arg.state
<1>1. PICK k0 \in Int, k1 \in Int, k2 \in Int :
         k0 = HalfInt * Delta(0, j) /\ k1 = HalfInt * Delta(1, j) /\ k2 = HalfInt * Delta(2, j)
  <2>1. PICK h \in Int : h = HalfInt
    BY HalfIs
  <2> QED
    BY <2>1 DEF Delta
<1>2. /\ s[0] \in Int /\ s[1] \in Int /\ s[2] \in Int /\ s[3] \in Int
  BY DEF IsArgument
<1> HIDE DEF s
<1>3. PICK a \in Int, b \in Int, e \in Int, f \in Int :
         a = s[0] /\ b = s[1] /\ e = s[2] /\ f = s[3]
  BY <1>2
<1>4. /\ Changes(s, k0, k1, k2).w = 0 - (k0 * b + k1 * e + k2 * f)
      /\ Changes(s, k0, k1, k2).x = k0 * a + (k1 * f - k2 * e)
      /\ Changes(s, k0, k1, k2).y = k1 * a + (k2 * b - k0 * f)
      /\ Changes(s, k0, k1, k2).z = k2 * a + (k0 * e - k1 * b)
  BY <1>3 DEF Changes
<1>5. /\ Changes(s, k0, k1, k2).w \in Int /\ Changes(s, k0, k1, k2).x \in Int
      /\ Changes(s, k0, k1, k2).y \in Int /\ Changes(s, k0, k1, k2).z \in Int
  BY <1>4
<1> QED
  BY <1>1, <1>5 DEF ChangesAlong, s

\* The derivative of the field in the body frame, by these changes.
LEMMA MagByChanges ==
    ASSUME NEW arg, IsArgument(arg), NEW j \in 0 .. 14, NEW c \in 0 .. 2
    PROVE  Derivative(MeasPred("mag", arg, TrueAlong(arg, j))[c])
             = (ChangesAlong(arg, j).w * FieldDerivative(arg.state, arg.mag_ref, c).w
                  + ChangesAlong(arg, j).x * FieldDerivative(arg.state, arg.mag_ref, c).x
                  + ChangesAlong(arg, j).y * FieldDerivative(arg.state, arg.mag_ref, c).y
                  + ChangesAlong(arg, j).z * FieldDerivative(arg.state, arg.mag_ref, c).z) % Prime
<1> DEFINE s == arg.state
           m == arg.mag_ref
           D == FieldDerivative(s, m, c)
           q == TrueAlong(arg, j)["quat_nominal"]
           d == ChangesAlong(arg, j)
<1>1. /\ s[0] \in Int /\ s[1] \in Int /\ s[2] \in Int /\ s[3] \in Int
      /\ m \in [0 .. 2 -> Int]
  BY DEF IsArgument
<1>2. /\ q.w = Mod(Pair(s[0], d.w)) /\ q.x = Mod(Pair(s[1], d.x))
      /\ q.y = Mod(Pair(s[2], d.y)) /\ q.z = Mod(Pair(s[3], d.z))
  <2>1. PICK k0, k1, k2 :
           k0 = HalfInt * Delta(0, j) /\ k1 = HalfInt * Delta(1, j) /\ k2 = HalfInt * Delta(2, j)
    OBVIOUS
  <2>2. q = Turned(s, k0, k1, k2) /\ d = Changes(s, k0, k1, k2)
    BY <2>1, TrueIs DEF TrueAlong, ChangesAlong
  <2> HIDE DEF q, d, s
  <2> QED
    BY <2>2 DEF Turned, Changes, Number
<1>3. d.w \in Int /\ d.x \in Int /\ d.y \in Int /\ d.z \in Int
  BY ChangesInt
<1>4. MeasPred("mag", arg, TrueAlong(arg, j)) = RotateBack(q, LiftV3(m))
  BY DEF MeasPred
<1> HIDE DEF s, m, D, q, d
<1>5. FieldChange(q, s, m, d)
  BY <1>1, <1>2, <1>3 DEF FieldChange
<1>6. PICK p \in Dual :
         /\ RotateBack(q, LiftV3(m))[c] = Mod(p)
         /\ p[2] = d.w * D.w + d.x * D.x + d.y * D.y + d.z * D.z
  BY <1>5, FieldAlong DEF D
<1> QED
  BY <1>4, <1>6, ModParts DEF s, m, D, d

\* It is what the generated function computes.
LEMMA MagAlong ==
    ASSUME NEW arg, IsArgument(arg), NEW j \in 0 .. 14, NEW c \in 0 .. 2
    PROVE  Derivative(MeasPred("mag", arg, TrueAlong(arg, j))[c])
             = IF j < 3 THEN FieldTurn(arg.state, arg.mag_ref, c)[j] ELSE 0
<1> DEFINE s == arg.state
           m == arg.mag_ref
           D == FieldDerivative(s, m, c)
           d == ChangesAlong(arg, j)
<1>1. /\ s[0] \in Int /\ s[1] \in Int /\ s[2] \in Int /\ s[3] \in Int
      /\ m[0] \in Int /\ m[1] \in Int /\ m[2] \in Int
  BY DEF IsArgument
<1>2. PICK h \in Int : h = HalfInt
  BY HalfIs
<1>3. PICK k0 \in Int, k1 \in Int, k2 \in Int :
         k0 = h * Delta(0, j) /\ k1 = h * Delta(1, j) /\ k2 = h * Delta(2, j)
  BY DEF Delta
<1>4. d = Changes(s, k0, k1, k2)
  BY <1>2, <1>3 DEF ChangesAlong
<1>5. Derivative(MeasPred("mag", arg, TrueAlong(arg, j))[c])
         = (d.w * D.w + d.x * D.x + d.y * D.y + d.z * D.z) % Prime
  BY MagByChanges
<1> HIDE DEF s, m, D, d
<1>6. IsField(s, m)
  BY <1>1 DEF IsField
<1>7. PICK a \in Int, b \in Int, e \in Int, f \in Int :
         a = s[0] /\ b = s[1] /\ e = s[2] /\ f = s[3]
  BY <1>1
<1>8. /\ d.w = 0 - (k0 * b + k1 * e + k2 * f) /\ d.x = k0 * a + (k1 * f - k2 * e)
      /\ d.y = k1 * a + (k2 * b - k0 * f) /\ d.z = k2 * a + (k0 * e - k1 * b)
  BY <1>4, <1>7 DEF Changes
<1>9. PICK w \in Int, x \in Int, y \in Int, z \in Int : w = D.w /\ x = D.x /\ y = D.y /\ z = D.z
  BY <1>6, FieldDerivativeInt DEF D
<1>10. PICK r \in Int :
          /\ r = (0 - (k0 * b + k1 * e + k2 * f)) * w + (k0 * a + (k1 * f - k2 * e)) * x
                   + (k1 * a + (k2 * b - k0 * f)) * y + (k2 * a + (k0 * e - k1 * b)) * z
          /\ Derivative(MeasPred("mag", arg, TrueAlong(arg, j))[c]) = r % Prime
  BY <1>5, <1>8, <1>9
<1>11. r = (0 - (k0 * b + k1 * e + k2 * f)) * w + (k0 * a + (k1 * f - k2 * e)) * x
             + (k1 * a + (k2 * b - k0 * f)) * y + (k2 * a + (k0 * e - k1 * b)) * z
  BY <1>10
<1>12. ASSUME j \in 0 .. 2
       PROVE  FieldTurn(s, m, c)[j] = (h * TurnSum(s, D, j)) % Prime
  BY <1>2, <1>6, <1>12, FieldTurnIs DEF D
<1>13. CASE j = 0
  <2>1. k0 = h /\ k1 = 0 /\ k2 = 0
    BY <1>3, <1>13 DEF Delta
  <2>2. TurnSum(s, D, 0) = a * x - b * w + e * z - f * y
    BY <1>7, <1>9 DEF TurnSum
  <2>3. r = h * (a * x - b * w + e * z - f * y)
    BY <1>11, <2>1
  <2>4. FieldTurn(s, m, c)[0] = (h * TurnSum(s, D, 0)) % Prime
    BY <1>12, <1>13
  <2>5. FieldTurn(s, m, c)[0] = r % Prime
    BY <2>2, <2>3, <2>4
  <2> QED
    BY <1>10, <1>13, <2>5 DEF s, m
<1>14. CASE j = 1
  <2>1. k0 = 0 /\ k1 = h /\ k2 = 0
    BY <1>3, <1>14 DEF Delta
  <2>2. TurnSum(s, D, 1) = a * y - e * w + f * x - b * z
    BY <1>7, <1>9 DEF TurnSum
  <2>3. r = h * (a * y - e * w + f * x - b * z)
    BY <1>11, <2>1
  <2>4. FieldTurn(s, m, c)[1] = (h * TurnSum(s, D, 1)) % Prime
    BY <1>12, <1>14
  <2>5. FieldTurn(s, m, c)[1] = r % Prime
    BY <2>2, <2>3, <2>4
  <2> QED
    BY <1>10, <1>14, <2>5 DEF s, m
<1>15. CASE j = 2
  <2>1. k0 = 0 /\ k1 = 0 /\ k2 = h
    BY <1>3, <1>15 DEF Delta
  <2>2. TurnSum(s, D, 2) = a * z - f * w + b * y - e * x
    BY <1>7, <1>9 DEF TurnSum
  <2>3. r = h * (a * z - f * w + b * y - e * x)
    BY <1>11, <2>1
  <2>4. FieldTurn(s, m, c)[2] = (h * TurnSum(s, D, 2)) % Prime
    BY <1>12, <1>15
  <2>5. FieldTurn(s, m, c)[2] = r % Prime
    BY <2>2, <2>3, <2>4
  <2> QED
    BY <1>10, <1>15, <2>5 DEF s, m
<1>16. CASE j > 2
  <2>1. k0 = 0 /\ k1 = 0 /\ k2 = 0
    BY <1>3, <1>16 DEF Delta
  <2>2. r = 0
    BY <1>11, <2>1
  <2> QED
    BY <1>10, <1>16, <2>2, ModSmall
<1> QED
  BY <1>13, <1>14, <1>15, <1>16

\* The derivative of the other measurements.
LEMMA LinearAlong ==
    ASSUME NEW arg, IsArgument(arg), NEW j \in 0 .. 14
    PROVE  /\ \A c \in 0 .. 2 : Derivative(MeasPred("gps_pos", arg, TrueAlong(arg, j))[c])
                                  = Delta(6 + c, j) % Prime
           /\ \A c \in 0 .. 2 : Derivative(MeasPred("gps_vel", arg, TrueAlong(arg, j))[c])
                                  = Delta(3 + c, j) % Prime
           /\ \A sensor \in {"baro", "lidar"} :
                 Derivative(MeasPred(sensor, arg, TrueAlong(arg, j))[0]) = (0 - Delta(8, j)) % Prime
<1> DEFINE s == arg.state
<1>1. \A i \in 0 .. 15 : s[i] \in Int
  BY DEF IsArgument
<1>2. /\ \A i \in 0 .. 2 : TrueAlong(arg, j)["vel"][i] = Number(s[4 + i], Delta(3 + i, j))
      /\ \A i \in 0 .. 2 : TrueAlong(arg, j)["pos"][i] = Number(s[7 + i], Delta(6 + i, j))
  BY TrueIs DEF TrueAlong
<1> HIDE DEF s
<1>3. \A i, l : Delta(i, l) \in Int
  BY DEF Delta
<1>4. ASSUME NEW c \in 0 .. 2
      PROVE  /\ Derivative(TrueAlong(arg, j)["pos"][c]) = Delta(6 + c, j) % Prime
             /\ Derivative(TrueAlong(arg, j)["vel"][c]) = Delta(3 + c, j) % Prime
             /\ Derivative(Zero -- TrueAlong(arg, j)["pos"][c]) = (0 - Delta(6 + c, j)) % Prime
  <2>1. PICK a \in Int, b \in Int, d \in Int, e \in Int :
           a = s[4 + c] /\ b = s[7 + c] /\ d = Delta(3 + c, j) /\ e = Delta(6 + c, j)
    <3>1. 4 + c \in 0 .. 15 /\ 7 + c \in 0 .. 15
      OBVIOUS
    <3>2. s[4 + c] \in Int /\ s[7 + c] \in Int /\ Delta(3 + c, j) \in Int /\ Delta(6 + c, j) \in Int
      BY <1>1, <1>3, <3>1
    <3> QED
      BY <3>2
  <2>2. Derivative(Number(a, d)) = d % Prime /\ Derivative(Number(b, e)) = e % Prime
    BY ChangeArith
  <2>3. Zero -- Number(b, e) = Number(0 - b, 0 - e)
    BY ChangeArith
  <2>4. PICK x \in Int, y \in Int : x = 0 - b /\ y = 0 - e
    OBVIOUS
  <2>5. Derivative(Number(x, y)) = y % Prime
    BY ChangeArith
  <2> QED
    BY <1>2, <2>1, <2>2, <2>3, <2>4, <2>5
<1>5. /\ MeasPred("gps_pos", arg, TrueAlong(arg, j)) = TrueAlong(arg, j)["pos"]
      /\ MeasPred("gps_vel", arg, TrueAlong(arg, j)) = TrueAlong(arg, j)["vel"]
      /\ MeasPred("baro", arg, TrueAlong(arg, j))[0] = Zero -- TrueAlong(arg, j)["pos"][2]
      /\ MeasPred("lidar", arg, TrueAlong(arg, j))[0] = Zero -- TrueAlong(arg, j)["pos"][2]
  BY DEF MeasPred
<1>6. 2 \in 0 .. 2 /\ 6 + 2 = 8
  OBVIOUS
<1> QED
  BY <1>4, <1>5, <1>6

\* What the generated functions return for H.
LEMMA GeneratedH ==
    ASSUME NEW arg, NEW j \in 0 .. 14
    PROVE  /\ \A c \in 0 .. 2 :
                 /\ generated_innov_var_and_h("gps_pos", arg).H[c][j] = Delta(6 + c, j) % Prime
                 /\ generated_innov_var_and_h("gps_vel", arg).H[c][j] = Delta(3 + c, j) % Prime
                 /\ generated_innov_var_and_h("mag", arg).H[c][j]
                      = IF j < 3 THEN FieldTurn(arg.state, arg.mag_ref, c)[j] ELSE 0
           /\ \A sensor \in {"baro", "lidar"} :
                 generated_innov_var_and_h(sensor, arg).H[0][j] = (0 - Delta(8, j)) % Prime
<1>1. \A i, k \in Int : Single(i, k)[j] = IF j = i THEN k % Prime ELSE 0
  BY Layout DEF Single
<1>2. \A i \in Int : /\ Single(i, 1)[j] = Delta(i, j) % Prime
                     /\ Single(i, -1)[j] = (0 - Delta(i, j)) % Prime
  <2>1. 0 % Prime = 0 /\ 0 - 0 = 0 /\ 0 - 1 = -1
    BY ModSmall
  <2> QED
    BY <1>1, <2>1 DEF Delta
<1>3. ASSUME NEW c \in 0 .. 2
      PROVE  /\ generated_innov_var_and_h("gps_pos", arg).H[c] = Single(6 + c, 1)
             /\ generated_innov_var_and_h("gps_vel", arg).H[c] = Single(3 + c, 1)
  BY DEF generated_innov_var_and_h, generated_gps_pos, generated_gps_vel, Axes
<1>4. ASSUME NEW c \in 0 .. 2
      PROVE  generated_innov_var_and_h("mag", arg).H[c][j]
               = IF j < 3 THEN FieldTurn(arg.state, arg.mag_ref, c)[j] ELSE 0
  BY Layout DEF generated_innov_var_and_h, generated_mag, Axes
<1>5. /\ generated_innov_var_and_h("baro", arg).H[0] = Single(8, -1)
      /\ generated_innov_var_and_h("lidar", arg).H[0] = Single(8, -1)
  BY DEF generated_innov_var_and_h, generated_baro, generated_lidar
<1> QED
  BY <1>2, <1>3, <1>4, <1>5

\* The H of a function is the derivative along the error.
LEMMA HIsDerivative ==
    ASSUME NEW arg, IsArgument(arg), NEW sensor \in Sensors, NEW c \in Components(sensor),
           NEW j \in Tangent
    PROVE  generated_innov_var_and_h(sensor, arg).H[c][j]
             = Derivative(MeasPred(sensor, arg, TrueAlong(arg, j))[c])
<1>1. j \in 0 .. 14 /\ c \in 0 .. 2
  BY Layout DEF Components, Axes
<1>2. CASE sensor = "gps_pos"
  <2>1. generated_innov_var_and_h("gps_pos", arg).H[c][j]
          = Delta(6 + c, j) % Prime
    BY <1>1, GeneratedH
  <2>2. Derivative(MeasPred("gps_pos", arg, TrueAlong(arg, j))[c])
          = Delta(6 + c, j) % Prime
    BY <1>1, LinearAlong
  <2> QED
    BY <1>2, <2>1, <2>2
<1>3. CASE sensor = "gps_vel"
  <2>1. generated_innov_var_and_h("gps_vel", arg).H[c][j]
          = Delta(3 + c, j) % Prime
    BY <1>1, GeneratedH
  <2>2. Derivative(MeasPred("gps_vel", arg, TrueAlong(arg, j))[c])
          = Delta(3 + c, j) % Prime
    BY <1>1, LinearAlong
  <2> QED
    BY <1>3, <2>1, <2>2
<1>4. CASE sensor = "mag"
  <2>1. generated_innov_var_and_h("mag", arg).H[c][j]
          = (IF j < 3 THEN FieldTurn(arg.state, arg.mag_ref, c)[j] ELSE 0)
    BY <1>1, GeneratedH
  <2>2. Derivative(MeasPred("mag", arg, TrueAlong(arg, j))[c])
          = (IF j < 3 THEN FieldTurn(arg.state, arg.mag_ref, c)[j] ELSE 0)
    BY <1>1, MagAlong
  <2> QED
    BY <1>4, <2>1, <2>2
<1>5. CASE sensor \in {"baro", "lidar"}
  <2>1. c = 0
    BY <1>5 DEF Components
  <2> QED
    BY <1>1, <1>5, <2>1, GeneratedH, LinearAlong
<1> QED
  BY <1>2, <1>3, <1>4, <1>5 DEF Sensors

(***************************************************************************)
(* The invariant, and the first theorem                                    *)
(***************************************************************************)
\* The argument is one of the given ones, and a result is that of the last
\* call on it.
EkfInv ==
    /\ ekf_arg \in EkfArguments
    /\ ekf_called \in Sensors => ekf_result = generated_innov_var_and_h(ekf_called, ekf_arg)

\* Each step keeps it: the argument never changes, a call writes the function
\* and its result together.
LEMMA EkfInvHolds == EkfSpec => []EkfInv
<1>1. EkfInit => EkfInv
  BY DEF EkfInit, EkfInv, Sensors
<1>2. EkfInv /\ [EkfNext]_ekfVars => EkfInv'
  <2> SUFFICES ASSUME EkfInv, [EkfNext]_ekfVars PROVE EkfInv'
    OBVIOUS
  <2>1. CASE Derive
    BY <2>1 DEF Derive, EkfInv, Sensors
  <2>2. CASE CallPredictCovariance
    BY <2>2 DEF CallPredictCovariance, EkfInv, Sensors
  <2>3. ASSUME NEW sensor \in Sensors, CallInnovVarAndH(sensor) PROVE EkfInv'
    BY <2>3 DEF CallInnovVarAndH, EkfInv
  <2>4. CASE UNCHANGED ekfVars
    BY <2>4 DEF ekfVars, EkfInv
  <2> QED
    BY <2>1, <2>2, <2>3, <2>4 DEF EkfNext
<1> QED
  BY <1>1, <1>2, PTL DEF EkfSpec

\* For every state, covariance and measurement: the H that a generated
\* compute_*_innov_var_and_h returns, found through the matrix of
\* jacobian_chain_rule (ekf_derivation.py:185), is the derivative of the
\* measurement along the error by which the prediction defines the true state
\* (ekf_derivation.py:111-117), for each of the 15 errors.
THEOREM ErrorStatesAgree == EkfSpec => []OneErrorState
<1>1. EkfInv => OneErrorState
  <2> SUFFICES ASSUME EkfInv, ekf_called \in Sensors,
                      NEW c \in Components(ekf_called), NEW j \in Tangent
               PROVE  ekf_result.H[c][j] =
                        Derivative(MeasPred(ekf_called, ekf_arg, TrueAlong(ekf_arg, j))[c])
    BY DEF OneErrorState, TrueAlong
  <2>1. IsArgument(ekf_arg) /\ ekf_result = generated_innov_var_and_h(ekf_called, ekf_arg)
    BY ArgumentsAre DEF EkfInv
  <2> QED
    BY <2>1, HIsDerivative
<1> QED
  BY <1>1, EkfInvHolds, PTL

(***************************************************************************)
(* Inner products                                                          *)
(***************************************************************************)
\* The inner products, where most members are zero.
LEMMA SumOverStorageIs ==
    ASSUME NEW f \in [0 .. 15 -> Int]
    PROVE  SumOverStorage(f) =
             (f[0] + f[1] + f[2] + f[3] + f[4] + f[5] + f[6] + f[7] + f[8] + f[9]
                + f[10] + f[11] + f[12] + f[13] + f[14] + f[15]) % Prime
<1>1. PICK a \in Int, b \in Int :
         /\ a = f[0] + f[1] + f[2] + f[3] + f[4] + f[5] + f[6] + f[7] + f[8] + f[9]
                  + f[10] + f[11] + f[12] + f[13] + f[14]
         /\ b = f[15]
  OBVIOUS
<1>2. SumOverStorage(f) = ((a % Prime) + b) % Prime
  BY <1>1 DEF SumOverStorage, SumOverTangent
<1>3. ((a % Prime) + b) % Prime = (a + b) % Prime
  BY ModArith
<1> QED
  BY <1>1, <1>2, <1>3

\* One member is not zero.
LEMMA SumSingle ==
    /\ \A f \in [0 .. 15 -> Int], a \in 0 .. 15 :
          (\A i \in 0 .. 15 : i # a => f[i] = 0) => SumOverStorage(f) = f[a] % Prime
    /\ \A f \in [0 .. 14 -> Int], a \in 0 .. 14 :
          (\A i \in 0 .. 14 : i # a => f[i] = 0) => SumOverTangent(f) = f[a] % Prime
<1>1. ASSUME NEW f \in [0 .. 15 -> Int], NEW a \in 0 .. 15,
             \A i \in 0 .. 15 : i # a => f[i] = 0
      PROVE  SumOverStorage(f) = f[a] % Prime
  <2> DEFINE g(i) == IF i = a THEN f[a] ELSE 0
  <2>1. \A i \in 0 .. 15 : f[i] = g(i)
    BY <1>1
  <2>2. PICK b \in Int : b = f[a]
    OBVIOUS
  <2>3. g(0) + g(1) + g(2) + g(3) + g(4) + g(5) + g(6) + g(7) + g(8) + g(9)
          + g(10) + g(11) + g(12) + g(13) + g(14) + g(15) = b
    BY <2>2
  <2> HIDE DEF g
  <2>4. f[0] + f[1] + f[2] + f[3] + f[4] + f[5] + f[6] + f[7] + f[8] + f[9]
          + f[10] + f[11] + f[12] + f[13] + f[14] + f[15] = b
    BY <2>1, <2>3
  <2> QED
    BY <2>2, <2>4, SumOverStorageIs
<1>2. ASSUME NEW f \in [0 .. 14 -> Int], NEW a \in 0 .. 14,
             \A i \in 0 .. 14 : i # a => f[i] = 0
      PROVE  SumOverTangent(f) = f[a] % Prime
  <2> DEFINE g(i) == IF i = a THEN f[a] ELSE 0
  <2>1. \A i \in 0 .. 14 : f[i] = g(i)
    BY <1>2
  <2>2. PICK b \in Int : b = f[a]
    OBVIOUS
  <2>3. g(0) + g(1) + g(2) + g(3) + g(4) + g(5) + g(6) + g(7) + g(8) + g(9)
          + g(10) + g(11) + g(12) + g(13) + g(14) = b
    BY <2>2
  <2> HIDE DEF g
  <2>4. f[0] + f[1] + f[2] + f[3] + f[4] + f[5] + f[6] + f[7] + f[8] + f[9]
          + f[10] + f[11] + f[12] + f[13] + f[14] = b
    BY <2>1, <2>3
  <2> QED
    BY <2>2, <2>4 DEF SumOverTangent
<1> QED
  BY <1>1, <1>2

\* Only the first members are not zero.
LEMMA SumFew ==
    /\ \A f \in [0 .. 15 -> Int] :
          (\A i \in 4 .. 15 : f[i] = 0) => SumOverStorage(f) = (f[0] + f[1] + f[2] + f[3]) % Prime
    /\ \A f \in [0 .. 14 -> Int] :
          (\A i \in 3 .. 14 : f[i] = 0) => SumOverTangent(f) = (f[0] + f[1] + f[2]) % Prime
<1>1. ASSUME NEW f \in [0 .. 15 -> Int], \A i \in 4 .. 15 : f[i] = 0
      PROVE  SumOverStorage(f) = (f[0] + f[1] + f[2] + f[3]) % Prime
  <2>1. f[0] + f[1] + f[2] + f[3] + f[4] + f[5] + f[6] + f[7] + f[8] + f[9]
          + f[10] + f[11] + f[12] + f[13] + f[14] + f[15] = f[0] + f[1] + f[2] + f[3]
    BY <1>1
  <2> QED
    BY <2>1, SumOverStorageIs
<1>2. ASSUME NEW f \in [0 .. 14 -> Int], \A i \in 3 .. 14 : f[i] = 0
      PROVE  SumOverTangent(f) = (f[0] + f[1] + f[2]) % Prime
  <2>1. f[0] + f[1] + f[2] + f[3] + f[4] + f[5] + f[6] + f[7] + f[8] + f[9]
          + f[10] + f[11] + f[12] + f[13] + f[14] = f[0] + f[1] + f[2]
    BY <1>2
  <2> QED
    BY <2>1 DEF SumOverTangent
<1> QED
  BY <1>1, <1>2

\* Reduced products of three.
LEMMA SumOfThreeIs ==
    ASSUME NEW f \in [0 .. 2 -> Int]
    PROVE  SumOfThree([k \in Axes |-> f[k] % Prime]) = (f[0] + f[1] + f[2]) % Prime
<1>1. PICK a \in Int, b \in Int, c \in Int : a = f[0] /\ b = f[1] /\ c = f[2]
  <2>1. f[0] \in Int /\ f[1] \in Int /\ f[2] \in Int
    OBVIOUS
  <2> QED
    BY <2>1
<1>2. PICK x \in Int, y \in Int, z \in Int : x = a % Prime /\ y = b % Prime /\ z = c % Prime
  BY ModIs
<1>3. SumOfThree([k \in Axes |-> f[k] % Prime]) = (x + y + z) % Prime
  BY <1>1, <1>2 DEF SumOfThree, Axes
<1>4. PICK u \in Int : u = x + y
  OBVIOUS
<1>5. PICK v \in Int : v = a + b
  OBVIOUS
<1>6. u % Prime = v % Prime
  BY <1>2, <1>4, <1>5, ModBoth
<1>7. z % Prime = c % Prime
  BY <1>2, ModSmall
<1>8. /\ (u + z) % Prime = ((u % Prime) + (z % Prime)) % Prime
      /\ (v + c) % Prime = ((v % Prime) + (c % Prime)) % Prime
  BY ModBoth
<1>9. (u + z) % Prime = (v + c) % Prime
  BY <1>6, <1>7, <1>8
<1> QED
  BY <1>1, <1>3, <1>4, <1>5, <1>9

(***************************************************************************)
(* The chain rule: the derivatives along the numbers of the state          *)
(***************************************************************************)
\* Which member owns an index of the state.
LEMMA OwnerIs ==
    /\ \A i \in 0 .. 3 : OwnerOf(StorageStart, i) = "quat_nominal"
    /\ \A i \in 4 .. 6 : OwnerOf(StorageStart, i) = "vel"
    /\ \A i \in 7 .. 9 : OwnerOf(StorageStart, i) = "pos"
    /\ \A i \in 10 .. 12 : OwnerOf(StorageStart, i) = "gyro_bias"
    /\ \A i \in 13 .. 15 : OwnerOf(StorageStart, i) = "accel_bias"
<1>1. /\ Len(State) = 5
      /\ State[1] = "quat_nominal" /\ State[2] = "vel" /\ State[3] = "pos"
      /\ State[4] = "gyro_bias" /\ State[5] = "accel_bias"
  BY DEF State
<1>2. ASSUME NEW i \in 0 .. 15, NEW n \in 1 .. 5,
             StorageStart[n] <= i, i < StorageStart[n + 1]
      PROVE  OwnerOf(StorageStart, i) = State[n]
  <2>1. ASSUME NEW k \in 1 .. 5, StorageStart[k] <= i, i < StorageStart[k + 1] PROVE k = n
    BY <1>2, <2>1, StorageStartIs
  <2>2. (CHOOSE k \in 1 .. 5 : StorageStart[k] <= i /\ i < StorageStart[k + 1]) = n
    BY <1>2, <2>1
  <2> QED
    BY <1>1, <2>2 DEF OwnerOf
<1>3. \A i \in 0 .. 3 : OwnerOf(StorageStart, i) = State[1]
  BY <1>2, StorageStartIs
<1>4. \A i \in 4 .. 6 : OwnerOf(StorageStart, i) = State[2]
  BY <1>2, StorageStartIs
<1>5. \A i \in 7 .. 9 : OwnerOf(StorageStart, i) = State[3]
  BY <1>2, StorageStartIs
<1>6. \A i \in 10 .. 12 : OwnerOf(StorageStart, i) = State[4]
  BY <1>2, StorageStartIs
<1>7. \A i \in 13 .. 15 : OwnerOf(StorageStart, i) = State[5]
  BY <1>2, StorageStartIs
<1> QED
  BY <1>1, <1>3, <1>4, <1>5, <1>6, <1>7

\* The state as Data writes it: x, y, z, w, then the vectors.
LEMMA DataIs ==
    ASSUME NEW arg, IsArgument(arg)
    PROVE  /\ Data(Nominal(arg))[0] = Number(arg.state[1], 0)
           /\ Data(Nominal(arg))[1] = Number(arg.state[2], 0)
           /\ Data(Nominal(arg))[2] = Number(arg.state[3], 0)
           /\ Data(Nominal(arg))[3] = Number(arg.state[0], 0)
           /\ \A i \in 4 .. 9 : Data(Nominal(arg))[i] = Number(arg.state[i], 0)
           /\ DOMAIN Data(Nominal(arg)) = 0 .. 15
<1> DEFINE N == Nominal(arg)
           s == arg.state
<1>1. N["quat_nominal"] = [w |-> Number(s[0], 0), x |-> Number(s[1], 0),
                           y |-> Number(s[2], 0), z |-> Number(s[3], 0)]
  <2>1. N["quat_nominal"] = [w |-> Mod(Pair(s[0], 0)), x |-> Mod(Pair(s[1], 0)),
                             y |-> Mod(Pair(s[2], 0)), z |-> Mod(Pair(s[3], 0))]
    BY NominalIs
  <2> HIDE DEF N, s
  <2> QED
    BY <2>1 DEF Number
<1>2. \A i \in 0 .. 2 : N["vel"][i] = Number(s[4 + i], 0)
  <2>1. N["vel"] = [i \in 0 .. 2 |-> Mod(Pair(s[4 + i], 0))]
    BY NominalIs
  <2> HIDE DEF N, s
  <2> QED
    BY <2>1 DEF Number
<1>3. \A i \in 0 .. 2 : N["pos"][i] = Number(s[7 + i], 0)
  <2>1. N["pos"] = [i \in 0 .. 2 |-> Mod(Pair(s[7 + i], 0))]
    BY NominalIs
  <2> HIDE DEF N, s
  <2> QED
    BY <2>1 DEF Number
<1> HIDE DEF N, s
<1>4. DOMAIN Data(N) = 0 .. 15
  BY Layout DEF Data
<1>5. Data(N) = [i \in 0 .. 15 |->
                   IF OwnerOf(StorageStart, i) = "quat_nominal"
                     THEN <<N["quat_nominal"].x, N["quat_nominal"].y, N["quat_nominal"].z,
                            N["quat_nominal"].w>>[i - offset("quat_nominal") + 1]
                     ELSE N[OwnerOf(StorageStart, i)][i - offset(OwnerOf(StorageStart, i))]]
  BY Layout DEF Data
<1>6. offset("quat_nominal") = 0
  BY StorageStartIs DEF offset, Position, State
<1>7. ASSUME NEW i \in 0 .. 3
      PROVE  Data(N)[i] = <<N["quat_nominal"].x, N["quat_nominal"].y, N["quat_nominal"].z,
                            N["quat_nominal"].w>>[i + 1]
  <2>1. OwnerOf(StorageStart, i) = "quat_nominal" /\ i - 0 + 1 = i + 1
    BY OwnerIs
  <2> QED
    BY <1>5, <1>6, <2>1
<1>8. /\ Data(N)[0] = Number(s[1], 0) /\ Data(N)[1] = Number(s[2], 0)
      /\ Data(N)[2] = Number(s[3], 0) /\ Data(N)[3] = Number(s[0], 0)
  BY <1>1, <1>7
<1>9. ASSUME NEW i \in 4 .. 6 PROVE Data(N)[i] = Number(s[i], 0)
  <2>1. OwnerOf(StorageStart, i) = "vel" /\ offset("vel") = 4
    BY OwnerIs, Layout
  <2>2. Data(N)[i] = N["vel"][i - 4]
    BY <1>5, <2>1
  <2>3. i - 4 \in 0 .. 2 /\ 4 + (i - 4) = i
    OBVIOUS
  <2> QED
    BY <1>2, <2>2, <2>3
<1>10. ASSUME NEW i \in 7 .. 9 PROVE Data(N)[i] = Number(s[i], 0)
  <2>1. OwnerOf(StorageStart, i) = "pos" /\ offset("pos") = 7
    BY OwnerIs, Layout
  <2>2. Data(N)[i] = N["pos"][i - 7]
    BY <1>5, <2>1
  <2>3. i - 7 \in 0 .. 2 /\ 7 + (i - 7) = i
    OBVIOUS
  <2> QED
    BY <1>3, <2>2, <2>3
<1>11. \A i \in 4 .. 9 : Data(N)[i] = Number(s[i], 0)
  <2>1. \A i \in 4 .. 9 : i \in 4 .. 6 \/ i \in 7 .. 9
    OBVIOUS
  <2> QED
    BY <1>9, <1>10, <2>1
<1> QED
  BY <1>4, <1>8, <1>11 DEF N, s

\* The state that changes along its k-th number.
StoredAlong(arg, k) == StoredState([Data(Nominal(arg)) EXCEPT ![k] = @ ++ EPS])

\* Its members: at most one of the 16 numbers has an infinitesimal part.
LEMMA StoredIs ==
    ASSUME NEW arg, IsArgument(arg), NEW k \in 0 .. 15
    PROVE  /\ StoredAlong(arg, k)["quat_nominal"] =
                [w |-> Number(arg.state[0], Delta(3, k)), x |-> Number(arg.state[1], Delta(0, k)),
                 y |-> Number(arg.state[2], Delta(1, k)), z |-> Number(arg.state[3], Delta(2, k))]
           /\ \A i \in 0 .. 2 : StoredAlong(arg, k)["vel"][i] = Number(arg.state[4 + i], Delta(4 + i, k))
           /\ \A i \in 0 .. 2 : StoredAlong(arg, k)["pos"][i] = Number(arg.state[7 + i], Delta(7 + i, k))
<1> DEFINE flat == Data(Nominal(arg))
           s == arg.state
           to == [flat EXCEPT ![k] = @ ++ EPS]
<1>1. \A i \in 0 .. 15 : s[i] \in Int
  BY DEF IsArgument
<1>2. /\ flat[0] = Number(s[1], 0) /\ flat[1] = Number(s[2], 0)
      /\ flat[2] = Number(s[3], 0) /\ flat[3] = Number(s[0], 0)
      /\ \A i \in 4 .. 9 : flat[i] = Number(s[i], 0)
      /\ DOMAIN flat = 0 .. 15
  BY DataIs
<1> HIDE DEF s, flat
<1>3. EPS = Number(0, 1)
  BY ModIsNumber DEF Number
<1>4. ASSUME NEW i \in 0 .. 15, NEW a \in Int, flat[i] = Number(a, 0)
      PROVE  to[i] = Number(a, Delta(i, k))
  <2>1. Number(a, 0) ++ Number(0, 1) = Number(a, 1)
    BY ChangeArith
  <2>2. CASE i = k
    BY <1>2, <1>3, <1>4, <2>1, <2>2 DEF Delta
  <2>3. CASE i # k
    BY <1>2, <1>4, <2>3 DEF Delta
  <2> QED
    BY <2>2, <2>3
<1> HIDE DEF to
<1>5. to[0] = Number(s[1], Delta(0, k))
  BY <1>1, <1>2, <1>4
<1>6. to[1] = Number(s[2], Delta(1, k))
  BY <1>1, <1>2, <1>4
<1>7. to[2] = Number(s[3], Delta(2, k))
  BY <1>1, <1>2, <1>4
<1>8. to[3] = Number(s[0], Delta(3, k))
  BY <1>1, <1>2, <1>4
<1>9. \A i \in 4 .. 9 : to[i] = Number(s[i], Delta(i, k))
  <2>1. \A i \in 4 .. 9 : i \in 0 .. 15
    OBVIOUS
  <2> QED
    BY <1>1, <1>2, <1>4, <2>1
<1>10. /\ StoredState(to)["quat_nominal"] = [x |-> to[0], y |-> to[1], z |-> to[2], w |-> to[3]]
       /\ \A i \in 0 .. 2 : StoredState(to)["vel"][i] = to[4 + i]
       /\ \A i \in 0 .. 2 : StoredState(to)["pos"][i] = to[7 + i]
  BY Layout DEF StoredState, Axes
<1>11. \A i \in 0 .. 2 : 4 + i \in 4 .. 9 /\ 7 + i \in 4 .. 9
  OBVIOUS
<1>12. /\ StoredState(to)["quat_nominal"] =
            [w |-> Number(s[0], Delta(3, k)), x |-> Number(s[1], Delta(0, k)),
             y |-> Number(s[2], Delta(1, k)), z |-> Number(s[3], Delta(2, k))]
       /\ \A i \in 0 .. 2 : StoredState(to)["vel"][i] = Number(s[4 + i], Delta(4 + i, k))
       /\ \A i \in 0 .. 2 : StoredState(to)["pos"][i] = Number(s[7 + i], Delta(7 + i, k))
  BY <1>5, <1>6, <1>7, <1>8, <1>9, <1>10, <1>11
<1> QED
  BY <1>12 DEF StoredAlong, to, flat, s

-----------------------------------------------------------------------------
\* The derivatives of the measurement along the numbers of the state.
LEMMA MagStored ==
    ASSUME NEW arg, IsArgument(arg), NEW k \in 0 .. 15, NEW c \in 0 .. 2
    PROVE  dh_dx("mag", arg, c)[k]
             = (Delta(3, k) * FieldDerivative(arg.state, arg.mag_ref, c).w
                  + Delta(0, k) * FieldDerivative(arg.state, arg.mag_ref, c).x
                  + Delta(1, k) * FieldDerivative(arg.state, arg.mag_ref, c).y
                  + Delta(2, k) * FieldDerivative(arg.state, arg.mag_ref, c).z) % Prime
<1> DEFINE s == arg.state
           m == arg.mag_ref
           D == FieldDerivative(s, m, c)
           q == StoredAlong(arg, k)["quat_nominal"]
           d == [w |-> Delta(3, k), x |-> Delta(0, k), y |-> Delta(1, k), z |-> Delta(2, k)]
<1>1. /\ s[0] \in Int /\ s[1] \in Int /\ s[2] \in Int /\ s[3] \in Int
      /\ m \in [0 .. 2 -> Int]
  BY DEF IsArgument
<1>2. q = [w |-> Number(s[0], Delta(3, k)), x |-> Number(s[1], Delta(0, k)),
           y |-> Number(s[2], Delta(1, k)), z |-> Number(s[3], Delta(2, k))]
  BY StoredIs
<1>3. d.w \in Int /\ d.x \in Int /\ d.y \in Int /\ d.z \in Int
  BY DEF Delta
<1>4. dh_dx("mag", arg, c)[k] = Derivative(RotateBack(q, LiftV3(m))[c])
  BY Layout DEF dh_dx, MeasPred, StoredAlong
<1> HIDE DEF s, m, q
<1>5. FieldChange(q, s, m, d)
  <2>1. /\ q.w = Number(s[0], Delta(3, k)) /\ q.x = Number(s[1], Delta(0, k))
        /\ q.y = Number(s[2], Delta(1, k)) /\ q.z = Number(s[3], Delta(2, k))
    BY <1>2
  <2> QED
    BY <1>1, <1>3, <2>1 DEF FieldChange, Number
<1>6. d.w = Delta(3, k) /\ d.x = Delta(0, k) /\ d.y = Delta(1, k) /\ d.z = Delta(2, k)
  OBVIOUS
<1> HIDE DEF d, D
<1>7. PICK p \in Dual :
         /\ RotateBack(q, LiftV3(m))[c] = Mod(p)
         /\ p[2] = d.w * D.w + d.x * D.x + d.y * D.y + d.z * D.z
  BY <1>5, FieldAlong DEF D
<1> QED
  BY <1>4, <1>6, <1>7, ModParts DEF s, m, D

\* The derivatives of the linear measurements along the numbers of the state.
LEMMA LinearStored ==
    ASSUME NEW arg, IsArgument(arg), NEW k \in 0 .. 15
    PROVE  /\ \A c \in 0 .. 2 : dh_dx("gps_pos", arg, c)[k] = Delta(7 + c, k) % Prime
           /\ \A c \in 0 .. 2 : dh_dx("gps_vel", arg, c)[k] = Delta(4 + c, k) % Prime
           /\ \A sensor \in {"baro", "lidar"} : dh_dx(sensor, arg, 0)[k] = (0 - Delta(9, k)) % Prime
<1> DEFINE s == arg.state
           N == StoredAlong(arg, k)
<1>1. \A i \in 0 .. 15 : s[i] \in Int
  BY DEF IsArgument
<1>2. /\ \A i \in 0 .. 2 : N["vel"][i] = Number(s[4 + i], Delta(4 + i, k))
      /\ \A i \in 0 .. 2 : N["pos"][i] = Number(s[7 + i], Delta(7 + i, k))
  BY StoredIs
<1>3. \A c \in 0 .. 2 : dh_dx("gps_pos", arg, c)[k] = Derivative(N["pos"][c])
  BY Layout DEF dh_dx, MeasPred, StoredAlong
<1>4. \A c \in 0 .. 2 : dh_dx("gps_vel", arg, c)[k] = Derivative(N["vel"][c])
  BY Layout DEF dh_dx, MeasPred, StoredAlong
<1>5. \A sensor \in {"baro", "lidar"} : dh_dx(sensor, arg, 0)[k] = Derivative(Zero -- N["pos"][2])
  BY Layout DEF dh_dx, MeasPred, StoredAlong
<1> HIDE DEF s, N
<1>6. \A i, l : Delta(i, l) \in Int
  BY DEF Delta
<1>7. ASSUME NEW c \in 0 .. 2
      PROVE  /\ Derivative(N["pos"][c]) = Delta(7 + c, k) % Prime
             /\ Derivative(N["vel"][c]) = Delta(4 + c, k) % Prime
             /\ Derivative(Zero -- N["pos"][c]) = (0 - Delta(7 + c, k)) % Prime
  <2>1. PICK a \in Int, b \in Int, d \in Int, e \in Int :
           a = s[4 + c] /\ b = s[7 + c] /\ d = Delta(4 + c, k) /\ e = Delta(7 + c, k)
    <3>1. 4 + c \in 0 .. 15 /\ 7 + c \in 0 .. 15
      OBVIOUS
    <3>2. s[4 + c] \in Int /\ s[7 + c] \in Int /\ Delta(4 + c, k) \in Int /\ Delta(7 + c, k) \in Int
      BY <1>1, <1>6, <3>1
    <3> QED
      BY <3>2
  <2>2. Derivative(Number(a, d)) = d % Prime /\ Derivative(Number(b, e)) = e % Prime
    BY ChangeArith
  <2>3. Zero -- Number(b, e) = Number(0 - b, 0 - e)
    BY ChangeArith
  <2>4. PICK x \in Int, y \in Int : x = 0 - b /\ y = 0 - e
    OBVIOUS
  <2>5. Derivative(Number(x, y)) = y % Prime
    BY ChangeArith
  <2> QED
    BY <1>2, <2>1, <2>2, <2>3, <2>4, <2>5
<1>8. 2 \in 0 .. 2 /\ 7 + 2 = 9
  OBVIOUS
<1> QED
  BY <1>3, <1>4, <1>5, <1>7, <1>8

(***************************************************************************)
(* The chain rule: the matrix from errors to numbers                       *)
(***************************************************************************)
\* Arithmetic without infinitesimal parts.
Real(a) == Number(a, 0)

\* It is that of the integers.
LEMMA RealArith ==
    ASSUME NEW a \in Int, NEW b \in Int
    PROVE  /\ Real(a) ++ Real(b) = Real(a + b) /\ Real(a) -- Real(b) = Real(a - b)
           /\ Real(a) ** Real(b) = Real(a * b) /\ Value(Real(a)) = a % Prime
<1>1. Pair(a, 0) \in Dual /\ Pair(b, 0) \in Dual
  BY DEF Pair, Dual
<1>2. Pair(a, 0) \oplus Pair(b, 0) = Pair(a + b, 0)
  BY DEF Pair, \oplus
<1>3. Pair(a, 0) \ominus Pair(b, 0) = Pair(a - b, 0)
  BY DEF Pair, \ominus
<1>4. Pair(a, 0) \otimes Pair(b, 0) = Pair(a * b, 0)
  BY DEF Pair, \otimes
<1>5. Real(a) ++ Real(b) = Real(a + b)
  BY <1>1, <1>2, ModHom DEF Number, Real
<1>6. Real(a) -- Real(b) = Real(a - b)
  BY <1>1, <1>3, ModHom DEF Number, Real
<1>7. Real(a) ** Real(b) = Real(a * b)
  BY <1>1, <1>4, ModHom DEF Number, Real
<1> QED
  BY <1>5, <1>6, <1>7, ChangeArith DEF Real

\* The members of the product of an imaginary quaternion and another.
RealFirst(i, k, f)     == Real(0) ** Real(i) ++ Real(k) ** Real(f)
RealSecond(l, g, m, h) == Real(l) ** Real(g) -- Real(m) ** Real(h)

\* The first half of a member: the zero real part adds nothing.
LEMMA RealFirstIs ==
    ASSUME NEW i \in Int, NEW k \in Int, NEW f \in Int
    PROVE  RealFirst(i, k, f) = Real(k * f)
<1>1. Real(0) ** Real(i) = Real(0 * i) /\ Real(k) ** Real(f) = Real(k * f)
  BY RealArith
<1>2. PICK u \in Int : u = k * f
  OBVIOUS
<1>3. Real(0) ++ Real(u) = Real(0 + u) /\ 0 + u = u /\ 0 * i = 0
  BY RealArith
<1> QED
  BY <1>1, <1>2, <1>3 DEF RealFirst

\* The second half of a member.
LEMMA RealSecondIs ==
    ASSUME NEW l \in Int, NEW g \in Int, NEW m \in Int, NEW h \in Int
    PROVE  RealSecond(l, g, m, h) = Real(l * g - m * h)
<1>1. Real(l) ** Real(g) = Real(l * g) /\ Real(m) ** Real(h) = Real(m * h)
  BY RealArith
<1>2. PICK v \in Int, x \in Int : v = l * g /\ x = m * h
  OBVIOUS
<1>3. Real(v) -- Real(x) = Real(v - x)
  BY RealArith
<1> QED
  BY <1>1, <1>2, <1>3 DEF RealSecond

\* The matrix that maps an error to a change of the numbers of the state: the
\* columns of the attitude are the changes of a small turn.
LEMMA ColumnIs ==
    ASSUME NEW arg, IsArgument(arg), NEW j \in 0 .. 2
    PROVE  /\ dx_derror(arg)[0][j] = ChangesAlong(arg, j).x % Prime
           /\ dx_derror(arg)[1][j] = ChangesAlong(arg, j).y % Prime
           /\ dx_derror(arg)[2][j] = ChangesAlong(arg, j).z % Prime
           /\ dx_derror(arg)[3][j] = ChangesAlong(arg, j).w % Prime
<1> DEFINE s == arg.state
           q == Nominal(arg)["quat_nominal"]
           t == Quaternion([i \in Axes |-> IF i = j THEN Half ELSE Zero], Zero)
           p == QuatTimes(t, q)
<1>1. q = [w |-> Real(s[0]), x |-> Real(s[1]), y |-> Real(s[2]), z |-> Real(s[3])]
  <2>1. q = [w |-> Mod(Pair(s[0], 0)), x |-> Mod(Pair(s[1], 0)),
             y |-> Mod(Pair(s[2], 0)), z |-> Mod(Pair(s[3], 0))]
    BY NominalIs
  <2> HIDE DEF q, s
  <2> QED
    BY <2>1 DEF Number, Real
<1>2. PICK h \in Int : h = HalfInt
  BY HalfIs
<1>3. PICK k0 \in Int, k1 \in Int, k2 \in Int :
         k0 = h * Delta(0, j) /\ k1 = h * Delta(1, j) /\ k2 = h * Delta(2, j)
  BY DEF Delta
<1>4. t = [w |-> Real(0), x |-> Real(k0), y |-> Real(k1), z |-> Real(k2)]
  <2>1. Half = Real(h) /\ Zero = Real(0) /\ h * 1 = h /\ h * 0 = 0
    BY <1>2, HalfIs, ModIsNumber DEF Number, Real
  <2>2. /\ k0 = (IF 0 = j THEN h ELSE 0) /\ k1 = (IF 1 = j THEN h ELSE 0)
        /\ k2 = (IF 2 = j THEN h ELSE 0)
    BY <1>3, <2>1 DEF Delta
  <2>3. /\ t.w = Zero /\ t.x = (IF 0 = j THEN Half ELSE Zero)
        /\ t.y = (IF 1 = j THEN Half ELSE Zero) /\ t.z = (IF 2 = j THEN Half ELSE Zero)
        /\ t = [w |-> t.w, x |-> t.x, y |-> t.y, z |-> t.z]
    BY DEF Quaternion, Axes
  <2> HIDE DEF t
  <2>4. t.x = Real(k0) /\ t.y = Real(k1) /\ t.z = Real(k2) /\ t.w = Real(0)
    BY <2>1, <2>2, <2>3
  <2> QED
    BY <2>3, <2>4
<1>5. /\ dx_derror(arg)[0][j] = Value(p.x) /\ dx_derror(arg)[1][j] = Value(p.y)
      /\ dx_derror(arg)[2][j] = Value(p.z) /\ dx_derror(arg)[3][j] = Value(p.w)
  BY Layout DEF dx_derror
<1>6. ChangesAlong(arg, j) = Changes(s, k0, k1, k2)
  BY <1>2, <1>3 DEF ChangesAlong
<1>7. s[0] \in Int /\ s[1] \in Int /\ s[2] \in Int /\ s[3] \in Int
  BY DEF IsArgument
<1> HIDE DEF s, q, t
<1>8. PICK a \in Int, b \in Int, e \in Int, f \in Int :
         a = s[0] /\ b = s[1] /\ e = s[2] /\ f = s[3]
  BY <1>7
<1>9. /\ t.w = Real(0) /\ t.x = Real(k0) /\ t.y = Real(k1) /\ t.z = Real(k2)
      /\ q.w = Real(a) /\ q.x = Real(b) /\ q.y = Real(e) /\ q.z = Real(f)
  BY <1>1, <1>4, <1>8
<1>10. Value(p.w) = (0 - (k0 * b + k1 * e + k2 * f)) % Prime
  <2>1. p.w = t.w ** q.w -- ((t.x ** q.x ++ t.y ** q.y) ++ t.z ** q.z)
    BY DEF QuatTimes, Inner, Xyz, V3
  <2>2. PICK u \in Int, v \in Int, x \in Int : u = k0 * b /\ v = k1 * e /\ x = k2 * f
    OBVIOUS
  <2>3. Real(0) ** Real(a) = Real(0)
    <3>1. 0 * a = 0
      OBVIOUS
    <3> QED
      BY <3>1, RealArith
  <2>4. /\ t.w ** q.w = Real(0) /\ t.x ** q.x = Real(u) /\ t.y ** q.y = Real(v)
        /\ t.z ** q.z = Real(x)
    <3>1. Real(k0) ** Real(b) = Real(k0 * b)
      BY RealArith
    <3>2. Real(k1) ** Real(e) = Real(k1 * e)
      BY RealArith
    <3>3. Real(k2) ** Real(f) = Real(k2 * f)
      BY RealArith
    <3> QED
      BY <1>9, <2>2, <2>3, <3>1, <3>2, <3>3
  <2>5. PICK y \in Int : y = u + v
    OBVIOUS
  <2>6. PICK z \in Int : z = y + x
    OBVIOUS
  <2>7. Real(u) ++ Real(v) = Real(y)
    BY <2>5, RealArith
  <2>8. Real(y) ++ Real(x) = Real(z)
    BY <2>6, RealArith
  <2>9. PICK r \in Int : r = 0 - z
    OBVIOUS
  <2>10. Real(0) -- Real(z) = Real(r) /\ Value(Real(r)) = r % Prime
    BY <2>9, RealArith
  <2>11. r = 0 - (k0 * b + k1 * e + k2 * f)
    BY <2>2, <2>5, <2>6, <2>9
  <2> QED
    BY <2>1, <2>4, <2>7, <2>8, <2>10, <2>11
<1>11. Value(p.x) = (k0 * a + (k1 * f - k2 * e)) % Prime
  <2>1. p.x = (t.w ** q.x ++ t.x ** q.w) ++ (t.y ** q.z -- t.z ** q.y)
    BY DEF QuatTimes
  <2>2. PICK u \in Int, v \in Int : u = k0 * a /\ v = k1 * f - k2 * e
    OBVIOUS
  <2>3. RealFirst(b, k0, a) = Real(u)
    BY <2>2, RealFirstIs
  <2>4. RealSecond(k1, f, k2, e) = Real(v)
    BY <2>2, RealSecondIs
  <2>5. PICK r \in Int : r = u + v
    OBVIOUS
  <2>6. Real(u) ++ Real(v) = Real(r) /\ Value(Real(r)) = r % Prime
    BY <2>5, RealArith
  <2>7. p.x = Real(r)
    BY <1>9, <2>1, <2>3, <2>4, <2>6 DEF RealFirst, RealSecond
  <2> QED
    BY <2>2, <2>5, <2>6, <2>7
<1>12. Value(p.y) = (k1 * a + (k2 * b - k0 * f)) % Prime
  <2>1. p.y = (t.w ** q.y ++ t.y ** q.w) ++ (t.z ** q.x -- t.x ** q.z)
    BY DEF QuatTimes
  <2>2. PICK u \in Int, v \in Int : u = k1 * a /\ v = k2 * b - k0 * f
    OBVIOUS
  <2>3. RealFirst(e, k1, a) = Real(u)
    BY <2>2, RealFirstIs
  <2>4. RealSecond(k2, b, k0, f) = Real(v)
    BY <2>2, RealSecondIs
  <2>5. PICK r \in Int : r = u + v
    OBVIOUS
  <2>6. Real(u) ++ Real(v) = Real(r) /\ Value(Real(r)) = r % Prime
    BY <2>5, RealArith
  <2>7. p.y = Real(r)
    BY <1>9, <2>1, <2>3, <2>4, <2>6 DEF RealFirst, RealSecond
  <2> QED
    BY <2>2, <2>5, <2>6, <2>7
<1>13. Value(p.z) = (k2 * a + (k0 * e - k1 * b)) % Prime
  <2>1. p.z = (t.w ** q.z ++ t.z ** q.w) ++ (t.x ** q.y -- t.y ** q.x)
    BY DEF QuatTimes
  <2>2. PICK u \in Int, v \in Int : u = k2 * a /\ v = k0 * e - k1 * b
    OBVIOUS
  <2>3. RealFirst(f, k2, a) = Real(u)
    BY <2>2, RealFirstIs
  <2>4. RealSecond(k0, e, k1, b) = Real(v)
    BY <2>2, RealSecondIs
  <2>5. PICK r \in Int : r = u + v
    OBVIOUS
  <2>6. Real(u) ++ Real(v) = Real(r) /\ Value(Real(r)) = r % Prime
    BY <2>5, RealArith
  <2>7. p.z = Real(r)
    BY <1>9, <2>1, <2>3, <2>4, <2>6 DEF RealFirst, RealSecond
  <2> QED
    BY <2>2, <2>5, <2>6, <2>7
<1>14. /\ ChangesAlong(arg, j).w = 0 - (k0 * b + k1 * e + k2 * f)
       /\ ChangesAlong(arg, j).x = k0 * a + (k1 * f - k2 * e)
       /\ ChangesAlong(arg, j).y = k1 * a + (k2 * b - k0 * f)
       /\ ChangesAlong(arg, j).z = k2 * a + (k0 * e - k1 * b)
  BY <1>6, <1>8 DEF Changes
<1> HIDE DEF p
<1> QED
  BY <1>5, <1>10, <1>11, <1>12, <1>13, <1>14

\* Its other entries.
LEMMA DxIs ==
    ASSUME NEW arg, NEW j \in 0 .. 14
    PROVE  /\ \A k \in 4 .. 15 : dx_derror(arg)[k][j] = IF j >= 3 /\ k = j + 1 THEN 1 ELSE 0
           /\ j >= 3 => \A k \in 0 .. 3 : dx_derror(arg)[k][j] = 0
<1>1. ASSUME NEW k \in 4 .. 15
      PROVE  dx_derror(arg)[k][j] = IF j >= 3 /\ k = j + 1 THEN 1 ELSE 0
  <2>1. k \in 0 .. 15 /\ ~(k < 4)
    OBVIOUS
  <2> QED
    BY <2>1, Layout DEF dx_derror
<1>2. ASSUME j >= 3, NEW k \in 0 .. 3 PROVE dx_derror(arg)[k][j] = 0
  <2>1. k \in 0 .. 15 /\ k < 4 /\ ~(j < 3)
    BY <1>2
  <2> QED
    BY <2>1, Layout DEF dx_derror
<1> QED
  BY <1>1, <1>2

\* Every entry is a number.
LEMMA DxInt ==
    ASSUME NEW arg, IsArgument(arg), NEW j \in 0 .. 14, NEW k \in 0 .. 15
    PROVE  dx_derror(arg)[k][j] \in Int
<1>1. CASE k \in 4 .. 15
  <2>1. dx_derror(arg)[k][j] = IF j >= 3 /\ k = j + 1 THEN 1 ELSE 0
    BY <1>1, DxIs
  <2> QED
    BY <2>1
<1>2. CASE j >= 3 /\ k \in 0 .. 3
  BY <1>2, DxIs
<1>3. CASE j \in 0 .. 2 /\ k \in 0 .. 3
  <2>1. PICK a \in Int, b \in Int, c \in Int, d \in Int :
           /\ a = ChangesAlong(arg, j).x /\ b = ChangesAlong(arg, j).y
           /\ c = ChangesAlong(arg, j).z /\ d = ChangesAlong(arg, j).w
    BY ChangesInt
  <2>2. /\ dx_derror(arg)[0][j] = a % Prime /\ dx_derror(arg)[1][j] = b % Prime
        /\ dx_derror(arg)[2][j] = c % Prime /\ dx_derror(arg)[3][j] = d % Prime
    BY <1>3, <2>1, ColumnIs
  <2>3. k = 0 \/ k = 1 \/ k = 2 \/ k = 3
    BY <1>3
  <2> QED
    BY <2>2, <2>3, ModIs
<1> QED
  BY <1>1, <1>2, <1>3

(***************************************************************************)
(* The chain rule: the product                                             *)
(***************************************************************************)
\* Four reduced products.
LEMMA FourProducts ==
    ASSUME NEW u \in [0 .. 3 -> Int], NEW v \in [0 .. 3 -> Int]
    PROVE  ((u[0] % Prime) * (v[0] % Prime) + (u[1] % Prime) * (v[1] % Prime)
              + (u[2] % Prime) * (v[2] % Prime) + (u[3] % Prime) * (v[3] % Prime)) % Prime
             = (u[0] * v[0] + u[1] * v[1] + u[2] * v[2] + u[3] * v[3]) % Prime
<1>1. PICK a \in Int, b \in Int, c \in Int, d \in Int :
         a = u[0] /\ b = u[1] /\ c = u[2] /\ d = u[3]
  <2>1. u[0] \in Int /\ u[1] \in Int /\ u[2] \in Int /\ u[3] \in Int
    OBVIOUS
  <2> QED
    BY <2>1
<1>2. PICK x \in Int, y \in Int, z \in Int, w \in Int :
         x = v[0] /\ y = v[1] /\ z = v[2] /\ w = v[3]
  <2>1. v[0] \in Int /\ v[1] \in Int /\ v[2] \in Int /\ v[3] \in Int
    OBVIOUS
  <2> QED
    BY <2>1
<1> DEFINE l == (a % Prime) * (x % Prime) + (b % Prime) * (y % Prime)
           m == (c % Prime) * (z % Prime) + (d % Prime) * (w % Prime)
           n == a * x + b * y
           o == c * z + d * w
<1>3. l % Prime = n % Prime
  BY ModProducts
<1>4. m % Prime = o % Prime
  BY ModProducts
<1>5. /\ a % Prime \in Int /\ b % Prime \in Int /\ c % Prime \in Int /\ d % Prime \in Int
      /\ x % Prime \in Int /\ y % Prime \in Int /\ z % Prime \in Int /\ w % Prime \in Int
  BY ModIs
<1>6. l \in Int /\ m \in Int /\ n \in Int /\ o \in Int
  BY <1>5
<1>7. /\ (a % Prime) * (x % Prime) + (b % Prime) * (y % Prime)
           + (c % Prime) * (z % Prime) + (d % Prime) * (w % Prime) = l + m
      /\ a * x + b * y + c * z + d * w = n + o
  BY <1>5
<1> HIDE DEF l, m, n, o
<1>8. (l + m) % Prime = ((l % Prime) + (m % Prime)) % Prime
  BY <1>6, ModBoth
<1>9. (n + o) % Prime = ((n % Prime) + (o % Prime)) % Prime
  BY <1>6, ModBoth
<1>10. (l + m) % Prime = (n + o) % Prime
  BY <1>3, <1>4, <1>8, <1>9
<1> QED
  BY <1>1, <1>2, <1>7, <1>10

\* What is summed in the chain rule.
LEMMA ChainIs ==
    ASSUME NEW arg, NEW j \in 0 .. 14, NEW sensor, NEW c
    PROVE  jacobian_chain_rule(sensor, arg, c)[j]
             = SumOverStorage([k \in 0 .. 15 |-> dh_dx(sensor, arg, c)[k] * dx_derror(arg)[k][j]])
  BY Layout DEF jacobian_chain_rule

\* The chain rule where the measurement is e times a number a of the state.
IsSingle(arg, sensor, c, a, e) ==
    /\ a \in 4 .. 15 /\ e \in Int
    /\ \A k \in 0 .. 15 : dh_dx(sensor, arg, c)[k] = (e * Delta(a, k)) % Prime

\* It is then e times the error that moves that number, one index before it.
LEMMA ChainSingle ==
    ASSUME NEW arg, IsArgument(arg), NEW j \in 0 .. 14, NEW sensor, NEW c, NEW a, NEW e,
           IsSingle(arg, sensor, c, a, e)
    PROVE  jacobian_chain_rule(sensor, arg, c)[j] = (e * Delta(a - 1, j)) % Prime
<1>1. /\ a \in 4 .. 15 /\ e \in Int
      /\ \A k \in 0 .. 15 : dh_dx(sensor, arg, c)[k] = (e * Delta(a, k)) % Prime
  BY DEF IsSingle
<1> DEFINE f == [k \in 0 .. 15 |-> dh_dx(sensor, arg, c)[k] * dx_derror(arg)[k][j]]
<1>2. PICK r \in Int : r = e % Prime
  BY <1>1, ModIs
<1>3. \A k \in 0 .. 15 : dh_dx(sensor, arg, c)[k] = IF k = a THEN r ELSE 0
  <2>1. e * 1 = e /\ e * 0 = 0
    BY <1>1
  <2> QED
    BY <1>1, <1>2, <2>1, ModSmall DEF Delta
<1>4. \A k \in 0 .. 15 : dx_derror(arg)[k][j] \in Int
  BY DxInt
<1>5. f \in [0 .. 15 -> Int] /\ \A k \in 0 .. 15 : k # a => f[k] = 0
  <2>1. ASSUME NEW k \in 0 .. 15 PROVE f[k] \in Int /\ (k # a => f[k] = 0)
    <3>1. PICK n \in Int, o \in Int : n = dh_dx(sensor, arg, c)[k] /\ o = dx_derror(arg)[k][j]
      BY <1>3, <1>4
    <3>2. f[k] = n * o /\ (k # a => n = 0)
      BY <1>3, <3>1
    <3> QED
      BY <3>2
  <2> QED
    BY <2>1
<1>6. f[a] = r * Delta(a - 1, j)
  <2>1. dx_derror(arg)[a][j] = IF j >= 3 /\ a = j + 1 THEN 1 ELSE 0
    BY <1>1, DxIs
  <2>2. dx_derror(arg)[a][j] = Delta(a - 1, j)
    BY <1>1, <2>1 DEF Delta
  <2> QED
    BY <1>1, <1>3, <2>2
<1>7. SumOverStorage(f) = f[a] % Prime
  <2> HIDE DEF f
  <2> QED
    BY <1>1, <1>5, SumSingle
<1>8. (r * Delta(a - 1, j)) % Prime = (e * Delta(a - 1, j)) % Prime
  <2>1. PICK d \in Int : d = Delta(a - 1, j)
    BY DEF Delta
  <2> QED
    BY <1>1, <1>2, <2>1, ModArith
<1> QED
  BY <1>6, <1>7, <1>8, ChainIs

\* The chain rule of the magnetometer.
LEMMA ChainMag ==
    ASSUME NEW arg, IsArgument(arg), NEW j \in 0 .. 14, NEW c \in 0 .. 2
    PROVE  jacobian_chain_rule("mag", arg, c)[j]
             = Derivative(MeasPred("mag", arg, TrueAlong(arg, j))[c])
<1> DEFINE s == arg.state
           m == arg.mag_ref
           D == FieldDerivative(s, m, c)
           d == ChangesAlong(arg, j)
           dh == dh_dx("mag", arg, c)
           f == [k \in 0 .. 15 |-> dh[k] * dx_derror(arg)[k][j]]
<1>1. IsField(s, m)
  BY DEF IsField, IsArgument
<1>2. PICK w \in Int, x \in Int, y \in Int, z \in Int : w = D.w /\ x = D.x /\ y = D.y /\ z = D.z
  BY <1>1, FieldDerivativeInt
<1>3. PICK dw \in Int, dx \in Int, dy \in Int, dz \in Int :
         dw = d.w /\ dx = d.x /\ dy = d.y /\ dz = d.z
  BY ChangesInt
<1>4. \A k \in 0 .. 15 : dh[k] = (Delta(3, k) * w + Delta(0, k) * x + Delta(1, k) * y + Delta(2, k) * z) % Prime
  BY <1>2, MagStored
<1>5. \A k \in 0 .. 15 : dx_derror(arg)[k][j] \in Int
  BY DxInt
<1>6. jacobian_chain_rule("mag", arg, c)[j] = SumOverStorage(f)
  <2>1. jacobian_chain_rule("mag", arg, c)[j]
          = SumOverStorage([k \in 0 .. 15 |-> dh_dx("mag", arg, c)[k] * dx_derror(arg)[k][j]])
    BY Layout DEF jacobian_chain_rule
  <2> QED
    BY <2>1
<1>7. Derivative(MeasPred("mag", arg, TrueAlong(arg, j))[c])
         = (dw * w + dx * x + dy * y + dz * z) % Prime
  BY <1>2, <1>3, MagByChanges
<1> HIDE DEF s, m, D, d, dh
<1>8. /\ dh[0] = x % Prime /\ dh[1] = y % Prime /\ dh[2] = z % Prime /\ dh[3] = w % Prime
  <2>1. dh[0] = (0 * w + 1 * x + 0 * y + 0 * z) % Prime
    BY <1>4 DEF Delta
  <2>2. dh[1] = (0 * w + 0 * x + 1 * y + 0 * z) % Prime
    BY <1>4 DEF Delta
  <2>3. dh[2] = (0 * w + 0 * x + 0 * y + 1 * z) % Prime
    BY <1>4 DEF Delta
  <2>4. dh[3] = (1 * w + 0 * x + 0 * y + 0 * z) % Prime
    BY <1>4 DEF Delta
  <2> QED
    BY <2>1, <2>2, <2>3, <2>4
<1>9. \A k \in 4 .. 15 : dh[k] = 0
  <2> SUFFICES ASSUME NEW k \in 4 .. 15 PROVE dh[k] = 0
    OBVIOUS
  <2>1. dh[k] = (0 * w + 0 * x + 0 * y + 0 * z) % Prime
    <3>1. k \in 0 .. 15 /\ Delta(0, k) = 0 /\ Delta(1, k) = 0 /\ Delta(2, k) = 0 /\ Delta(3, k) = 0
      BY DEF Delta
    <3> QED
      BY <1>4, <3>1
  <2> QED
    BY <2>1, ModSmall
<1>10. /\ \A k \in 0 .. 15 : f[k] \in Int
       /\ \A k \in 4 .. 15 : f[k] = 0
  <2>1. x % Prime \in Int /\ y % Prime \in Int /\ z % Prime \in Int /\ w % Prime \in Int
    BY ModIs
  <2>2. ASSUME NEW k \in 0 .. 15 PROVE dh[k] \in Int
    <3>1. k = 0 \/ k = 1 \/ k = 2 \/ k = 3 \/ k \in 4 .. 15
      OBVIOUS
    <3> QED
      BY <1>8, <1>9, <2>1, <3>1
  <2>3. ASSUME NEW k \in 0 .. 15 PROVE f[k] \in Int /\ (k \in 4 .. 15 => f[k] = 0)
    <3>1. PICK n \in Int, o \in Int : n = dh[k] /\ o = dx_derror(arg)[k][j]
      BY <1>5, <2>2
    <3>2. f[k] = n * o /\ (k \in 4 .. 15 => n = 0)
      BY <1>9, <3>1
    <3> QED
      BY <3>2
  <2>4. \A k \in 4 .. 15 : k \in 0 .. 15
    OBVIOUS
  <2> HIDE DEF f
  <2> QED
    BY <2>3, <2>4
<1>11. f \in [0 .. 15 -> Int]
  BY <1>10
<1>12. SumOverStorage(f) = (f[0] + f[1] + f[2] + f[3]) % Prime
  <2> HIDE DEF f
  <2> QED
    BY <1>10, <1>11, SumFew
<1>13. CASE j < 3
  <2>1. /\ dx_derror(arg)[0][j] = dx % Prime /\ dx_derror(arg)[1][j] = dy % Prime
        /\ dx_derror(arg)[2][j] = dz % Prime /\ dx_derror(arg)[3][j] = dw % Prime
    BY <1>3, <1>13, ColumnIs DEF d
  <2>2. /\ f[0] = (x % Prime) * (dx % Prime) /\ f[1] = (y % Prime) * (dy % Prime)
        /\ f[2] = (z % Prime) * (dz % Prime) /\ f[3] = (w % Prime) * (dw % Prime)
    BY <1>8, <2>1
  <2>3. PICK u \in [0 .. 3 -> Int], v \in [0 .. 3 -> Int] :
           /\ u[0] = x /\ u[1] = y /\ u[2] = z /\ u[3] = w
           /\ v[0] = dx /\ v[1] = dy /\ v[2] = dz /\ v[3] = dw
    <3> DEFINE u0 == [i \in 0 .. 3 |-> CASE i = 0 -> x [] i = 1 -> y [] i = 2 -> z [] OTHER -> w]
               v0 == [i \in 0 .. 3 |-> CASE i = 0 -> dx [] i = 1 -> dy [] i = 2 -> dz [] OTHER -> dw]
    <3>1. u0 \in [0 .. 3 -> Int] /\ v0 \in [0 .. 3 -> Int]
      OBVIOUS
    <3>2. /\ u0[0] = x /\ u0[1] = y /\ u0[2] = z /\ u0[3] = w
          /\ v0[0] = dx /\ v0[1] = dy /\ v0[2] = dz /\ v0[3] = dw
      OBVIOUS
    <3> HIDE DEF u0, v0
    <3> QED
      BY <3>1, <3>2
  <2>4. ((u[0] % Prime) * (v[0] % Prime) + (u[1] % Prime) * (v[1] % Prime)
           + (u[2] % Prime) * (v[2] % Prime) + (u[3] % Prime) * (v[3] % Prime)) % Prime
          = (u[0] * v[0] + u[1] * v[1] + u[2] * v[2] + u[3] * v[3]) % Prime
    BY FourProducts
  <2>5. x * dx + y * dy + z * dz + w * dw = dw * w + dx * x + dy * y + dz * z
    OBVIOUS
  <2>6. SumOverStorage(f) = (dw * w + dx * x + dy * y + dz * z) % Prime
    <3> HIDE DEF f
    <3> QED
      BY <1>12, <2>2, <2>3, <2>4, <2>5
  <2> QED
    BY <1>6, <1>7, <2>6
<1>14. CASE j >= 3
  <2>1. ASSUME NEW k \in 0 .. 3 PROVE f[k] = 0
    <3>1. k \in 0 .. 15 /\ dx_derror(arg)[k][j] = 0
      BY <1>14, DxIs
    <3>2. PICK n \in Int : n = dh[k]
      BY <1>8, ModIs
    <3>3. f[k] = n * 0 /\ n * 0 = 0
      BY <3>1, <3>2
    <3> QED
      BY <3>3
  <2>2. SumOverStorage(f) = 0
    <3> HIDE DEF f
    <3>1. f[0] = 0 /\ f[1] = 0 /\ f[2] = 0 /\ f[3] = 0 /\ 0 + 0 + 0 + 0 = 0
      BY <2>1
    <3> QED
      BY <1>12, <3>1, ModSmall
  <2>3. Derivative(MeasPred("mag", arg, TrueAlong(arg, j))[c]) = 0
    BY <1>14, MagAlong
  <2> QED
    BY <1>6, <2>2, <2>3
<1> QED
  BY <1>13, <1>14

\* The chain rule yields the H of the generated function.
LEMMA ChainIsGenerated ==
    ASSUME NEW arg, IsArgument(arg), NEW sensor \in Sensors, NEW c \in Components(sensor),
           NEW j \in Tangent
    PROVE  jacobian_chain_rule(sensor, arg, c)[j] = generated_innov_var_and_h(sensor, arg).H[c][j]
<1>1. j \in 0 .. 14 /\ c \in 0 .. 2
  BY Layout DEF Components, Axes
<1>2. generated_innov_var_and_h(sensor, arg).H[c][j]
         = Derivative(MeasPred(sensor, arg, TrueAlong(arg, j))[c])
  BY HIsDerivative
<1>3. \A i, k : Delta(i, k) \in Int
  BY DEF Delta
<1>4. CASE sensor = "gps_pos"
  <2>1. PICK a \in 4 .. 15 : a = 7 + c
    BY <1>1
  <2>2. \A k \in 0 .. 15 : dh_dx(sensor, arg, c)[k] = (1 * Delta(a, k)) % Prime
    BY <1>1, <1>3, <1>4, <2>1, LinearStored
  <2>3. jacobian_chain_rule(sensor, arg, c)[j] = (1 * Delta(a - 1, j)) % Prime
    <3>1. IsSingle(arg, sensor, c, a, 1)
      BY <2>2 DEF IsSingle
    <3> QED
      BY <1>1, <3>1, ChainSingle
  <2>4. a - 1 = 6 + c /\ 1 * Delta(a - 1, j) = Delta(6 + c, j)
    BY <1>1, <1>3, <2>1
  <2>5. generated_innov_var_and_h("gps_pos", arg).H[c][j] = Delta(6 + c, j) % Prime
    BY <1>1, GeneratedH
  <2> QED
    BY <1>4, <2>3, <2>4, <2>5
<1>5. CASE sensor = "gps_vel"
  <2>1. PICK a \in 4 .. 15 : a = 4 + c
    BY <1>1
  <2>2. \A k \in 0 .. 15 : dh_dx(sensor, arg, c)[k] = (1 * Delta(a, k)) % Prime
    BY <1>1, <1>3, <1>5, <2>1, LinearStored
  <2>3. jacobian_chain_rule(sensor, arg, c)[j] = (1 * Delta(a - 1, j)) % Prime
    <3>1. IsSingle(arg, sensor, c, a, 1)
      BY <2>2 DEF IsSingle
    <3> QED
      BY <1>1, <3>1, ChainSingle
  <2>4. a - 1 = 3 + c /\ 1 * Delta(a - 1, j) = Delta(3 + c, j)
    BY <1>1, <1>3, <2>1
  <2>5. generated_innov_var_and_h("gps_vel", arg).H[c][j] = Delta(3 + c, j) % Prime
    BY <1>1, GeneratedH
  <2> QED
    BY <1>5, <2>3, <2>4, <2>5
<1>6. CASE sensor = "mag"
  BY <1>1, <1>2, <1>6, ChainMag
<1>7. CASE sensor \in {"baro", "lidar"}
  <2>1. c = 0
    BY <1>7 DEF Components
  <2>2. \A k \in 0 .. 15 : dh_dx(sensor, arg, 0)[k] = (0 - Delta(9, k)) % Prime
    BY <1>7, LinearStored
  <2>3. \A k \in 0 .. 15 : 0 - Delta(9, k) = (-1) * Delta(9, k)
    BY <1>3
  <2>4. PICK e \in Int : e = -1
    OBVIOUS
  <2>5. \A k \in 0 .. 15 : dh_dx(sensor, arg, 0)[k] = (e * Delta(9, k)) % Prime
    BY <2>2, <2>3, <2>4
  <2>6. 9 \in 4 .. 15 /\ 9 - 1 = 8
    OBVIOUS
  <2>7. jacobian_chain_rule(sensor, arg, 0)[j] = (e * Delta(8, j)) % Prime
    <3>1. IsSingle(arg, sensor, 0, 9, e)
      BY <2>5, <2>6 DEF IsSingle
    <3>2. jacobian_chain_rule(sensor, arg, 0)[j] = (e * Delta(9 - 1, j)) % Prime
      BY <1>1, <3>1, ChainSingle
    <3> QED
      BY <2>6, <3>2
  <2>8. e * Delta(8, j) = 0 - Delta(8, j)
    BY <1>3, <2>4
  <2>9. generated_innov_var_and_h(sensor, arg).H[0][j] = (0 - Delta(8, j)) % Prime
    BY <1>1, <1>7, GeneratedH
  <2> QED
    BY <2>1, <2>7, <2>8, <2>9
<1> QED
  BY <1>4, <1>5, <1>6, <1>7 DEF Sensors

(***************************************************************************)
(* The innovation                                                          *)
(***************************************************************************)
\* An entry of the rotation matrix, before it is reduced.
UnitEntry(s, r, k) ==
    IF r = k THEN 1 - 2 * ((s[0] * s[0] + s[1] * s[1] + s[2] * s[2] + s[3] * s[3])
                             - s[0] * s[0] - s[r + 1] * s[r + 1])
             ELSE 2 * s[r + 1] * s[k + 1]
                    + (IF <<r, k>> \in {<<0, 1>>, <<1, 2>>, <<2, 0>>}
                         THEN -(2 * s[0] * s[4 - r - k]) ELSE 2 * s[0] * s[4 - r - k])

\* It is an integer, and UnitRotation reduces it.
LEMMA UnitEntryIs ==
    ASSUME NEW s, NEW m, IsField(s, m), NEW r \in 0 .. 2, NEW k \in 0 .. 2
    PROVE  UnitEntry(s, r, k) \in Int /\ UnitRotation(s, r, k) = UnitEntry(s, r, k) % Prime
<1>1. CASE r = k
  <2>1. PICK a \in Int, b \in Int, e \in Int, f \in Int :
           a = s[0] /\ b = s[1] /\ e = s[2] /\ f = s[3]
    BY DEF IsField
  <2>2. PICK g \in Int : g = s[r + 1]
    <3>1. r = 0 \/ r = 1 \/ r = 2
      OBVIOUS
    <3> QED
      BY <2>1, <3>1
  <2>3. PICK n \in Int, t \in Int : n = a * a + b * b + e * e + f * f /\ t = n % Prime
    BY ModIs
  <2>4. PICK x \in Int, y \in Int : x = a * a /\ y = g * g
    OBVIOUS
  <2>5. UnitRotation(s, r, k) = (1 - 2 * (t - x - y)) % Prime
    BY <1>1, <2>1, <2>2, <2>3, <2>4 DEF UnitRotation, Norm
  <2>6. UnitEntry(s, r, k) = 1 - 2 * (n - x - y)
    BY <1>1, <2>1, <2>2, <2>3, <2>4 DEF UnitEntry
  <2>7. PICK q \in Int : n = Prime * q + t
    BY <2>3, ModIs
  <2>8. PICK P \in Int : P = Prime
    BY PrimeAssumption
  <2>9. /\ 1 - 2 * (t - x - y) = P * (2 * q) + (1 - 2 * (n - x - y))
        /\ 1 - 2 * (t - x - y) \in Int /\ 1 - 2 * (n - x - y) \in Int /\ 2 * q \in Int
    BY <2>7, <2>8
  <2>10. PICK v \in Int, w \in Int : v = 1 - 2 * (t - x - y) /\ w = 1 - 2 * (n - x - y)
    BY <2>9
  <2>11. v = Prime * (2 * q) + w
    BY <2>8, <2>9, <2>10
  <2>12. v % Prime = w % Prime
    BY <2>9, <2>11, ModSame DEF Congruent
  <2> QED
    BY <2>5, <2>6, <2>10, <2>12
<1>2. CASE r # k
  <2>1. /\ r + 1 \in 1 .. 3 /\ k + 1 \in 1 .. 3 /\ 4 - r - k \in 1 .. 3
        /\ \A i \in 1 .. 3 : i = 1 \/ i = 2 \/ i = 3
    BY <1>2
  <2>2. \A i \in 1 .. 3 : s[i] \in Int
    BY <2>1 DEF IsField
  <2>3. PICK a \in Int, b \in Int, e \in Int, f \in Int :
           a = s[0] /\ b = s[r + 1] /\ e = s[k + 1] /\ f = s[4 - r - k]
    BY <2>1, <2>2 DEF IsField
  <2>4. UnitRotation(s, r, k) = UnitEntry(s, r, k) % Prime
    BY <1>2 DEF UnitRotation, UnitEntry, Mixed
  <2>5. UnitEntry(s, r, k)
          = 2 * b * e + (IF <<r, k>> \in {<<0, 1>>, <<1, 2>>, <<2, 0>>} THEN -(2 * a * f) ELSE 2 * a * f)
    BY <1>2, <2>3 DEF UnitEntry
  <2>6. UnitEntry(s, r, k) \in Int
    BY <2>5
  <2> QED
    BY <2>4, <2>6
<1> QED
  BY <1>1, <1>2

\* The sum of a column of these entries is the field's value.
LEMMA ColumnSum ==
    ASSUME NEW s, NEW m, IsField(s, m), NEW c \in 0 .. 2
    PROVE  UnitEntry(s, 0, c) * m[0] + UnitEntry(s, 1, c) * m[1] + UnitEntry(s, 2, c) * m[2]
             = FieldValue(s, m, c)
<1>1. PICK a \in Int, b \in Int, e \in Int, f \in Int, m0 \in Int, m1 \in Int, m2 \in Int :
         /\ a = s[0] /\ b = s[1] /\ e = s[2] /\ f = s[3]
         /\ m0 = m[0] /\ m1 = m[1] /\ m2 = m[2]
  BY DEF IsField
<1>2. CASE c = 0
  <2>1. UnitEntry(s, 0, 0) = 1 - 2 * (e * e + f * f)
    BY <1>1 DEF UnitEntry
  <2>2. UnitEntry(s, 1, 0) = 2 * e * b + 2 * a * f
    BY <1>1 DEF UnitEntry
  <2>3. UnitEntry(s, 2, 0) = 2 * f * b + -(2 * a * e)
    BY <1>1 DEF UnitEntry
  <2>4. FieldValue(s, m, 0) = (1 - 2 * (e * e + f * f)) * m0 + 2 * (b * e + f * a) * m1
                                + 2 * (b * f - e * a) * m2
    BY <1>1 DEF FieldValue
  <2>5. (1 - 2 * (e * e + f * f)) * m0 + (2 * e * b + 2 * a * f) * m1 + (2 * f * b + -(2 * a * e)) * m2
          = (1 - 2 * (e * e + f * f)) * m0 + 2 * (b * e + f * a) * m1 + 2 * (b * f - e * a) * m2
    OBVIOUS
  <2> QED
    BY <1>1, <1>2, <2>1, <2>2, <2>3, <2>4, <2>5
<1>3. CASE c = 1
  <2>1. UnitEntry(s, 0, 1) = 2 * b * e + -(2 * a * f)
    BY <1>1 DEF UnitEntry
  <2>2. UnitEntry(s, 1, 1) = 1 - 2 * (b * b + f * f)
    <3>1. UnitEntry(s, 1, 1) = 1 - 2 * ((a * a + b * b + e * e + f * f) - a * a - e * e)
      BY <1>1 DEF UnitEntry
    <3>2. PICK t \in Int, u \in Int, v \in Int, w \in Int :
             t = a * a /\ u = b * b /\ v = e * e /\ w = f * f
      OBVIOUS
    <3>3. 1 - 2 * ((t + u + v + w) - t - v) = 1 - 2 * (u + w)
      OBVIOUS
    <3> QED
      BY <3>1, <3>2, <3>3
  <2>3. UnitEntry(s, 2, 1) = 2 * f * e + 2 * a * b
    BY <1>1 DEF UnitEntry
  <2>4. FieldValue(s, m, 1) = 2 * (b * e - f * a) * m0 + (1 - 2 * (b * b + f * f)) * m1
                                + 2 * (e * f + b * a) * m2
    BY <1>1 DEF FieldValue
  <2>5. (2 * b * e + -(2 * a * f)) * m0 + (1 - 2 * (b * b + f * f)) * m1 + (2 * f * e + 2 * a * b) * m2
          = 2 * (b * e - f * a) * m0 + (1 - 2 * (b * b + f * f)) * m1 + 2 * (e * f + b * a) * m2
    OBVIOUS
  <2> QED
    BY <1>1, <1>3, <2>1, <2>2, <2>3, <2>4, <2>5
<1>4. CASE c = 2
  <2>1. UnitEntry(s, 0, 2) = 2 * b * f + 2 * a * e
    BY <1>1 DEF UnitEntry
  <2>2. UnitEntry(s, 1, 2) = 2 * e * f + -(2 * a * b)
    BY <1>1 DEF UnitEntry
  <2>3. UnitEntry(s, 2, 2) = 1 - 2 * (b * b + e * e)
    <3>1. UnitEntry(s, 2, 2) = 1 - 2 * ((a * a + b * b + e * e + f * f) - a * a - f * f)
      BY <1>1 DEF UnitEntry
    <3>2. PICK t \in Int, u \in Int, v \in Int, w \in Int :
             t = a * a /\ u = b * b /\ v = e * e /\ w = f * f
      OBVIOUS
    <3>3. 1 - 2 * ((t + u + v + w) - t - w) = 1 - 2 * (u + v)
      OBVIOUS
    <3> QED
      BY <3>1, <3>2, <3>3
  <2>4. FieldValue(s, m, 2) = 2 * (b * f + e * a) * m0 + 2 * (e * f - b * a) * m1
                                + (1 - 2 * (b * b + e * e)) * m2
    BY <1>1 DEF FieldValue
  <2>5. (2 * b * f + 2 * a * e) * m0 + (2 * e * f + -(2 * a * b)) * m1 + (1 - 2 * (b * b + e * e)) * m2
          = 2 * (b * f + e * a) * m0 + 2 * (e * f - b * a) * m1 + (1 - 2 * (b * b + e * e)) * m2
    OBVIOUS
  <2> QED
    BY <1>1, <1>4, <2>1, <2>2, <2>3, <2>4, <2>5
<1> QED
  BY <1>2, <1>3, <1>4

\* What the generated function sums.
LEMMA RotationSum ==
    ASSUME NEW s, NEW m, IsField(s, m), NEW c \in 0 .. 2
    PROVE  SumOfThree([k \in Axes |-> (UnitRotation(s, k, c) * m[k]) % Prime])
             = FieldValue(s, m, c) % Prime
<1> DEFINE g == [k \in 0 .. 2 |-> UnitEntry(s, k, c) * m[k]]
<1>1. ASSUME NEW k \in 0 .. 2
      PROVE  g[k] \in Int /\ (UnitRotation(s, k, c) * m[k]) % Prime = g[k] % Prime
  <2>1. PICK u \in Int, v \in Int : u = UnitEntry(s, k, c) /\ v = m[k]
    <3>1. m[k] \in Int
      <4>1. k = 0 \/ k = 1 \/ k = 2
        OBVIOUS
      <4> QED
        BY <4>1 DEF IsField
    <3> QED
      BY <3>1, UnitEntryIs
  <2>2. UnitRotation(s, k, c) = u % Prime
    BY <2>1, UnitEntryIs
  <2>3. ((u % Prime) * v) % Prime = (u * v) % Prime
    BY ModArith
  <2>4. g[k] = u * v
    BY <2>1
  <2> QED
    BY <2>1, <2>2, <2>3, <2>4
<1>2. g[0] + g[1] + g[2] = FieldValue(s, m, c)
  <2>1. g[0] = UnitEntry(s, 0, c) * m[0] /\ g[1] = UnitEntry(s, 1, c) * m[1]
        /\ g[2] = UnitEntry(s, 2, c) * m[2]
    OBVIOUS
  <2> HIDE DEF g
  <2> QED
    BY <2>1, ColumnSum
<1>3. g \in [0 .. 2 -> Int]
  BY <1>1
<1> HIDE DEF g
<1>4. [k \in Axes |-> (UnitRotation(s, k, c) * m[k]) % Prime] = [k \in Axes |-> g[k] % Prime]
  BY <1>1 DEF Axes
<1> QED
  BY <1>2, <1>3, <1>4, SumOfThreeIs

\* The innovation of every generated function is that of the measurement model.
LEMMA InnovIs ==
    ASSUME NEW arg, IsArgument(arg), NEW sensor \in Sensors, NEW c \in Components(sensor)
    PROVE  generated_innov_var_and_h(sensor, arg).innov[c]
             = (Value(MeasPred(sensor, arg, Nominal(arg))[c]) - arg.meas[c]) % Prime
<1> DEFINE s == arg.state
           m == arg.mag_ref
           N == Nominal(arg)
<1>1. /\ \A i \in 0 .. 15 : s[i] \in Int
      /\ m \in [0 .. 2 -> Int] /\ IsField(s, m)
  BY DEF IsArgument, IsField
<1>2. c \in 0 .. 2
  BY DEF Components, Axes
<1>3. PICK z \in Int : z = arg.meas[c]
  BY <1>2 DEF IsArgument
<1>4. \A i \in 0 .. 2 : N["vel"][i] = Number(s[4 + i], 0)
  <2>1. N["vel"] = [i \in 0 .. 2 |-> Mod(Pair(s[4 + i], 0))]
    BY NominalIs
  <2> HIDE DEF N, s
  <2> QED
    BY <2>1 DEF Number
<1>5. \A i \in 0 .. 2 : N["pos"][i] = Number(s[7 + i], 0)
  <2>1. N["pos"] = [i \in 0 .. 2 |-> Mod(Pair(s[7 + i], 0))]
    BY NominalIs
  <2> HIDE DEF N, s
  <2> QED
    BY <2>1 DEF Number
<1>6. CASE sensor = "gps_pos"
  <2>1. MeasPred(sensor, arg, N)[c] = N["pos"][c]
    BY <1>6 DEF MeasPred
  <2>2. generated_innov_var_and_h(sensor, arg).innov[c] = (s[7 + c] - arg.meas[c]) % Prime
    BY <1>2, <1>6 DEF generated_innov_var_and_h, generated_gps_pos, Axes
  <2> HIDE DEF s, N
  <2>3. PICK a \in Int : a = s[7 + c]
    BY <1>1, <1>2
  <2>4. Value(Number(a, 0)) = a % Prime /\ ((a % Prime) - z) % Prime = (a - z) % Prime
    BY ChangeArith, ModArith
  <2>5. (Value(MeasPred(sensor, arg, N)[c]) - arg.meas[c]) % Prime = (a - z) % Prime
    BY <1>2, <1>3, <1>5, <2>1, <2>3, <2>4
  <2> QED
    BY <1>3, <2>2, <2>3, <2>5 DEF N
<1>7. CASE sensor = "gps_vel"
  <2>1. MeasPred(sensor, arg, N)[c] = N["vel"][c]
    BY <1>7 DEF MeasPred
  <2>2. generated_innov_var_and_h(sensor, arg).innov[c] = (s[4 + c] - arg.meas[c]) % Prime
    BY <1>2, <1>7 DEF generated_innov_var_and_h, generated_gps_vel, Axes
  <2> HIDE DEF s, N
  <2>3. PICK a \in Int : a = s[4 + c]
    BY <1>1, <1>2
  <2>4. Value(Number(a, 0)) = a % Prime /\ ((a % Prime) - z) % Prime = (a - z) % Prime
    BY ChangeArith, ModArith
  <2>5. (Value(MeasPred(sensor, arg, N)[c]) - arg.meas[c]) % Prime = (a - z) % Prime
    BY <1>2, <1>3, <1>4, <2>1, <2>3, <2>4
  <2> QED
    BY <1>3, <2>2, <2>3, <2>5 DEF N
<1>8. CASE sensor = "mag"
  <2> DEFINE q == N["quat_nominal"]
             d == [w |-> 0, x |-> 0, y |-> 0, z |-> 0]
  <2>1. q = [w |-> Mod(Pair(s[0], 0)), x |-> Mod(Pair(s[1], 0)),
             y |-> Mod(Pair(s[2], 0)), z |-> Mod(Pair(s[3], 0))]
    BY NominalIs
  <2>2. generated_innov_var_and_h(sensor, arg).innov[c]
          = (SumOfThree([k \in Axes |-> (UnitRotation(s, k, c) * m[k]) % Prime]) - arg.meas[c]) % Prime
    BY <1>2, <1>8 DEF generated_innov_var_and_h, generated_mag, Axes
  <2>3. MeasPred(sensor, arg, N) = RotateBack(q, LiftV3(m))
    BY <1>8 DEF MeasPred
  <2> HIDE DEF s, m, N, q
  <2>4. FieldChange(q, s, m, d)
    <3>1. s[0] \in Int /\ s[1] \in Int /\ s[2] \in Int /\ s[3] \in Int
      BY <1>1
    <3> QED
      BY <1>1, <2>1, <3>1 DEF FieldChange
  <2> HIDE DEF d
  <2>5. PICK p \in Dual : RotateBack(q, LiftV3(m))[c] = Mod(p) /\ p[1] = FieldValue(s, m, c)
    BY <1>2, <2>4, FieldAlong
  <2>6. Value(MeasPred(sensor, arg, N)[c]) = p[1] % Prime
    BY <2>3, <2>5, ModParts
  <2>7. SumOfThree([k \in Axes |-> (UnitRotation(s, k, c) * m[k]) % Prime]) = FieldValue(s, m, c) % Prime
    BY <1>1, <1>2, RotationSum
  <2> QED
    BY <2>2, <2>5, <2>6, <2>7 DEF N
<1>9. CASE sensor \in {"baro", "lidar"}
  <2>1. c = 0
    BY <1>9 DEF Components
  <2>2. MeasPred(sensor, arg, N)[0] = Zero -- N["pos"][2]
    BY <1>9 DEF MeasPred
  <2>3. generated_innov_var_and_h(sensor, arg).innov[0] = (-arg.meas[0] - s[9]) % Prime
    BY <1>9 DEF generated_innov_var_and_h, generated_baro, generated_lidar
  <2> HIDE DEF s, N
  <2>4. PICK a \in Int : a = s[9]
    BY <1>1
  <2>5. N["pos"][2] = Number(a, 0)
    <3>1. 2 \in 0 .. 2 /\ 7 + 2 = 9
      OBVIOUS
    <3> QED
      BY <1>5, <2>4, <3>1
  <2>6. PICK b \in Int : b = 0 - a
    OBVIOUS
  <2>7. Zero -- Number(a, 0) = Number(b, 0)
    <3>1. Zero -- Number(a, 0) = Number(0 - a, 0 - 0) /\ 0 - 0 = 0
      BY ChangeArith
    <3> QED
      BY <2>6, <3>1
  <2>8. Value(Number(b, 0)) = b % Prime /\ ((b % Prime) - z) % Prime = (b - z) % Prime
    BY ChangeArith, ModArith
  <2>9. b - z = -z - a
    BY <2>6
  <2>10. (Value(MeasPred(sensor, arg, N)[0]) - arg.meas[0]) % Prime = (-z - a) % Prime
    BY <1>3, <2>1, <2>2, <2>5, <2>7, <2>8, <2>9
  <2> QED
    BY <1>3, <2>1, <2>3, <2>4, <2>10 DEF N
<1> QED
  BY <1>6, <1>7, <1>8, <1>9 DEF Sensors

(***************************************************************************)
(* The variance of the innovation                                          *)
(***************************************************************************)
\* The variance of an innovation, from a row h of H.
Variance(P, h, R) ==
    (SumOverTangent([l \in 0 .. 14 |->
        SumOverTangent([k \in 0 .. 14 |-> h[k] * P[k][l]]) * h[l]]) + R) % Prime

\* Sums are integers.
LEMMA SumInt ==
    ASSUME NEW f \in [0 .. 14 -> Int]
    PROVE  SumOverTangent(f) \in Int
<1>1. PICK a \in Int : a = f[0] + f[1] + f[2] + f[3] + f[4] + f[5] + f[6] + f[7] + f[8] + f[9]
                             + f[10] + f[11] + f[12] + f[13] + f[14]
  OBVIOUS
<1> QED
  BY <1>1, ModIs DEF SumOverTangent

\* A row with one entry, 1 or -1.
LEMMA VarianceSingle ==
    ASSUME NEW P \in [0 .. 14 -> [0 .. 14 -> Int]], NEW R \in Int, NEW a \in 0 .. 14,
           NEW e \in {1, -1}
    PROVE  Variance(P, Single(a, e), R) = (P[a][a] + R) % Prime
<1> DEFINE h == Single(a, e)
           HP(l) == SumOverTangent([k \in 0 .. 14 |-> h[k] * P[k][l]])
           f == [l \in 0 .. 14 |-> HP(l) * h[l]]
<1>1. PICK r \in Int, d \in Int : d = e /\ r = d % Prime /\ d * d = 1
  <2>1. e \in Int /\ e * e = 1
    OBVIOUS
  <2> QED
    BY <2>1, ModIs
<1>2. \A k \in 0 .. 14 : h[k] = IF k = a THEN r ELSE 0
  BY <1>1, Layout DEF Single
<1> HIDE DEF h
<1>3. ASSUME NEW l \in 0 .. 14 PROVE HP(l) = (r * P[a][l]) % Prime
  <2> DEFINE g == [k \in 0 .. 14 |-> h[k] * P[k][l]]
  <2>1. \A k \in 0 .. 14 : P[k][l] \in Int
    OBVIOUS
  <2>2. ASSUME NEW k \in 0 .. 14 PROVE g[k] \in Int /\ (k # a => g[k] = 0)
    <3>1. PICK n \in Int, o \in Int : n = h[k] /\ o = P[k][l]
      BY <1>2, <2>1
    <3>2. g[k] = n * o /\ (k # a => n = 0)
      BY <1>2, <3>1
    <3> QED
      BY <3>2
  <2>3. g[a] = r * P[a][l]
    BY <1>2
  <2>4. g \in [0 .. 14 -> Int]
    BY <2>2
  <2>5. SumOverTangent(g) = g[a] % Prime
    <3> HIDE DEF g
    <3> QED
      BY <2>2, <2>4, SumSingle
  <2> QED
    BY <2>3, <2>5
<1>4. PICK x \in Int : x = P[a][a]
  BY DEF Single
<1>5. ASSUME NEW l \in 0 .. 14 PROVE f[l] \in Int /\ (l # a => f[l] = 0)
  <2>1. PICK p \in Int : p = P[a][l]
    OBVIOUS
  <2>2. PICK n \in Int : n = HP(l)
    <3>1. PICK v \in Int : v = r * p
      OBVIOUS
    <3> QED
      BY <1>3, <2>1, <3>1, ModIs
  <2>3. PICK o \in Int : o = h[l] /\ (l # a => o = 0)
    BY <1>2
  <2> HIDE DEF HP
  <2>4. f[l] = n * o
    BY <2>2, <2>3
  <2> QED
    BY <2>3, <2>4
<1>6. f \in [0 .. 14 -> Int]
  BY <1>5
<1>7. SumOverTangent(f) = f[a] % Prime
  <2> HIDE DEF f
  <2> QED
    BY <1>5, <1>6, SumSingle
<1>8. f[a] = ((r * x) % Prime) * r
  <2> HIDE DEF HP
  <2> QED
    BY <1>2, <1>3, <1>4
<1>9. (((r * x) % Prime) * r) % Prime = x % Prime
  <2>1. PICK u \in Int, v \in Int, w \in Int : u = r * x /\ v = x * r /\ w = d * x
    OBVIOUS
  <2>2. ((u % Prime) * r) % Prime = (u * r) % Prime
    BY ModArith
  <2>3. u * r = r * v
    BY <2>1
  <2>4. (r * v) % Prime = (d * v) % Prime
    BY <1>1, ModArith
  <2>5. d * v = r * w
    BY <2>1
  <2>6. (r * w) % Prime = (d * w) % Prime
    BY <1>1, ModArith
  <2>7. d * w = x
    <3>1. d * w = (d * d) * x
      BY <2>1
    <3> QED
      BY <1>1, <3>1
  <2> QED
    BY <2>1, <2>2, <2>3, <2>4, <2>5, <2>6, <2>7
<1>10. SumOverTangent(f) = x % Prime
  BY <1>7, <1>8, <1>9
<1>11. ((x % Prime) + R) % Prime = (x + R) % Prime
  BY ModArith
<1>12. Variance(P, h, R) = (SumOverTangent(f) + R) % Prime
  BY DEF Variance
<1> HIDE DEF f
<1> QED
  BY <1>4, <1>10, <1>11, <1>12 DEF h

\* A row with three entries: what the generated function of the magnetometer
\* sums.
LEMMA VarianceOfThree ==
    ASSUME NEW P \in [0 .. 14 -> [0 .. 14 -> Int]], NEW R \in Int, NEW T \in [0 .. 2 -> Int]
    PROVE  Variance(P, [j \in Tangent |-> IF j < 3 THEN T[j] ELSE 0], R)
             = (SumOfThree([l \in Axes |->
                   (SumOfThree([k \in Axes |-> (T[k] * P[k][l]) % Prime]) * T[l]) % Prime]) + R)
               % Prime
<1> DEFINE h == [j \in Tangent |-> IF j < 3 THEN T[j] ELSE 0]
           HP(l) == SumOverTangent([k \in 0 .. 14 |-> h[k] * P[k][l]])
           TP(l) == SumOfThree([k \in Axes |-> (T[k] * P[k][l]) % Prime])
           f == [l \in 0 .. 14 |-> HP(l) * h[l]]
           g == [l \in 0 .. 2 |-> TP(l) * T[l]]
<1>1. /\ \A k \in 0 .. 2 : h[k] = T[k] /\ T[k] \in Int
      /\ \A k \in 3 .. 14 : h[k] = 0
  BY Layout
<1>2. \A k \in 0 .. 14 : h[k] \in Int
  <2>1. \A k \in 0 .. 14 : k \in 0 .. 2 \/ k \in 3 .. 14
    OBVIOUS
  <2> QED
    BY <1>1, <2>1
<1> HIDE DEF h
<1>3. ASSUME NEW l \in 0 .. 14 PROVE HP(l) \in Int /\ HP(l) = TP(l)
  <2> DEFINE u == [k \in 0 .. 14 |-> h[k] * P[k][l]]
             v == [k \in 0 .. 2 |-> T[k] * P[k][l]]
  <2>1. \A k \in 0 .. 14 : P[k][l] \in Int
    OBVIOUS
  <2>2. ASSUME NEW k \in 0 .. 14 PROVE u[k] \in Int /\ (k \in 3 .. 14 => u[k] = 0)
    <3>1. PICK n \in Int, o \in Int : n = h[k] /\ o = P[k][l]
      BY <1>2, <2>1
    <3>2. u[k] = n * o /\ (k \in 3 .. 14 => n = 0)
      BY <1>1, <3>1
    <3> QED
      BY <3>2
  <2>3. ASSUME NEW k \in 0 .. 2 PROVE v[k] \in Int /\ v[k] = u[k]
    <3>1. k \in 0 .. 14
      OBVIOUS
    <3>2. PICK n \in Int, o \in Int : n = T[k] /\ o = P[k][l]
      BY <1>1, <2>1, <3>1
    <3>3. v[k] = n * o /\ u[k] = n * o
      BY <1>1, <3>1, <3>2
    <3> QED
      BY <3>3
  <2>4. u \in [0 .. 14 -> Int] /\ v \in [0 .. 2 -> Int]
    BY <2>2, <2>3
  <2>5. TP(l) = SumOfThree([k \in Axes |-> v[k] % Prime])
    <3>1. [k \in Axes |-> (T[k] * P[k][l]) % Prime] = [k \in Axes |-> v[k] % Prime]
      BY DEF Axes
    <3> QED
      BY <3>1
  <2> HIDE DEF u, v, TP
  <2>6. \A k \in 3 .. 14 : u[k] = 0
    <3>1. \A k \in 3 .. 14 : k \in 0 .. 14
      OBVIOUS
    <3> QED
      BY <2>2, <3>1
  <2>7. SumOverTangent(u) = (u[0] + u[1] + u[2]) % Prime
    BY <2>4, <2>6, SumFew
  <2>8. SumOfThree([k \in Axes |-> v[k] % Prime]) = (v[0] + v[1] + v[2]) % Prime
    BY <2>4, SumOfThreeIs
  <2>9. v[0] = u[0] /\ v[1] = u[1] /\ v[2] = u[2]
    BY <2>3
  <2>10. SumOverTangent(u) \in Int
    BY <2>4, SumInt
  <2> QED
    BY <2>5, <2>7, <2>8, <2>9, <2>10 DEF u
<1>4. ASSUME NEW l \in 0 .. 14 PROVE f[l] \in Int /\ (l \in 3 .. 14 => f[l] = 0)
  <2>1. PICK n \in Int, o \in Int : n = HP(l) /\ o = h[l]
    BY <1>2, <1>3
  <2>2. l \in 3 .. 14 => o = 0
    BY <1>1, <2>1
  <2> HIDE DEF HP
  <2>3. f[l] = n * o
    BY <2>1
  <2> QED
    BY <2>2, <2>3
<1>5. ASSUME NEW l \in 0 .. 2 PROVE g[l] \in Int /\ g[l] = f[l]
  <2>1. l \in 0 .. 14
    OBVIOUS
  <2>2. HP(l) \in Int /\ HP(l) = TP(l) /\ f[l] \in Int
    BY <1>3, <1>4, <2>1
  <2> HIDE DEF HP, TP
  <2>3. f[l] = HP(l) * h[l] /\ g[l] = TP(l) * T[l]
    BY <2>1
  <2> QED
    BY <1>1, <2>2, <2>3
<1>6. f \in [0 .. 14 -> Int] /\ g \in [0 .. 2 -> Int]
  BY <1>4, <1>5
<1>7. [l \in Axes |-> (TP(l) * T[l]) % Prime] = [l \in Axes |-> g[l] % Prime]
  BY DEF Axes
<1>8. Variance(P, h, R) = (SumOverTangent(f) + R) % Prime
  BY DEF Variance
<1> HIDE DEF f, g, TP, HP
<1>9. \A l \in 3 .. 14 : f[l] = 0
  <2>1. \A k \in 3 .. 14 : k \in 0 .. 14
    OBVIOUS
  <2> QED
    BY <1>4, <2>1
<1>10. SumOverTangent(f) = (f[0] + f[1] + f[2]) % Prime
  BY <1>6, <1>9, SumFew
<1>11. SumOfThree([l \in Axes |-> g[l] % Prime]) = (g[0] + g[1] + g[2]) % Prime
  BY <1>6, SumOfThreeIs
<1>12. g[0] = f[0] /\ g[1] = f[1] /\ g[2] = f[2]
  BY <1>5
<1>13. Variance(P, h, R) = (SumOfThree([l \in Axes |-> (TP(l) * T[l]) % Prime]) + R) % Prime
  BY <1>7, <1>8, <1>10, <1>11, <1>12
<1> QED
  BY <1>13 DEF h, TP

(***************************************************************************)
(* The functions and the derivation                                        *)
(***************************************************************************)
\* What the function of the magnetometer has for the first three errors is a
\* vector of integers.
LEMMA FieldTurnInt ==
    ASSUME NEW s, NEW m, IsField(s, m), NEW c \in 0 .. 2
    PROVE  FieldTurn(s, m, c) \in [0 .. 2 -> Int]
<1>1. \A j \in 0 .. 2 : FieldTurn(s, m, c)[j] \in Int
  <2> SUFFICES ASSUME NEW j \in 0 .. 2 PROVE FieldTurn(s, m, c)[j] \in Int
    OBVIOUS
  <2>1. PICK t \in Int, h \in Int : t = TurnSum(s, FieldDerivative(s, m, c), j) /\ h = HalfInt
    BY FieldTurnIs, HalfIs
  <2>2. FieldTurn(s, m, c)[j] = (h * t) % Prime
    BY <2>1, FieldTurnIs
  <2> QED
    BY <2>2, ModIs
<1>2. FieldTurn(s, m, c) = [j \in 0 .. 2 |-> FieldTurn(s, m, c)[j]]
  BY DEF FieldTurn, V3
<1> QED
  BY <1>1, <1>2

\* The variance of the innovation of every generated function is
\* H P H^T + R of the row of H that the function returns.
LEMMA VarianceIs ==
    ASSUME NEW arg, IsArgument(arg), NEW sensor \in Sensors, NEW c \in Components(sensor)
    PROVE  generated_innov_var_and_h(sensor, arg).innov_var[c]
             = Variance(arg.P, generated_innov_var_and_h(sensor, arg).H[c], arg.R)
<1>1. /\ arg.P \in [0 .. 14 -> [0 .. 14 -> Int]] /\ arg.R \in Int
      /\ IsField(arg.state, arg.mag_ref)
  BY DEF IsArgument, IsField
<1>2. c \in 0 .. 2
  BY DEF Components, Axes
<1>3. CASE sensor = "gps_pos"
  <2>1. /\ generated_innov_var_and_h(sensor, arg).innov_var[c]
             = (arg.P[6 + c][6 + c] + arg.R) % Prime
        /\ generated_innov_var_and_h(sensor, arg).H[c] = Single(6 + c, 1)
    BY <1>2, <1>3 DEF generated_innov_var_and_h, generated_gps_pos, Axes
  <2>2. 6 + c \in 0 .. 14 /\ 1 \in {1, -1}
    BY <1>2
  <2> QED
    BY <1>1, <2>1, <2>2, VarianceSingle
<1>4. CASE sensor = "gps_vel"
  <2>1. /\ generated_innov_var_and_h(sensor, arg).innov_var[c]
             = (arg.P[3 + c][3 + c] + arg.R) % Prime
        /\ generated_innov_var_and_h(sensor, arg).H[c] = Single(3 + c, 1)
    BY <1>2, <1>4 DEF generated_innov_var_and_h, generated_gps_vel, Axes
  <2>2. 3 + c \in 0 .. 14 /\ 1 \in {1, -1}
    BY <1>2
  <2> QED
    BY <1>1, <2>1, <2>2, VarianceSingle
<1>5. CASE sensor \in {"baro", "lidar"}
  <2>1. c = 0
    BY <1>5 DEF Components
  <2>2. /\ generated_innov_var_and_h(sensor, arg).innov_var[0] = (arg.P[8][8] + arg.R) % Prime
        /\ generated_innov_var_and_h(sensor, arg).H[0] = Single(8, -1)
    BY <1>5 DEF generated_innov_var_and_h, generated_baro, generated_lidar
  <2>3. 8 \in 0 .. 14 /\ -1 \in {1, -1}
    OBVIOUS
  <2> QED
    BY <1>1, <2>1, <2>2, <2>3, VarianceSingle
<1>6. CASE sensor = "mag"
  <2> DEFINE P == arg.P
             T == FieldTurn(arg.state, arg.mag_ref, c)
             h == [j \in Tangent |-> IF j < 3 THEN T[j] ELSE 0]
  <2>1. generated_innov_var_and_h(sensor, arg).innov_var[c]
          = (SumOfThree([l \in Axes |->
                (SumOfThree([k \in Axes |-> (T[k] * P[k][l]) % Prime]) * T[l]) % Prime]) + arg.R)
            % Prime
    BY <1>2, <1>6 DEF generated_innov_var_and_h, generated_mag, Axes
  <2>2. generated_innov_var_and_h(sensor, arg).H[c] = h
    BY <1>2, <1>6 DEF generated_innov_var_and_h, generated_mag, Axes
  <2>3. T \in [0 .. 2 -> Int]
    BY <1>1, <1>2, FieldTurnInt
  <2>4. Variance(P, h, arg.R)
          = (SumOfThree([l \in Axes |->
                (SumOfThree([k \in Axes |-> (T[k] * P[k][l]) % Prime]) * T[l]) % Prime]) + arg.R)
            % Prime
    <3> HIDE DEF T
    <3> QED
      BY <1>1, <2>3, VarianceOfThree
  <2> QED
    BY <2>1, <2>2, <2>4
<1> QED
  BY <1>3, <1>4, <1>5, <1>6 DEF Sensors

\* The rows of the chain rule are those of the generated functions.
LEMMA RowIs ==
    ASSUME NEW arg, IsArgument(arg), NEW sensor \in Sensors, NEW c \in Components(sensor)
    PROVE  jacobian_chain_rule(sensor, arg, c) = generated_innov_var_and_h(sensor, arg).H[c]
<1> DEFINE row == jacobian_chain_rule(sensor, arg, c)
           h == generated_innov_var_and_h(sensor, arg).H[c]
<1>1. row = [j \in Tangent |-> row[j]]
  BY DEF jacobian_chain_rule
<1>2. h = [j \in Tangent |-> h[j]]
  BY DEF generated_innov_var_and_h, generated_gps_pos, generated_gps_vel, generated_mag,
         generated_baro, generated_lidar, Single, Sensors, Components
<1>3. \A j \in Tangent : row[j] = h[j]
  BY ChainIsGenerated
<1> QED
  BY <1>1, <1>2, <1>3

\* The derivation and the generated functions return the same record.
LEMMA ComputeIsGenerated ==
    ASSUME NEW arg, IsArgument(arg), NEW sensor \in Sensors
    PROVE  generated_innov_var_and_h(sensor, arg) = compute_innov_var_and_h(sensor, arg)
<1> DEFINE g == generated_innov_var_and_h(sensor, arg)
           C == Components(sensor)
           H == [c \in C |-> jacobian_chain_rule(sensor, arg, c)]
           HP(c, l) == SumOverTangent([k \in Tangent |-> H[c][k] * arg.P[k][l]])
           innov == [c \in C |-> (Value(MeasPred(sensor, arg, Nominal(arg))[c]) - arg.meas[c]) % Prime]
           innov_var == [c \in C |->
              (SumOverTangent([l \in Tangent |-> HP(c, l) * H[c][l]]) + arg.R) % Prime]
<1>1. compute_innov_var_and_h(sensor, arg) = [innov |-> innov, innov_var |-> innov_var, H |-> H]
  BY DEF compute_innov_var_and_h
<1>2. /\ g = [innov |-> g.innov, innov_var |-> g.innov_var, H |-> g.H]
      /\ g.innov = [c \in C |-> g.innov[c]]
      /\ g.innov_var = [c \in C |-> g.innov_var[c]]
      /\ g.H = [c \in C |-> g.H[c]]
  BY DEF generated_innov_var_and_h, generated_gps_pos, generated_gps_vel, generated_mag,
         generated_baro, generated_lidar, Sensors, Components
<1> HIDE DEF g
<1>3. \A c \in C : g.H[c] = H[c]
  BY RowIs DEF g
<1>4. \A c \in C : g.innov[c] = innov[c]
  BY InnovIs DEF g
<1>5. \A c \in C : g.innov_var[c] = innov_var[c]
  <2> SUFFICES ASSUME NEW c \in C PROVE g.innov_var[c] = innov_var[c]
    OBVIOUS
  <2>1. g.innov_var[c] = Variance(arg.P, g.H[c], arg.R)
    BY VarianceIs DEF g
  <2>2. g.H[c] = H[c]
    BY <1>3
  <2>3. Variance(arg.P, H[c], arg.R) = innov_var[c]
    <3> HIDE DEF H
    <3> QED
      BY Layout DEF Variance
  <2> QED
    BY <2>1, <2>2, <2>3
<1> QED
  <2>1. g.innov = innov
    <3> HIDE DEF C
    <3>1. innov = [c \in C |-> innov[c]]
      OBVIOUS
    <3> HIDE DEF innov
    <3> QED
      BY <1>2, <1>4, <3>1
  <2>2. g.innov_var = innov_var
    <3> HIDE DEF C, H, HP
    <3>1. innov_var = [c \in C |-> innov_var[c]]
      OBVIOUS
    <3> HIDE DEF innov_var
    <3> QED
      BY <1>2, <1>5, <3>1
  <2>3. g.H = H
    <3> HIDE DEF C
    <3>1. H = [c \in C |-> H[c]]
      OBVIOUS
    <3> HIDE DEF H
    <3> QED
      BY <1>2, <1>3, <3>1
  <2> HIDE DEF innov, innov_var, H
  <2> QED
    BY <1>1, <1>2, <2>1, <2>2, <2>3 DEF g

\* For every state, covariance, measurement and noise: what each generated
\* compute_*_innov_var_and_h returns is the innovation, the variance
\* H P H^T + R and the row H that ekf_derivation.py computes from the
\* measurement model of that sensor (ekf_derivation.py:217-293).
THEOREM MeasurementsCorrect == EkfSpec => []MeasurementsAreDerived
<1>1. EkfInv => MeasurementsAreDerived
  <2> SUFFICES ASSUME EkfInv, ekf_called \in Sensors
               PROVE  ekf_result = compute_innov_var_and_h(ekf_called, ekf_arg)
    BY DEF MeasurementsAreDerived
  <2>1. IsArgument(ekf_arg) /\ ekf_result = generated_innov_var_and_h(ekf_called, ekf_arg)
    BY ArgumentsAre DEF EkfInv
  <2> QED
    BY <2>1, ComputeIsGenerated
<1> QED
  BY <1>1, EkfInvHolds, PTL

(***************************************************************************)
(* Numbers of which only the value and the derivative matter               *)
(***************************************************************************)
\* x is the reduction of a number with value a and derivative b.
Has(x, a, b) == \E p \in Dual : x = Mod(p) /\ p[1] = a /\ p[2] = b

\* Then these are integers, and what Value and Derivative return is reduced.
LEMMA HasParts ==
    ASSUME NEW x, NEW a, NEW b, Has(x, a, b)
    PROVE  /\ a \in Int /\ b \in Int
           /\ Value(x) = a % Prime /\ Derivative(x) = b % Prime
  BY DualInt, ModParts DEF Has, Value, Derivative

\* A sum.
LEMMA HasSum ==
    ASSUME NEW x, NEW y, NEW a, NEW b, NEW c, NEW d, Has(x, a, b), Has(y, c, d)
    PROVE  Has(x ++ y, a + c, b + d)
<1>1. PICK p \in Dual : x = Mod(p) /\ p[1] = a /\ p[2] = b
  BY DEF Has
<1>2. PICK q \in Dual : y = Mod(q) /\ q[1] = c /\ q[2] = d
  BY DEF Has
<1>3. /\ p \oplus q \in Dual /\ x ++ y = Mod(p \oplus q)
      /\ (p \oplus q)[1] = a + c /\ (p \oplus q)[2] = b + d
  <2>1. /\ p \oplus q \in Dual /\ Mod(p) ++ Mod(q) = Mod(p \oplus q)
        /\ \A i \in 1 .. 4 : (p \oplus q)[i] = p[i] + q[i]
    BY ModHom, DualParts
  <2> QED
    BY <1>1, <1>2, <2>1
<1> QED
  BY <1>3 DEF Has

\* A difference.
LEMMA HasDifference ==
    ASSUME NEW x, NEW y, NEW a, NEW b, NEW c, NEW d, Has(x, a, b), Has(y, c, d)
    PROVE  Has(x -- y, a - c, b - d)
<1>1. PICK p \in Dual : x = Mod(p) /\ p[1] = a /\ p[2] = b
  BY DEF Has
<1>2. PICK q \in Dual : y = Mod(q) /\ q[1] = c /\ q[2] = d
  BY DEF Has
<1>3. /\ p \ominus q \in Dual /\ x -- y = Mod(p \ominus q)
      /\ (p \ominus q)[1] = a - c /\ (p \ominus q)[2] = b - d
  <2>1. /\ p \ominus q \in Dual /\ Mod(p) -- Mod(q) = Mod(p \ominus q)
        /\ \A i \in 1 .. 4 : (p \ominus q)[i] = p[i] - q[i]
    BY ModHom, DualParts
  <2> QED
    BY <1>1, <1>2, <2>1
<1> QED
  BY <1>3 DEF Has

\* A product.
LEMMA HasProduct ==
    ASSUME NEW x, NEW y, NEW a, NEW b, NEW c, NEW d, Has(x, a, b), Has(y, c, d)
    PROVE  Has(x ** y, a * c, a * d + b * c)
<1>1. PICK p \in Dual : x = Mod(p) /\ p[1] = a /\ p[2] = b
  BY DEF Has
<1>2. PICK q \in Dual : y = Mod(q) /\ q[1] = c /\ q[2] = d
  BY DEF Has
<1>3. /\ p \otimes q \in Dual /\ x ** y = Mod(p \otimes q)
      /\ (p \otimes q)[1] = a * c /\ (p \otimes q)[2] = a * d + b * c
  BY <1>1, <1>2, ModHom, DualParts
<1> QED
  BY <1>3 DEF Has

\* Numbers of the program.
LEMMA HasNumber ==
    /\ \A a, b \in Int : Has(Number(a, b), a, b)
    /\ \A a \in Int : Has(Lift(a), a, 0)
    /\ Has(Zero, 0, 0) /\ Has(One, 1, 0) /\ Has(EPS, 0, 1)
<1>1. \A a, b \in Int : Has(Mod(Pair(a, b)), a, b)
  BY PairIs DEF Has
<1> QED
  BY <1>1, ModIsNumber DEF Number

\* The forms of the entries of a rotation matrix.
LEMMA HasEntry ==
    ASSUME NEW x, NEW y, NEW a, NEW b, NEW c, NEW d, Has(x, a, b), Has(y, c, d)
    PROVE  /\ Has(Twice(x ++ y), 2 * (a + c), 2 * (b + d))
           /\ Has(Twice(x -- y), 2 * (a - c), 2 * (b - d))
           /\ Has(One -- Twice(x ++ y), 1 - 2 * (a + c), 0 - 2 * (b + d))
<1>1. a \in Int /\ b \in Int /\ c \in Int /\ d \in Int
  BY HasParts
<1>2. PICK e \in Int, f \in Int, g \in Int, h \in Int :
         e = a + c /\ f = b + d /\ g = a - c /\ h = b - d
  BY <1>1
<1>3. Has(x ++ y, e, f) /\ Has(x -- y, g, h)
  BY <1>2, HasSum, HasDifference
<1>4. Has(Twice(x ++ y), 2 * e, 2 * f)
  <2>1. Has((x ++ y) ++ (x ++ y), e + e, f + f)
    BY <1>3, HasSum
  <2> QED
    BY <2>1 DEF Twice
<1>5. Has(Twice(x -- y), 2 * g, 2 * h)
  <2>1. Has((x -- y) ++ (x -- y), g + g, h + h)
    BY <1>3, HasSum
  <2> QED
    BY <2>1 DEF Twice
<1>6. Has(One -- Twice(x ++ y), 1 - 2 * e, 0 - 2 * f)
  BY <1>4, HasNumber, HasDifference
<1> QED
  BY <1>2, <1>4, <1>5, <1>6

\* A quaternion of the numbers s that change by d.
Moving(q, s, d) ==
    /\ Has(q.w, s[0], d[0]) /\ Has(q.x, s[1], d[1])
    /\ Has(q.y, s[2], d[2]) /\ Has(q.z, s[3], d[3])

\* How an entry of its rotation matrix changes.
UnitChange(s, d, r, k) ==
    IF r = k THEN 0 - 4 * ((s[1] * d[1] + s[2] * d[2] + s[3] * d[3]) - s[r + 1] * d[r + 1])
             ELSE 2 * (s[r + 1] * d[k + 1] + s[k + 1] * d[r + 1])
                    + (IF <<r, k>> \in {<<0, 1>>, <<1, 2>>, <<2, 0>>}
                         THEN 0 - 2 * (s[0] * d[4 - r - k] + s[4 - r - k] * d[0])
                         ELSE 2 * (s[0] * d[4 - r - k] + s[4 - r - k] * d[0]))

\* Its value and its change are these.
LEMMA RowsHave ==
    ASSUME NEW q, NEW s, NEW d, Moving(q, s, d), NEW r \in 0 .. 2, NEW k \in 0 .. 2
    PROVE  Has(RotationRows(q)[r][k], UnitEntry(s, r, k), UnitChange(s, d, r, k))
<1> DEFINE R == RotationRows(q)
<1>1. PICK a \in Int, b \in Int, c \in Int, e \in Int :
         a = s[0] /\ b = s[1] /\ c = s[2] /\ e = s[3]
  BY HasParts DEF Moving
<1>2. PICK da \in Int, db \in Int, dc \in Int, de \in Int :
         da = d[0] /\ db = d[1] /\ dc = d[2] /\ de = d[3]
  BY HasParts DEF Moving
<1>3. /\ Has(q.w, a, da) /\ Has(q.x, b, db) /\ Has(q.y, c, dc) /\ Has(q.z, e, de)
  BY <1>1, <1>2 DEF Moving
<1>4. /\ R[0][0] = One -- Twice(q.y ** q.y ++ q.z ** q.z)
      /\ R[0][1] = Twice(q.x ** q.y -- q.z ** q.w)
      /\ R[0][2] = Twice(q.x ** q.z ++ q.y ** q.w)
      /\ R[1][0] = Twice(q.x ** q.y ++ q.z ** q.w)
      /\ R[1][1] = One -- Twice(q.x ** q.x ++ q.z ** q.z)
      /\ R[1][2] = Twice(q.y ** q.z -- q.x ** q.w)
      /\ R[2][0] = Twice(q.x ** q.z -- q.y ** q.w)
      /\ R[2][1] = Twice(q.y ** q.z ++ q.x ** q.w)
      /\ R[2][2] = One -- Twice(q.x ** q.x ++ q.y ** q.y)
  BY DEF RotationRows, V3
<1> HIDE DEF R
<1>5. Has(q.x ** q.x, b * b, b * db + db * b)
  BY <1>3, HasProduct
<1>6. Has(q.y ** q.y, c * c, c * dc + dc * c)
  BY <1>3, HasProduct
<1>7. Has(q.z ** q.z, e * e, e * de + de * e)
  BY <1>3, HasProduct
<1>8. Has(q.x ** q.y, b * c, b * dc + db * c)
  BY <1>3, HasProduct
<1>9. Has(q.x ** q.z, b * e, b * de + db * e)
  BY <1>3, HasProduct
<1>10. Has(q.y ** q.z, c * e, c * de + dc * e)
  BY <1>3, HasProduct
<1>11. Has(q.x ** q.w, b * a, b * da + db * a)
  BY <1>3, HasProduct
<1>12. Has(q.y ** q.w, c * a, c * da + dc * a)
  BY <1>3, HasProduct
<1>13. Has(q.z ** q.w, e * a, e * da + de * a)
  BY <1>3, HasProduct
<1>14. CASE r = 0
  <2>1. Has(R[0][0], 1 - 2 * (c * c + e * e), 0 - 2 * ((c * dc + dc * c) + (e * de + de * e)))
    BY <1>4, <1>6, <1>7, HasEntry
  <2>2. Has(R[0][1], 2 * (b * c - e * a), 2 * ((b * dc + db * c) - (e * da + de * a)))
    BY <1>4, <1>8, <1>13, HasEntry
  <2>3. Has(R[0][2], 2 * (b * e + c * a), 2 * ((b * de + db * e) + (c * da + dc * a)))
    BY <1>4, <1>9, <1>12, HasEntry
  <2>4. /\ UnitEntry(s, 0, 0) = 1 - 2 * (c * c + e * e)
        /\ UnitChange(s, d, 0, 0) = 0 - 2 * ((c * dc + dc * c) + (e * de + de * e))
    <3>1. UnitEntry(s, 0, 0) = 1 - 2 * ((a * a + b * b + c * c + e * e) - a * a - b * b)
      BY <1>1 DEF UnitEntry
    <3>2. UnitChange(s, d, 0, 0) = 0 - 4 * ((b * db + c * dc + e * de) - b * db)
      BY <1>1, <1>2 DEF UnitChange
    <3>3. 0 - 4 * ((b * db + c * dc + e * de) - b * db)
            = 0 - 2 * ((c * dc + dc * c) + (e * de + de * e))
      OBVIOUS
    <3> QED
      BY <3>1, <3>2, <3>3
  <2>5. /\ UnitEntry(s, 0, 1) = 2 * (b * c - e * a)
        /\ UnitChange(s, d, 0, 1) = 2 * ((b * dc + db * c) - (e * da + de * a))
    <3>1. UnitEntry(s, 0, 1) = 2 * b * c + (-(2 * a * e))
      BY <1>1 DEF UnitEntry
    <3>2. UnitChange(s, d, 0, 1) = 2 * (b * dc + c * db) + (0 - 2 * (a * de + e * da))
      BY <1>1, <1>2 DEF UnitChange
    <3>3. 2 * (b * dc + c * db) + (0 - 2 * (a * de + e * da))
            = 2 * ((b * dc + db * c) - (e * da + de * a))
      OBVIOUS
    <3> QED
      BY <3>1, <3>2, <3>3
  <2>6. /\ UnitEntry(s, 0, 2) = 2 * (b * e + c * a)
        /\ UnitChange(s, d, 0, 2) = 2 * ((b * de + db * e) + (c * da + dc * a))
    <3>1. UnitEntry(s, 0, 2) = 2 * b * e + (2 * a * c)
      BY <1>1 DEF UnitEntry
    <3>2. UnitChange(s, d, 0, 2) = 2 * (b * de + e * db) + (2 * (a * dc + c * da))
      BY <1>1, <1>2 DEF UnitChange
    <3>3. 2 * (b * de + e * db) + (2 * (a * dc + c * da))
            = 2 * ((b * de + db * e) + (c * da + dc * a))
      OBVIOUS
    <3> QED
      BY <3>1, <3>2, <3>3
  <2>7. k = 0 \/ k = 1 \/ k = 2
    OBVIOUS
  <2> QED
    BY <1>14, <2>1, <2>2, <2>3, <2>4, <2>5, <2>6, <2>7 DEF R
<1>15. CASE r = 1
  <2>1. Has(R[1][0], 2 * (b * c + e * a), 2 * ((b * dc + db * c) + (e * da + de * a)))
    BY <1>4, <1>8, <1>13, HasEntry
  <2>2. Has(R[1][1], 1 - 2 * (b * b + e * e), 0 - 2 * ((b * db + db * b) + (e * de + de * e)))
    BY <1>4, <1>5, <1>7, HasEntry
  <2>3. Has(R[1][2], 2 * (c * e - b * a), 2 * ((c * de + dc * e) - (b * da + db * a)))
    BY <1>4, <1>10, <1>11, HasEntry
  <2>4. /\ UnitEntry(s, 1, 0) = 2 * (b * c + e * a)
        /\ UnitChange(s, d, 1, 0) = 2 * ((b * dc + db * c) + (e * da + de * a))
    <3>1. UnitEntry(s, 1, 0) = 2 * c * b + (2 * a * e)
      BY <1>1 DEF UnitEntry
    <3>2. UnitChange(s, d, 1, 0) = 2 * (c * db + b * dc) + (2 * (a * de + e * da))
      BY <1>1, <1>2 DEF UnitChange
    <3>3. 2 * (c * db + b * dc) + (2 * (a * de + e * da))
            = 2 * ((b * dc + db * c) + (e * da + de * a))
      OBVIOUS
    <3> QED
      BY <3>1, <3>2, <3>3
  <2>5. /\ UnitEntry(s, 1, 1) = 1 - 2 * (b * b + e * e)
        /\ UnitChange(s, d, 1, 1) = 0 - 2 * ((b * db + db * b) + (e * de + de * e))
    <3>1. UnitEntry(s, 1, 1) = 1 - 2 * ((a * a + b * b + c * c + e * e) - a * a - c * c)
      BY <1>1 DEF UnitEntry
    <3>2. UnitChange(s, d, 1, 1) = 0 - 4 * ((b * db + c * dc + e * de) - c * dc)
      BY <1>1, <1>2 DEF UnitChange
    <3>3. 0 - 4 * ((b * db + c * dc + e * de) - c * dc)
            = 0 - 2 * ((b * db + db * b) + (e * de + de * e))
      OBVIOUS
    <3> QED
      BY <3>1, <3>2, <3>3
  <2>6. /\ UnitEntry(s, 1, 2) = 2 * (c * e - b * a)
        /\ UnitChange(s, d, 1, 2) = 2 * ((c * de + dc * e) - (b * da + db * a))
    <3>1. UnitEntry(s, 1, 2) = 2 * c * e + (-(2 * a * b))
      BY <1>1 DEF UnitEntry
    <3>2. UnitChange(s, d, 1, 2) = 2 * (c * de + e * dc) + (0 - 2 * (a * db + b * da))
      BY <1>1, <1>2 DEF UnitChange
    <3>3. 2 * (c * de + e * dc) + (0 - 2 * (a * db + b * da))
            = 2 * ((c * de + dc * e) - (b * da + db * a))
      OBVIOUS
    <3> QED
      BY <3>1, <3>2, <3>3
  <2>7. k = 0 \/ k = 1 \/ k = 2
    OBVIOUS
  <2> QED
    BY <1>15, <2>1, <2>2, <2>3, <2>4, <2>5, <2>6, <2>7 DEF R
<1>16. CASE r = 2
  <2>1. Has(R[2][0], 2 * (b * e - c * a), 2 * ((b * de + db * e) - (c * da + dc * a)))
    BY <1>4, <1>9, <1>12, HasEntry
  <2>2. Has(R[2][1], 2 * (c * e + b * a), 2 * ((c * de + dc * e) + (b * da + db * a)))
    BY <1>4, <1>10, <1>11, HasEntry
  <2>3. Has(R[2][2], 1 - 2 * (b * b + c * c), 0 - 2 * ((b * db + db * b) + (c * dc + dc * c)))
    BY <1>4, <1>5, <1>6, HasEntry
  <2>4. /\ UnitEntry(s, 2, 0) = 2 * (b * e - c * a)
        /\ UnitChange(s, d, 2, 0) = 2 * ((b * de + db * e) - (c * da + dc * a))
    <3>1. UnitEntry(s, 2, 0) = 2 * e * b + (-(2 * a * c))
      BY <1>1 DEF UnitEntry
    <3>2. UnitChange(s, d, 2, 0) = 2 * (e * db + b * de) + (0 - 2 * (a * dc + c * da))
      BY <1>1, <1>2 DEF UnitChange
    <3>3. 2 * (e * db + b * de) + (0 - 2 * (a * dc + c * da))
            = 2 * ((b * de + db * e) - (c * da + dc * a))
      OBVIOUS
    <3> QED
      BY <3>1, <3>2, <3>3
  <2>5. /\ UnitEntry(s, 2, 1) = 2 * (c * e + b * a)
        /\ UnitChange(s, d, 2, 1) = 2 * ((c * de + dc * e) + (b * da + db * a))
    <3>1. UnitEntry(s, 2, 1) = 2 * e * c + (2 * a * b)
      BY <1>1 DEF UnitEntry
    <3>2. UnitChange(s, d, 2, 1) = 2 * (e * dc + c * de) + (2 * (a * db + b * da))
      BY <1>1, <1>2 DEF UnitChange
    <3>3. 2 * (e * dc + c * de) + (2 * (a * db + b * da))
            = 2 * ((c * de + dc * e) + (b * da + db * a))
      OBVIOUS
    <3> QED
      BY <3>1, <3>2, <3>3
  <2>6. /\ UnitEntry(s, 2, 2) = 1 - 2 * (b * b + c * c)
        /\ UnitChange(s, d, 2, 2) = 0 - 2 * ((b * db + db * b) + (c * dc + dc * c))
    <3>1. UnitEntry(s, 2, 2) = 1 - 2 * ((a * a + b * b + c * c + e * e) - a * a - e * e)
      BY <1>1 DEF UnitEntry
    <3>2. UnitChange(s, d, 2, 2) = 0 - 4 * ((b * db + c * dc + e * de) - e * de)
      BY <1>1, <1>2 DEF UnitChange
    <3>3. 0 - 4 * ((b * db + c * dc + e * de) - e * de)
            = 0 - 2 * ((b * db + db * b) + (c * dc + dc * c))
      OBVIOUS
    <3> QED
      BY <3>1, <3>2, <3>3
  <2>7. k = 0 \/ k = 1 \/ k = 2
    OBVIOUS
  <2> QED
    BY <1>16, <2>1, <2>2, <2>3, <2>4, <2>5, <2>6, <2>7 DEF R
<1> QED
  BY <1>14, <1>15, <1>16

\* A vector of the numbers a that change by b.
MovingVector(v, a, b) == \A k \in 0 .. 2 : Has(v[k], a[k], b[k])

\* How a rotated vector changes.
RotateChange(s, d, a, b, r) ==
    (UnitEntry(s, r, 0) * b[0] + UnitChange(s, d, r, 0) * a[0])
      + (UnitEntry(s, r, 1) * b[1] + UnitChange(s, d, r, 1) * a[1])
      + (UnitEntry(s, r, 2) * b[2] + UnitChange(s, d, r, 2) * a[2])

\* With the quaternion and with the vector.
LEMMA RotateHas ==
    ASSUME NEW q, NEW s, NEW d, Moving(q, s, d), NEW v, NEW a, NEW b, MovingVector(v, a, b),
           NEW r \in 0 .. 2
    PROVE  \E n \in Int : Has(Rotate(q, v)[r], n, RotateChange(s, d, a, b, r))
<1> DEFINE R == RotationRows(q)[r]
           U(k) == UnitEntry(s, r, k)
           C(k) == UnitChange(s, d, r, k)
<1>1. Has(R[0], U(0), C(0)) /\ Has(R[1], U(1), C(1)) /\ Has(R[2], U(2), C(2))
  BY RowsHave
<1>2. Has(v[0], a[0], b[0]) /\ Has(v[1], a[1], b[1]) /\ Has(v[2], a[2], b[2])
  BY DEF MovingVector
<1>3. Rotate(q, v)[r] = (R[0] ** v[0] ++ R[1] ** v[1]) ++ R[2] ** v[2]
  BY DEF Rotate, Inner
<1> HIDE DEF R, U, C
<1>4. Has(R[0] ** v[0], U(0) * a[0], U(0) * b[0] + C(0) * a[0])
  BY <1>1, <1>2, HasProduct
<1>5. Has(R[1] ** v[1], U(1) * a[1], U(1) * b[1] + C(1) * a[1])
  BY <1>1, <1>2, HasProduct
<1>6. Has(R[2] ** v[2], U(2) * a[2], U(2) * b[2] + C(2) * a[2])
  BY <1>1, <1>2, HasProduct
<1>7. Has(R[0] ** v[0] ++ R[1] ** v[1], U(0) * a[0] + U(1) * a[1],
          (U(0) * b[0] + C(0) * a[0]) + (U(1) * b[1] + C(1) * a[1]))
  BY <1>4, <1>5, HasSum
<1>8. Has(Rotate(q, v)[r], (U(0) * a[0] + U(1) * a[1]) + U(2) * a[2],
          (U(0) * b[0] + C(0) * a[0]) + (U(1) * b[1] + C(1) * a[1])
            + (U(2) * b[2] + C(2) * a[2]))
  BY <1>3, <1>6, <1>7, HasSum
<1>9. (U(0) * a[0] + U(1) * a[1]) + U(2) * a[2] \in Int
  BY <1>8, HasParts
<1> QED
  BY <1>8, <1>9 DEF RotateChange, U, C

\* An entry of the rotation matrix in the form that scales with the norm.
RotationEntry(s, r, k) ==
    IF r = k THEN 2 * (s[0] * s[0] + s[r + 1] * s[r + 1])
                    - (s[0] * s[0] + s[1] * s[1] + s[2] * s[2] + s[3] * s[3])
             ELSE UnitEntry(s, r, k)

\* A vector in the world frame, in that form.
World(s, m, r) ==
    RotationEntry(s, r, 0) * m[0] + RotationEntry(s, r, 1) * m[1] + RotationEntry(s, r, 2) * m[2]

\* How it changes when the attitude turns about axis j.
TurnOf(s, m, r, j) ==
    CASE r = j -> 0
      [] <<r, j>> \in {<<0, 1>>, <<1, 2>>, <<2, 0>>} -> World(s, m, 3 - r - j)
      [] OTHER -> 0 - World(s, m, 3 - r - j)

\* How the numbers of the quaternion change when it turns about axis j.
TurnAbout(s, j) ==
    CASE j = 0 -> [i \in 0 .. 3 |-> CASE i = 0 -> 0 - s[1] [] i = 1 -> s[0]
                                      [] i = 2 -> 0 - s[3] [] i = 3 -> s[2]]
      [] j = 1 -> [i \in 0 .. 3 |-> CASE i = 0 -> 0 - s[2] [] i = 1 -> s[3]
                                      [] i = 2 -> s[0] [] i = 3 -> 0 - s[1]]
      [] j = 2 -> [i \in 0 .. 3 |-> CASE i = 0 -> 0 - s[3] [] i = 1 -> 0 - s[2]
                                      [] i = 2 -> s[1] [] i = 3 -> s[0]]

\* Four integers.
IsQuaternion(s) == s[0] \in Int /\ s[1] \in Int /\ s[2] \in Int /\ s[3] \in Int

\* The rotation of a fixed vector changes with the quaternion as the cross
\* product with the rotated vector says.
LEMMA TurnIs ==
    ASSUME NEW s, IsQuaternion(s), NEW m \in [0 .. 2 -> Int], NEW r \in 0 .. 2, NEW j \in 0 .. 2
    PROVE  UnitChange(s, TurnAbout(s, j), r, 0) * m[0] + UnitChange(s, TurnAbout(s, j), r, 1) * m[1]
             + UnitChange(s, TurnAbout(s, j), r, 2) * m[2] = 2 * TurnOf(s, m, r, j)
<1>1. PICK a \in Int, b \in Int, c \in Int, e \in Int :
         a = s[0] /\ b = s[1] /\ c = s[2] /\ e = s[3]
  BY DEF IsQuaternion
<1>2. PICK u \in Int, v \in Int, w \in Int : u = m[0] /\ v = m[1] /\ w = m[2]
  OBVIOUS
<1>3. CASE j = 0
  <2> DEFINE d == TurnAbout(s, 0)
  <2>1. d[0] = (0 - b) /\ d[1] = a /\ d[2] = (0 - e) /\ d[3] = c
    BY <1>1 DEF TurnAbout
  <2> HIDE DEF d
  <2>2. CASE r = 0
    <3>1. UnitChange(s, d, 0, 0)
            = 0 - 4 * ((b * a + c * (0 - e) + e * c) - b * a)
      BY <1>1, <2>1 DEF UnitChange
    <3>2. UnitChange(s, d, 0, 1)
            = 2 * (b * (0 - e) + c * a) + (0 - 2 * (a * c + e * (0 - b)))
      BY <1>1, <2>1 DEF UnitChange
    <3>3. UnitChange(s, d, 0, 2)
            = 2 * (b * c + e * a) + (2 * (a * (0 - e) + c * (0 - b)))
      BY <1>1, <2>1 DEF UnitChange
    <3>4. TurnOf(s, m, 0, 0) = 0
      BY DEF TurnOf
    <3>5. (0 - 4 * ((b * a + c * (0 - e) + e * c) - b * a)) * u + (2 * (b * (0 - e) + c * a) + (0 - 2 * (a * c + e * (0 - b)))) * v + (2 * (b * c + e * a) + (2 * (a * (0 - e) + c * (0 - b)))) * w
            = 2 * (0)
      OBVIOUS
    <3> QED
      BY <1>2, <1>3, <2>2, <3>1, <3>2, <3>3, <3>4, <3>5 DEF d
  <2>3. CASE r = 1
    <3>1. UnitChange(s, d, 1, 0)
            = 2 * (c * a + b * (0 - e)) + (2 * (a * c + e * (0 - b)))
      BY <1>1, <2>1 DEF UnitChange
    <3>2. UnitChange(s, d, 1, 1)
            = 0 - 4 * ((b * a + c * (0 - e) + e * c) - c * (0 - e))
      BY <1>1, <2>1 DEF UnitChange
    <3>3. UnitChange(s, d, 1, 2)
            = 2 * (c * c + e * (0 - e)) + (0 - 2 * (a * a + b * (0 - b)))
      BY <1>1, <2>1 DEF UnitChange
    <3>4. TurnOf(s, m, 1, 0) = 0 - World(s, m, 2)
      BY DEF TurnOf
    <3>5. World(s, m, 2)
            = (2 * e * b + -(2 * a * c)) * u + (2 * e * c + 2 * a * b) * v + (2 * (a * a + e * e) - (a * a + b * b + c * c + e * e)) * w
      BY <1>1, <1>2 DEF World, RotationEntry, UnitEntry
    <3>6. TurnOf(s, m, 1, 0)
            = 0 - ((2 * e * b + -(2 * a * c)) * u + (2 * e * c + 2 * a * b) * v + (2 * (a * a + e * e) - (a * a + b * b + c * c + e * e)) * w)
      BY <3>4, <3>5
    <3>7. (2 * (c * a + b * (0 - e)) + (2 * (a * c + e * (0 - b)))) * u + (0 - 4 * ((b * a + c * (0 - e) + e * c) - c * (0 - e))) * v + (2 * (c * c + e * (0 - e)) + (0 - 2 * (a * a + b * (0 - b)))) * w
            = 2 * (0 - ((2 * e * b + -(2 * a * c)) * u + (2 * e * c + 2 * a * b) * v + (2 * (a * a + e * e) - (a * a + b * b + c * c + e * e)) * w))
      OBVIOUS
    <3> QED
      BY <1>2, <1>3, <2>3, <3>1, <3>2, <3>3, <3>6, <3>7 DEF d
  <2>4. CASE r = 2
    <3>1. UnitChange(s, d, 2, 0)
            = 2 * (e * a + b * c) + (0 - 2 * (a * (0 - e) + c * (0 - b)))
      BY <1>1, <2>1 DEF UnitChange
    <3>2. UnitChange(s, d, 2, 1)
            = 2 * (e * (0 - e) + c * c) + (2 * (a * a + b * (0 - b)))
      BY <1>1, <2>1 DEF UnitChange
    <3>3. UnitChange(s, d, 2, 2)
            = 0 - 4 * ((b * a + c * (0 - e) + e * c) - e * c)
      BY <1>1, <2>1 DEF UnitChange
    <3>4. TurnOf(s, m, 2, 0) = World(s, m, 1)
      BY DEF TurnOf
    <3>5. World(s, m, 1)
            = (2 * c * b + 2 * a * e) * u + (2 * (a * a + c * c) - (a * a + b * b + c * c + e * e)) * v + (2 * c * e + -(2 * a * b)) * w
      BY <1>1, <1>2 DEF World, RotationEntry, UnitEntry
    <3>6. TurnOf(s, m, 2, 0)
            = (2 * c * b + 2 * a * e) * u + (2 * (a * a + c * c) - (a * a + b * b + c * c + e * e)) * v + (2 * c * e + -(2 * a * b)) * w
      BY <3>4, <3>5
    <3>7. (2 * (e * a + b * c) + (0 - 2 * (a * (0 - e) + c * (0 - b)))) * u + (2 * (e * (0 - e) + c * c) + (2 * (a * a + b * (0 - b)))) * v + (0 - 4 * ((b * a + c * (0 - e) + e * c) - e * c)) * w
            = 2 * ((2 * c * b + 2 * a * e) * u + (2 * (a * a + c * c) - (a * a + b * b + c * c + e * e)) * v + (2 * c * e + -(2 * a * b)) * w)
      OBVIOUS
    <3> QED
      BY <1>2, <1>3, <2>4, <3>1, <3>2, <3>3, <3>6, <3>7 DEF d
  <2> QED
    BY <2>2, <2>3, <2>4
<1>4. CASE j = 1
  <2> DEFINE d == TurnAbout(s, 1)
  <2>1. d[0] = (0 - c) /\ d[1] = e /\ d[2] = a /\ d[3] = (0 - b)
    BY <1>1 DEF TurnAbout
  <2> HIDE DEF d
  <2>2. CASE r = 0
    <3>1. UnitChange(s, d, 0, 0)
            = 0 - 4 * ((b * e + c * a + e * (0 - b)) - b * e)
      BY <1>1, <2>1 DEF UnitChange
    <3>2. UnitChange(s, d, 0, 1)
            = 2 * (b * a + c * e) + (0 - 2 * (a * (0 - b) + e * (0 - c)))
      BY <1>1, <2>1 DEF UnitChange
    <3>3. UnitChange(s, d, 0, 2)
            = 2 * (b * (0 - b) + e * e) + (2 * (a * a + c * (0 - c)))
      BY <1>1, <2>1 DEF UnitChange
    <3>4. TurnOf(s, m, 0, 1) = World(s, m, 2)
      BY DEF TurnOf
    <3>5. World(s, m, 2)
            = (2 * e * b + -(2 * a * c)) * u + (2 * e * c + 2 * a * b) * v + (2 * (a * a + e * e) - (a * a + b * b + c * c + e * e)) * w
      BY <1>1, <1>2 DEF World, RotationEntry, UnitEntry
    <3>6. TurnOf(s, m, 0, 1)
            = (2 * e * b + -(2 * a * c)) * u + (2 * e * c + 2 * a * b) * v + (2 * (a * a + e * e) - (a * a + b * b + c * c + e * e)) * w
      BY <3>4, <3>5
    <3>7. (0 - 4 * ((b * e + c * a + e * (0 - b)) - b * e)) * u + (2 * (b * a + c * e) + (0 - 2 * (a * (0 - b) + e * (0 - c)))) * v + (2 * (b * (0 - b) + e * e) + (2 * (a * a + c * (0 - c)))) * w
            = 2 * ((2 * e * b + -(2 * a * c)) * u + (2 * e * c + 2 * a * b) * v + (2 * (a * a + e * e) - (a * a + b * b + c * c + e * e)) * w)
      OBVIOUS
    <3> QED
      BY <1>2, <1>4, <2>2, <3>1, <3>2, <3>3, <3>6, <3>7 DEF d
  <2>3. CASE r = 1
    <3>1. UnitChange(s, d, 1, 0)
            = 2 * (c * e + b * a) + (2 * (a * (0 - b) + e * (0 - c)))
      BY <1>1, <2>1 DEF UnitChange
    <3>2. UnitChange(s, d, 1, 1)
            = 0 - 4 * ((b * e + c * a + e * (0 - b)) - c * a)
      BY <1>1, <2>1 DEF UnitChange
    <3>3. UnitChange(s, d, 1, 2)
            = 2 * (c * (0 - b) + e * a) + (0 - 2 * (a * e + b * (0 - c)))
      BY <1>1, <2>1 DEF UnitChange
    <3>4. TurnOf(s, m, 1, 1) = 0
      BY DEF TurnOf
    <3>5. (2 * (c * e + b * a) + (2 * (a * (0 - b) + e * (0 - c)))) * u + (0 - 4 * ((b * e + c * a + e * (0 - b)) - c * a)) * v + (2 * (c * (0 - b) + e * a) + (0 - 2 * (a * e + b * (0 - c)))) * w
            = 2 * (0)
      OBVIOUS
    <3> QED
      BY <1>2, <1>4, <2>3, <3>1, <3>2, <3>3, <3>4, <3>5 DEF d
  <2>4. CASE r = 2
    <3>1. UnitChange(s, d, 2, 0)
            = 2 * (e * e + b * (0 - b)) + (0 - 2 * (a * a + c * (0 - c)))
      BY <1>1, <2>1 DEF UnitChange
    <3>2. UnitChange(s, d, 2, 1)
            = 2 * (e * a + c * (0 - b)) + (2 * (a * e + b * (0 - c)))
      BY <1>1, <2>1 DEF UnitChange
    <3>3. UnitChange(s, d, 2, 2)
            = 0 - 4 * ((b * e + c * a + e * (0 - b)) - e * (0 - b))
      BY <1>1, <2>1 DEF UnitChange
    <3>4. TurnOf(s, m, 2, 1) = 0 - World(s, m, 0)
      BY DEF TurnOf
    <3>5. World(s, m, 0)
            = (2 * (a * a + b * b) - (a * a + b * b + c * c + e * e)) * u + (2 * b * c + -(2 * a * e)) * v + (2 * b * e + 2 * a * c) * w
      BY <1>1, <1>2 DEF World, RotationEntry, UnitEntry
    <3>6. TurnOf(s, m, 2, 1)
            = 0 - ((2 * (a * a + b * b) - (a * a + b * b + c * c + e * e)) * u + (2 * b * c + -(2 * a * e)) * v + (2 * b * e + 2 * a * c) * w)
      BY <3>4, <3>5
    <3>7. (2 * (e * e + b * (0 - b)) + (0 - 2 * (a * a + c * (0 - c)))) * u + (2 * (e * a + c * (0 - b)) + (2 * (a * e + b * (0 - c)))) * v + (0 - 4 * ((b * e + c * a + e * (0 - b)) - e * (0 - b))) * w
            = 2 * (0 - ((2 * (a * a + b * b) - (a * a + b * b + c * c + e * e)) * u + (2 * b * c + -(2 * a * e)) * v + (2 * b * e + 2 * a * c) * w))
      OBVIOUS
    <3> QED
      BY <1>2, <1>4, <2>4, <3>1, <3>2, <3>3, <3>6, <3>7 DEF d
  <2> QED
    BY <2>2, <2>3, <2>4
<1>5. CASE j = 2
  <2> DEFINE d == TurnAbout(s, 2)
  <2>1. d[0] = (0 - e) /\ d[1] = (0 - c) /\ d[2] = b /\ d[3] = a
    BY <1>1 DEF TurnAbout
  <2> HIDE DEF d
  <2>2. CASE r = 0
    <3>1. UnitChange(s, d, 0, 0)
            = 0 - 4 * ((b * (0 - c) + c * b + e * a) - b * (0 - c))
      BY <1>1, <2>1 DEF UnitChange
    <3>2. UnitChange(s, d, 0, 1)
            = 2 * (b * b + c * (0 - c)) + (0 - 2 * (a * a + e * (0 - e)))
      BY <1>1, <2>1 DEF UnitChange
    <3>3. UnitChange(s, d, 0, 2)
            = 2 * (b * a + e * (0 - c)) + (2 * (a * b + c * (0 - e)))
      BY <1>1, <2>1 DEF UnitChange
    <3>4. TurnOf(s, m, 0, 2) = 0 - World(s, m, 1)
      BY DEF TurnOf
    <3>5. World(s, m, 1)
            = (2 * c * b + 2 * a * e) * u + (2 * (a * a + c * c) - (a * a + b * b + c * c + e * e)) * v + (2 * c * e + -(2 * a * b)) * w
      BY <1>1, <1>2 DEF World, RotationEntry, UnitEntry
    <3>6. TurnOf(s, m, 0, 2)
            = 0 - ((2 * c * b + 2 * a * e) * u + (2 * (a * a + c * c) - (a * a + b * b + c * c + e * e)) * v + (2 * c * e + -(2 * a * b)) * w)
      BY <3>4, <3>5
    <3>7. (0 - 4 * ((b * (0 - c) + c * b + e * a) - b * (0 - c))) * u + (2 * (b * b + c * (0 - c)) + (0 - 2 * (a * a + e * (0 - e)))) * v + (2 * (b * a + e * (0 - c)) + (2 * (a * b + c * (0 - e)))) * w
            = 2 * (0 - ((2 * c * b + 2 * a * e) * u + (2 * (a * a + c * c) - (a * a + b * b + c * c + e * e)) * v + (2 * c * e + -(2 * a * b)) * w))
      OBVIOUS
    <3> QED
      BY <1>2, <1>5, <2>2, <3>1, <3>2, <3>3, <3>6, <3>7 DEF d
  <2>3. CASE r = 1
    <3>1. UnitChange(s, d, 1, 0)
            = 2 * (c * (0 - c) + b * b) + (2 * (a * a + e * (0 - e)))
      BY <1>1, <2>1 DEF UnitChange
    <3>2. UnitChange(s, d, 1, 1)
            = 0 - 4 * ((b * (0 - c) + c * b + e * a) - c * b)
      BY <1>1, <2>1 DEF UnitChange
    <3>3. UnitChange(s, d, 1, 2)
            = 2 * (c * a + e * b) + (0 - 2 * (a * (0 - c) + b * (0 - e)))
      BY <1>1, <2>1 DEF UnitChange
    <3>4. TurnOf(s, m, 1, 2) = World(s, m, 0)
      BY DEF TurnOf
    <3>5. World(s, m, 0)
            = (2 * (a * a + b * b) - (a * a + b * b + c * c + e * e)) * u + (2 * b * c + -(2 * a * e)) * v + (2 * b * e + 2 * a * c) * w
      BY <1>1, <1>2 DEF World, RotationEntry, UnitEntry
    <3>6. TurnOf(s, m, 1, 2)
            = (2 * (a * a + b * b) - (a * a + b * b + c * c + e * e)) * u + (2 * b * c + -(2 * a * e)) * v + (2 * b * e + 2 * a * c) * w
      BY <3>4, <3>5
    <3>7. (2 * (c * (0 - c) + b * b) + (2 * (a * a + e * (0 - e)))) * u + (0 - 4 * ((b * (0 - c) + c * b + e * a) - c * b)) * v + (2 * (c * a + e * b) + (0 - 2 * (a * (0 - c) + b * (0 - e)))) * w
            = 2 * ((2 * (a * a + b * b) - (a * a + b * b + c * c + e * e)) * u + (2 * b * c + -(2 * a * e)) * v + (2 * b * e + 2 * a * c) * w)
      OBVIOUS
    <3> QED
      BY <1>2, <1>5, <2>3, <3>1, <3>2, <3>3, <3>6, <3>7 DEF d
  <2>4. CASE r = 2
    <3>1. UnitChange(s, d, 2, 0)
            = 2 * (e * (0 - c) + b * a) + (0 - 2 * (a * b + c * (0 - e)))
      BY <1>1, <2>1 DEF UnitChange
    <3>2. UnitChange(s, d, 2, 1)
            = 2 * (e * b + c * a) + (2 * (a * (0 - c) + b * (0 - e)))
      BY <1>1, <2>1 DEF UnitChange
    <3>3. UnitChange(s, d, 2, 2)
            = 0 - 4 * ((b * (0 - c) + c * b + e * a) - e * a)
      BY <1>1, <2>1 DEF UnitChange
    <3>4. TurnOf(s, m, 2, 2) = 0
      BY DEF TurnOf
    <3>5. (2 * (e * (0 - c) + b * a) + (0 - 2 * (a * b + c * (0 - e)))) * u + (2 * (e * b + c * a) + (2 * (a * (0 - c) + b * (0 - e)))) * v + (0 - 4 * ((b * (0 - c) + c * b + e * a) - e * a)) * w
            = 2 * (0)
      OBVIOUS
    <3> QED
      BY <1>2, <1>5, <2>4, <3>1, <3>2, <3>3, <3>4, <3>5 DEF d
  <2> QED
    BY <2>2, <2>3, <2>4
<1> QED
  BY <1>3, <1>4, <1>5

(***************************************************************************)
(* Products of quaternions of numbers, part by part                        *)
(***************************************************************************)
\* The product of two quaternions of integers.
Ham(a, b) ==
    [i \in 0 .. 3 |->
        CASE i = 0 -> a[0] * b[0] - ((a[1] * b[1] + a[2] * b[2]) + a[3] * b[3])
          [] i = 1 -> (a[0] * b[1] + a[1] * b[0]) + (a[2] * b[3] - a[3] * b[2])
          [] i = 2 -> (a[0] * b[2] + a[2] * b[0]) + (a[3] * b[1] - a[1] * b[3])
          [] i = 3 -> (a[0] * b[3] + a[3] * b[0]) + (a[1] * b[2] - a[2] * b[1])]

\* Quaternions of integers, and their sum.
Integral == [0 .. 3 -> Int]
Added(a, b) == [i \in 0 .. 3 |-> a[i] + b[i]]

\* A quaternion of numbers is four quaternions of integers, one for each part
\* of its numbers, reduced.
Layers(q, L) ==
    /\ L \in [1 .. 4 -> Integral]
    /\ q.w = Mod([l \in 1 .. 4 |-> L[l][0]]) /\ q.x = Mod([l \in 1 .. 4 |-> L[l][1]])
    /\ q.y = Mod([l \in 1 .. 4 |-> L[l][2]]) /\ q.z = Mod([l \in 1 .. 4 |-> L[l][3]])

\* The parts of a product.
LayerProduct(P, Q) ==
    [l \in 1 .. 4 |->
        CASE l = 1 -> Ham(P[1], Q[1])
          [] l = 2 -> Added(Ham(P[1], Q[2]), Ham(P[2], Q[1]))
          [] l = 3 -> Added(Ham(P[1], Q[3]), Ham(P[3], Q[1]))
          [] l = 4 -> Added(Added(Ham(P[1], Q[4]), Ham(P[4], Q[1])),
                            Added(Ham(P[2], Q[3]), Ham(P[3], Q[2])))]

\* Products and sums of quaternions of integers are such.
LEMMA HamInt ==
    ASSUME NEW a \in Integral, NEW b \in Integral
    PROVE  Ham(a, b) \in Integral /\ Added(a, b) \in Integral
<1>1. \A i \in 0 .. 3 : a[i] \in Int /\ b[i] \in Int
  BY DEF Integral
<1>2. Added(a, b) \in Integral
  BY <1>1 DEF Added, Integral
<1>3. PICK a0 \in Int, a1 \in Int, a2 \in Int, a3 \in Int :
         a0 = a[0] /\ a1 = a[1] /\ a2 = a[2] /\ a3 = a[3]
  BY <1>1
<1>4. PICK b0 \in Int, b1 \in Int, b2 \in Int, b3 \in Int :
         b0 = b[0] /\ b1 = b[1] /\ b2 = b[2] /\ b3 = b[3]
  BY <1>1
<1>5. \A i \in 0 .. 3 : Ham(a, b)[i] \in Int
  <2>1. Ham(a, b)[0] \in Int
    BY <1>3, <1>4 DEF Ham
  <2>2. Ham(a, b)[1] \in Int
    BY <1>3, <1>4 DEF Ham
  <2>3. Ham(a, b)[2] \in Int
    BY <1>3, <1>4 DEF Ham
  <2>4. Ham(a, b)[3] \in Int
    BY <1>3, <1>4 DEF Ham
  <2>5. \A i \in 0 .. 3 : i = 0 \/ i = 1 \/ i = 2 \/ i = 3
    OBVIOUS
  <2> QED
    BY <2>1, <2>2, <2>3, <2>4, <2>5
<1>6. Ham(a, b) = [i \in 0 .. 3 |-> Ham(a, b)[i]]
  BY DEF Ham
<1> QED
  BY <1>2, <1>5, <1>6 DEF Integral

\* The two forms of a member of a product, on four products of numbers.
ImagTerms(f, g, h, k) == [l \in 1 .. 4 |-> (f[l] + g[l]) + (h[l] - k[l])]
RealTerms(f, g, h, k) == [l \in 1 .. 4 |-> f[l] - ((g[l] + h[l]) + k[l])]

\* Reduction commutes with them.
LEMMA FourTerms ==
    ASSUME NEW f \in Dual, NEW g \in Dual, NEW h \in Dual, NEW k \in Dual
    PROVE  /\ (Mod(f) ++ Mod(g)) ++ (Mod(h) -- Mod(k)) = Mod(ImagTerms(f, g, h, k))
           /\ Mod(f) -- ((Mod(g) ++ Mod(h)) ++ Mod(k)) = Mod(RealTerms(f, g, h, k))
<1>1. (f \oplus g) \oplus (h \ominus k) = ImagTerms(f, g, h, k)
  BY DEF \oplus, \ominus, ImagTerms
<1>2. f \ominus ((g \oplus h) \oplus k) = RealTerms(f, g, h, k)
  BY DEF \oplus, \ominus, RealTerms
<1>3. PICK s \in Dual, t \in Dual : s = f \oplus g /\ t = h \ominus k
  BY DualParts
<1>4. Mod(f) ++ Mod(g) = Mod(s) /\ Mod(h) -- Mod(k) = Mod(t) /\ Mod(s) ++ Mod(t) = Mod(s \oplus t)
  BY <1>3, ModHom
<1>5. PICK u \in Dual : u = g \oplus h
  BY DualParts
<1>6. PICK v \in Dual : v = u \oplus k
  BY DualParts
<1>7. /\ Mod(g) ++ Mod(h) = Mod(u) /\ Mod(u) ++ Mod(k) = Mod(v)
      /\ Mod(f) -- Mod(v) = Mod(f \ominus v)
  BY <1>5, <1>6, ModHom
<1> QED
  BY <1>1, <1>2, <1>3, <1>4, <1>5, <1>6, <1>7

\* The member of a product for any quadruples of parts.
LEMMA QuatLayers ==
    ASSUME NEW p, NEW P, Layers(p, P), NEW q, NEW Q, Layers(q, Q)
    PROVE  Layers(QuatTimes(p, q), LayerProduct(P, Q))
<1> DEFINE A(i) == [l \in 1 .. 4 |-> P[l][i]]
           B(i) == [l \in 1 .. 4 |-> Q[l][i]]
           R == LayerProduct(P, Q)
<1>1. \A l \in 1 .. 4 : P[l] \in Integral /\ Q[l] \in Integral
  BY DEF Layers
<1>2. R \in [1 .. 4 -> Integral]
  <2>1. \A a, b \in Integral : Ham(a, b) \in Integral /\ Added(a, b) \in Integral
    BY HamInt
  <2>2. R[1] \in Integral /\ R[2] \in Integral /\ R[3] \in Integral /\ R[4] \in Integral
    BY <1>1, <2>1 DEF LayerProduct
  <2>3. R = [l \in 1 .. 4 |-> R[l]]
    BY DEF LayerProduct
  <2>4. \A l \in 1 .. 4 : l = 1 \/ l = 2 \/ l = 3 \/ l = 4
    OBVIOUS
  <2> HIDE DEF R
  <2> QED
    BY <2>2, <2>3, <2>4
<1>3. \A i \in 0 .. 3 : A(i) \in Dual /\ B(i) \in Dual
  BY <1>1 DEF Integral, Dual
<1>4. /\ p.w = Mod(A(0)) /\ p.x = Mod(A(1)) /\ p.y = Mod(A(2)) /\ p.z = Mod(A(3))
      /\ q.w = Mod(B(0)) /\ q.x = Mod(B(1)) /\ q.y = Mod(B(2)) /\ q.z = Mod(B(3))
  BY DEF Layers
<1>5. \A l \in 1 .. 4, i \in 0 .. 3 : A(i)[l] = P[l][i] /\ B(i)[l] = Q[l][i]
  OBVIOUS
<1> DEFINE T(i, j) == A(i) \otimes B(j)
<1>6. ASSUME NEW i \in 0 .. 3, NEW j \in 0 .. 3
      PROVE  /\ T(i, j) \in Dual /\ Mod(A(i)) ** Mod(B(j)) = Mod(T(i, j))
             /\ T(i, j)[1] = P[1][i] * Q[1][j]
             /\ T(i, j)[2] = P[1][i] * Q[2][j] + P[2][i] * Q[1][j]
             /\ T(i, j)[3] = P[1][i] * Q[3][j] + P[3][i] * Q[1][j]
             /\ T(i, j)[4] = (P[1][i] * Q[4][j] + P[4][i] * Q[1][j])
                               + (P[2][i] * Q[3][j] + P[3][i] * Q[2][j])
  <2>1. PICK f \in Dual, g \in Dual : f = A(i) /\ g = B(j)
    BY <1>3
  <2>2. /\ f[1] = P[1][i] /\ f[2] = P[2][i] /\ f[3] = P[3][i] /\ f[4] = P[4][i]
        /\ g[1] = Q[1][j] /\ g[2] = Q[2][j] /\ g[3] = Q[3][j] /\ g[4] = Q[4][j]
    BY <2>1
  <2> HIDE DEF A, B
  <2>3. /\ f \otimes g \in Dual /\ Mod(f) ** Mod(g) = Mod(f \otimes g)
        /\ (f \otimes g)[1] = f[1] * g[1]
        /\ (f \otimes g)[2] = f[1] * g[2] + f[2] * g[1]
        /\ (f \otimes g)[3] = f[1] * g[3] + f[3] * g[1]
        /\ (f \otimes g)[4] = (f[1] * g[4] + f[4] * g[1]) + (f[2] * g[3] + f[3] * g[2])
    BY ModHom, DualParts
  <2> QED
    BY <2>1, <2>2, <2>3
<1>7. \A l \in 1 .. 4, i \in 0 .. 3 : P[l][i] \in Int /\ Q[l][i] \in Int
  BY <1>1 DEF Integral
<1> HIDE DEF A, B, T
<1>8. QuatTimes(p, q).w = Mod([l \in 1 .. 4 |-> R[l][0]])
  <2>1. QuatTimes(p, q).w = p.w ** q.w -- ((p.x ** q.x ++ p.y ** q.y) ++ p.z ** q.z)
    BY DEF QuatTimes, Inner, Xyz, V3
  <2>2. PICK f \in Dual, g \in Dual, h \in Dual, k \in Dual :
           /\ f = T(0, 0) /\ g = T(1, 1) /\ h = T(2, 2) /\ k = T(3, 3)
           /\ p.w ** q.w = Mod(f)
           /\ p.x ** q.x = Mod(g)
           /\ p.y ** q.y = Mod(h)
           /\ p.z ** q.z = Mod(k)
    BY <1>4, <1>6
  <2>3. QuatTimes(p, q).w = Mod(RealTerms(f, g, h, k))
    BY <2>1, <2>2, FourTerms
  <2>4. R[1][0] = f[1] - ((g[1] + h[1]) + k[1])
    <3>1. R[1][0] = Ham(P[1], Q[1])[0]
      BY DEF LayerProduct, Added
    <3>2. Ham(P[1], Q[1])[0]
            = P[1][0] * Q[1][0] - ((P[1][1] * Q[1][1] + P[1][2] * Q[1][2]) + P[1][3] * Q[1][3])
      BY DEF Ham
    <3>3. /\ f[1] = P[1][0] * Q[1][0]
          /\ g[1] = P[1][1] * Q[1][1]
          /\ h[1] = P[1][2] * Q[1][2]
          /\ k[1] = P[1][3] * Q[1][3]
      BY <1>6, <2>2
    <3> QED
      BY <1>7, <3>1, <3>2, <3>3
  <2>5. R[2][0] = f[2] - ((g[2] + h[2]) + k[2])
    <3>1. R[2][0] = Ham(P[1], Q[2])[0] + Ham(P[2], Q[1])[0]
      BY DEF LayerProduct, Added
    <3>2. Ham(P[1], Q[2])[0]
            = P[1][0] * Q[2][0] - ((P[1][1] * Q[2][1] + P[1][2] * Q[2][2]) + P[1][3] * Q[2][3])
      BY DEF Ham
    <3>3. Ham(P[2], Q[1])[0]
            = P[2][0] * Q[1][0] - ((P[2][1] * Q[1][1] + P[2][2] * Q[1][2]) + P[2][3] * Q[1][3])
      BY DEF Ham
    <3>4. /\ f[2] = P[1][0] * Q[2][0] + P[2][0] * Q[1][0]
          /\ g[2] = P[1][1] * Q[2][1] + P[2][1] * Q[1][1]
          /\ h[2] = P[1][2] * Q[2][2] + P[2][2] * Q[1][2]
          /\ k[2] = P[1][3] * Q[2][3] + P[2][3] * Q[1][3]
      BY <1>6, <2>2
    <3> QED
      BY <1>7, <3>1, <3>2, <3>3, <3>4
  <2>6. R[3][0] = f[3] - ((g[3] + h[3]) + k[3])
    <3>1. R[3][0] = Ham(P[1], Q[3])[0] + Ham(P[3], Q[1])[0]
      BY DEF LayerProduct, Added
    <3>2. Ham(P[1], Q[3])[0]
            = P[1][0] * Q[3][0] - ((P[1][1] * Q[3][1] + P[1][2] * Q[3][2]) + P[1][3] * Q[3][3])
      BY DEF Ham
    <3>3. Ham(P[3], Q[1])[0]
            = P[3][0] * Q[1][0] - ((P[3][1] * Q[1][1] + P[3][2] * Q[1][2]) + P[3][3] * Q[1][3])
      BY DEF Ham
    <3>4. /\ f[3] = P[1][0] * Q[3][0] + P[3][0] * Q[1][0]
          /\ g[3] = P[1][1] * Q[3][1] + P[3][1] * Q[1][1]
          /\ h[3] = P[1][2] * Q[3][2] + P[3][2] * Q[1][2]
          /\ k[3] = P[1][3] * Q[3][3] + P[3][3] * Q[1][3]
      BY <1>6, <2>2
    <3> QED
      BY <1>7, <3>1, <3>2, <3>3, <3>4
  <2>7. R[4][0] = f[4] - ((g[4] + h[4]) + k[4])
    <3>1. R[4][0] = (Ham(P[1], Q[4])[0] + Ham(P[4], Q[1])[0]) + (Ham(P[2], Q[3])[0] + Ham(P[3], Q[2])[0])
      BY DEF LayerProduct, Added
    <3>2. Ham(P[1], Q[4])[0]
            = P[1][0] * Q[4][0] - ((P[1][1] * Q[4][1] + P[1][2] * Q[4][2]) + P[1][3] * Q[4][3])
      BY DEF Ham
    <3>3. Ham(P[4], Q[1])[0]
            = P[4][0] * Q[1][0] - ((P[4][1] * Q[1][1] + P[4][2] * Q[1][2]) + P[4][3] * Q[1][3])
      BY DEF Ham
    <3>4. Ham(P[2], Q[3])[0]
            = P[2][0] * Q[3][0] - ((P[2][1] * Q[3][1] + P[2][2] * Q[3][2]) + P[2][3] * Q[3][3])
      BY DEF Ham
    <3>5. Ham(P[3], Q[2])[0]
            = P[3][0] * Q[2][0] - ((P[3][1] * Q[2][1] + P[3][2] * Q[2][2]) + P[3][3] * Q[2][3])
      BY DEF Ham
    <3>6. /\ f[4] = (P[1][0] * Q[4][0] + P[4][0] * Q[1][0])
                    + (P[2][0] * Q[3][0] + P[3][0] * Q[2][0])
          /\ g[4] = (P[1][1] * Q[4][1] + P[4][1] * Q[1][1])
                    + (P[2][1] * Q[3][1] + P[3][1] * Q[2][1])
          /\ h[4] = (P[1][2] * Q[4][2] + P[4][2] * Q[1][2])
                    + (P[2][2] * Q[3][2] + P[3][2] * Q[2][2])
          /\ k[4] = (P[1][3] * Q[4][3] + P[4][3] * Q[1][3])
                    + (P[2][3] * Q[3][3] + P[3][3] * Q[2][3])
      BY <1>6, <2>2
    <3> QED
      BY <1>7, <3>1, <3>2, <3>3, <3>4, <3>5, <3>6
  <2>8. [l \in 1 .. 4 |-> R[l][0]] = RealTerms(f, g, h, k)
    <3>1. \A l \in 1 .. 4 : l = 1 \/ l = 2 \/ l = 3 \/ l = 4
      OBVIOUS
    <3> HIDE DEF R
    <3> QED
      BY <2>4, <2>5, <2>6, <2>7, <3>1 DEF RealTerms
  <2> QED
    BY <2>3, <2>8
<1>9. QuatTimes(p, q).x = Mod([l \in 1 .. 4 |-> R[l][1]])
  <2>1. QuatTimes(p, q).x = (p.w ** q.x ++ p.x ** q.w) ++ (p.y ** q.z -- p.z ** q.y)
    BY DEF QuatTimes
  <2>2. PICK f \in Dual, g \in Dual, h \in Dual, k \in Dual :
           /\ f = T(0, 1) /\ g = T(1, 0) /\ h = T(2, 3) /\ k = T(3, 2)
           /\ p.w ** q.x = Mod(f)
           /\ p.x ** q.w = Mod(g)
           /\ p.y ** q.z = Mod(h)
           /\ p.z ** q.y = Mod(k)
    BY <1>4, <1>6
  <2>3. QuatTimes(p, q).x = Mod(ImagTerms(f, g, h, k))
    BY <2>1, <2>2, FourTerms
  <2>4. R[1][1] = (f[1] + g[1]) + (h[1] - k[1])
    <3>1. R[1][1] = Ham(P[1], Q[1])[1]
      BY DEF LayerProduct, Added
    <3>2. Ham(P[1], Q[1])[1]
            = (P[1][0] * Q[1][1] + P[1][1] * Q[1][0]) + (P[1][2] * Q[1][3] - P[1][3] * Q[1][2])
      BY DEF Ham
    <3>3. /\ f[1] = P[1][0] * Q[1][1]
          /\ g[1] = P[1][1] * Q[1][0]
          /\ h[1] = P[1][2] * Q[1][3]
          /\ k[1] = P[1][3] * Q[1][2]
      BY <1>6, <2>2
    <3> QED
      BY <1>7, <3>1, <3>2, <3>3
  <2>5. R[2][1] = (f[2] + g[2]) + (h[2] - k[2])
    <3>1. R[2][1] = Ham(P[1], Q[2])[1] + Ham(P[2], Q[1])[1]
      BY DEF LayerProduct, Added
    <3>2. Ham(P[1], Q[2])[1]
            = (P[1][0] * Q[2][1] + P[1][1] * Q[2][0]) + (P[1][2] * Q[2][3] - P[1][3] * Q[2][2])
      BY DEF Ham
    <3>3. Ham(P[2], Q[1])[1]
            = (P[2][0] * Q[1][1] + P[2][1] * Q[1][0]) + (P[2][2] * Q[1][3] - P[2][3] * Q[1][2])
      BY DEF Ham
    <3>4. /\ f[2] = P[1][0] * Q[2][1] + P[2][0] * Q[1][1]
          /\ g[2] = P[1][1] * Q[2][0] + P[2][1] * Q[1][0]
          /\ h[2] = P[1][2] * Q[2][3] + P[2][2] * Q[1][3]
          /\ k[2] = P[1][3] * Q[2][2] + P[2][3] * Q[1][2]
      BY <1>6, <2>2
    <3> QED
      BY <1>7, <3>1, <3>2, <3>3, <3>4
  <2>6. R[3][1] = (f[3] + g[3]) + (h[3] - k[3])
    <3>1. R[3][1] = Ham(P[1], Q[3])[1] + Ham(P[3], Q[1])[1]
      BY DEF LayerProduct, Added
    <3>2. Ham(P[1], Q[3])[1]
            = (P[1][0] * Q[3][1] + P[1][1] * Q[3][0]) + (P[1][2] * Q[3][3] - P[1][3] * Q[3][2])
      BY DEF Ham
    <3>3. Ham(P[3], Q[1])[1]
            = (P[3][0] * Q[1][1] + P[3][1] * Q[1][0]) + (P[3][2] * Q[1][3] - P[3][3] * Q[1][2])
      BY DEF Ham
    <3>4. /\ f[3] = P[1][0] * Q[3][1] + P[3][0] * Q[1][1]
          /\ g[3] = P[1][1] * Q[3][0] + P[3][1] * Q[1][0]
          /\ h[3] = P[1][2] * Q[3][3] + P[3][2] * Q[1][3]
          /\ k[3] = P[1][3] * Q[3][2] + P[3][3] * Q[1][2]
      BY <1>6, <2>2
    <3> QED
      BY <1>7, <3>1, <3>2, <3>3, <3>4
  <2>7. R[4][1] = (f[4] + g[4]) + (h[4] - k[4])
    <3>1. R[4][1] = (Ham(P[1], Q[4])[1] + Ham(P[4], Q[1])[1]) + (Ham(P[2], Q[3])[1] + Ham(P[3], Q[2])[1])
      BY DEF LayerProduct, Added
    <3>2. Ham(P[1], Q[4])[1]
            = (P[1][0] * Q[4][1] + P[1][1] * Q[4][0]) + (P[1][2] * Q[4][3] - P[1][3] * Q[4][2])
      BY DEF Ham
    <3>3. Ham(P[4], Q[1])[1]
            = (P[4][0] * Q[1][1] + P[4][1] * Q[1][0]) + (P[4][2] * Q[1][3] - P[4][3] * Q[1][2])
      BY DEF Ham
    <3>4. Ham(P[2], Q[3])[1]
            = (P[2][0] * Q[3][1] + P[2][1] * Q[3][0]) + (P[2][2] * Q[3][3] - P[2][3] * Q[3][2])
      BY DEF Ham
    <3>5. Ham(P[3], Q[2])[1]
            = (P[3][0] * Q[2][1] + P[3][1] * Q[2][0]) + (P[3][2] * Q[2][3] - P[3][3] * Q[2][2])
      BY DEF Ham
    <3>6. /\ f[4] = (P[1][0] * Q[4][1] + P[4][0] * Q[1][1])
                    + (P[2][0] * Q[3][1] + P[3][0] * Q[2][1])
          /\ g[4] = (P[1][1] * Q[4][0] + P[4][1] * Q[1][0])
                    + (P[2][1] * Q[3][0] + P[3][1] * Q[2][0])
          /\ h[4] = (P[1][2] * Q[4][3] + P[4][2] * Q[1][3])
                    + (P[2][2] * Q[3][3] + P[3][2] * Q[2][3])
          /\ k[4] = (P[1][3] * Q[4][2] + P[4][3] * Q[1][2])
                    + (P[2][3] * Q[3][2] + P[3][3] * Q[2][2])
      BY <1>6, <2>2
    <3> QED
      BY <1>7, <3>1, <3>2, <3>3, <3>4, <3>5, <3>6
  <2>8. [l \in 1 .. 4 |-> R[l][1]] = ImagTerms(f, g, h, k)
    <3>1. \A l \in 1 .. 4 : l = 1 \/ l = 2 \/ l = 3 \/ l = 4
      OBVIOUS
    <3> HIDE DEF R
    <3> QED
      BY <2>4, <2>5, <2>6, <2>7, <3>1 DEF ImagTerms
  <2> QED
    BY <2>3, <2>8
<1>10. QuatTimes(p, q).y = Mod([l \in 1 .. 4 |-> R[l][2]])
  <2>1. QuatTimes(p, q).y = (p.w ** q.y ++ p.y ** q.w) ++ (p.z ** q.x -- p.x ** q.z)
    BY DEF QuatTimes
  <2>2. PICK f \in Dual, g \in Dual, h \in Dual, k \in Dual :
           /\ f = T(0, 2) /\ g = T(2, 0) /\ h = T(3, 1) /\ k = T(1, 3)
           /\ p.w ** q.y = Mod(f)
           /\ p.y ** q.w = Mod(g)
           /\ p.z ** q.x = Mod(h)
           /\ p.x ** q.z = Mod(k)
    BY <1>4, <1>6
  <2>3. QuatTimes(p, q).y = Mod(ImagTerms(f, g, h, k))
    BY <2>1, <2>2, FourTerms
  <2>4. R[1][2] = (f[1] + g[1]) + (h[1] - k[1])
    <3>1. R[1][2] = Ham(P[1], Q[1])[2]
      BY DEF LayerProduct, Added
    <3>2. Ham(P[1], Q[1])[2]
            = (P[1][0] * Q[1][2] + P[1][2] * Q[1][0]) + (P[1][3] * Q[1][1] - P[1][1] * Q[1][3])
      BY DEF Ham
    <3>3. /\ f[1] = P[1][0] * Q[1][2]
          /\ g[1] = P[1][2] * Q[1][0]
          /\ h[1] = P[1][3] * Q[1][1]
          /\ k[1] = P[1][1] * Q[1][3]
      BY <1>6, <2>2
    <3> QED
      BY <1>7, <3>1, <3>2, <3>3
  <2>5. R[2][2] = (f[2] + g[2]) + (h[2] - k[2])
    <3>1. R[2][2] = Ham(P[1], Q[2])[2] + Ham(P[2], Q[1])[2]
      BY DEF LayerProduct, Added
    <3>2. Ham(P[1], Q[2])[2]
            = (P[1][0] * Q[2][2] + P[1][2] * Q[2][0]) + (P[1][3] * Q[2][1] - P[1][1] * Q[2][3])
      BY DEF Ham
    <3>3. Ham(P[2], Q[1])[2]
            = (P[2][0] * Q[1][2] + P[2][2] * Q[1][0]) + (P[2][3] * Q[1][1] - P[2][1] * Q[1][3])
      BY DEF Ham
    <3>4. /\ f[2] = P[1][0] * Q[2][2] + P[2][0] * Q[1][2]
          /\ g[2] = P[1][2] * Q[2][0] + P[2][2] * Q[1][0]
          /\ h[2] = P[1][3] * Q[2][1] + P[2][3] * Q[1][1]
          /\ k[2] = P[1][1] * Q[2][3] + P[2][1] * Q[1][3]
      BY <1>6, <2>2
    <3> QED
      BY <1>7, <3>1, <3>2, <3>3, <3>4
  <2>6. R[3][2] = (f[3] + g[3]) + (h[3] - k[3])
    <3>1. R[3][2] = Ham(P[1], Q[3])[2] + Ham(P[3], Q[1])[2]
      BY DEF LayerProduct, Added
    <3>2. Ham(P[1], Q[3])[2]
            = (P[1][0] * Q[3][2] + P[1][2] * Q[3][0]) + (P[1][3] * Q[3][1] - P[1][1] * Q[3][3])
      BY DEF Ham
    <3>3. Ham(P[3], Q[1])[2]
            = (P[3][0] * Q[1][2] + P[3][2] * Q[1][0]) + (P[3][3] * Q[1][1] - P[3][1] * Q[1][3])
      BY DEF Ham
    <3>4. /\ f[3] = P[1][0] * Q[3][2] + P[3][0] * Q[1][2]
          /\ g[3] = P[1][2] * Q[3][0] + P[3][2] * Q[1][0]
          /\ h[3] = P[1][3] * Q[3][1] + P[3][3] * Q[1][1]
          /\ k[3] = P[1][1] * Q[3][3] + P[3][1] * Q[1][3]
      BY <1>6, <2>2
    <3> QED
      BY <1>7, <3>1, <3>2, <3>3, <3>4
  <2>7. R[4][2] = (f[4] + g[4]) + (h[4] - k[4])
    <3>1. R[4][2] = (Ham(P[1], Q[4])[2] + Ham(P[4], Q[1])[2]) + (Ham(P[2], Q[3])[2] + Ham(P[3], Q[2])[2])
      BY DEF LayerProduct, Added
    <3>2. Ham(P[1], Q[4])[2]
            = (P[1][0] * Q[4][2] + P[1][2] * Q[4][0]) + (P[1][3] * Q[4][1] - P[1][1] * Q[4][3])
      BY DEF Ham
    <3>3. Ham(P[4], Q[1])[2]
            = (P[4][0] * Q[1][2] + P[4][2] * Q[1][0]) + (P[4][3] * Q[1][1] - P[4][1] * Q[1][3])
      BY DEF Ham
    <3>4. Ham(P[2], Q[3])[2]
            = (P[2][0] * Q[3][2] + P[2][2] * Q[3][0]) + (P[2][3] * Q[3][1] - P[2][1] * Q[3][3])
      BY DEF Ham
    <3>5. Ham(P[3], Q[2])[2]
            = (P[3][0] * Q[2][2] + P[3][2] * Q[2][0]) + (P[3][3] * Q[2][1] - P[3][1] * Q[2][3])
      BY DEF Ham
    <3>6. /\ f[4] = (P[1][0] * Q[4][2] + P[4][0] * Q[1][2])
                    + (P[2][0] * Q[3][2] + P[3][0] * Q[2][2])
          /\ g[4] = (P[1][2] * Q[4][0] + P[4][2] * Q[1][0])
                    + (P[2][2] * Q[3][0] + P[3][2] * Q[2][0])
          /\ h[4] = (P[1][3] * Q[4][1] + P[4][3] * Q[1][1])
                    + (P[2][3] * Q[3][1] + P[3][3] * Q[2][1])
          /\ k[4] = (P[1][1] * Q[4][3] + P[4][1] * Q[1][3])
                    + (P[2][1] * Q[3][3] + P[3][1] * Q[2][3])
      BY <1>6, <2>2
    <3> QED
      BY <1>7, <3>1, <3>2, <3>3, <3>4, <3>5, <3>6
  <2>8. [l \in 1 .. 4 |-> R[l][2]] = ImagTerms(f, g, h, k)
    <3>1. \A l \in 1 .. 4 : l = 1 \/ l = 2 \/ l = 3 \/ l = 4
      OBVIOUS
    <3> HIDE DEF R
    <3> QED
      BY <2>4, <2>5, <2>6, <2>7, <3>1 DEF ImagTerms
  <2> QED
    BY <2>3, <2>8
<1>11. QuatTimes(p, q).z = Mod([l \in 1 .. 4 |-> R[l][3]])
  <2>1. QuatTimes(p, q).z = (p.w ** q.z ++ p.z ** q.w) ++ (p.x ** q.y -- p.y ** q.x)
    BY DEF QuatTimes
  <2>2. PICK f \in Dual, g \in Dual, h \in Dual, k \in Dual :
           /\ f = T(0, 3) /\ g = T(3, 0) /\ h = T(1, 2) /\ k = T(2, 1)
           /\ p.w ** q.z = Mod(f)
           /\ p.z ** q.w = Mod(g)
           /\ p.x ** q.y = Mod(h)
           /\ p.y ** q.x = Mod(k)
    BY <1>4, <1>6
  <2>3. QuatTimes(p, q).z = Mod(ImagTerms(f, g, h, k))
    BY <2>1, <2>2, FourTerms
  <2>4. R[1][3] = (f[1] + g[1]) + (h[1] - k[1])
    <3>1. R[1][3] = Ham(P[1], Q[1])[3]
      BY DEF LayerProduct, Added
    <3>2. Ham(P[1], Q[1])[3]
            = (P[1][0] * Q[1][3] + P[1][3] * Q[1][0]) + (P[1][1] * Q[1][2] - P[1][2] * Q[1][1])
      BY DEF Ham
    <3>3. /\ f[1] = P[1][0] * Q[1][3]
          /\ g[1] = P[1][3] * Q[1][0]
          /\ h[1] = P[1][1] * Q[1][2]
          /\ k[1] = P[1][2] * Q[1][1]
      BY <1>6, <2>2
    <3> QED
      BY <1>7, <3>1, <3>2, <3>3
  <2>5. R[2][3] = (f[2] + g[2]) + (h[2] - k[2])
    <3>1. R[2][3] = Ham(P[1], Q[2])[3] + Ham(P[2], Q[1])[3]
      BY DEF LayerProduct, Added
    <3>2. Ham(P[1], Q[2])[3]
            = (P[1][0] * Q[2][3] + P[1][3] * Q[2][0]) + (P[1][1] * Q[2][2] - P[1][2] * Q[2][1])
      BY DEF Ham
    <3>3. Ham(P[2], Q[1])[3]
            = (P[2][0] * Q[1][3] + P[2][3] * Q[1][0]) + (P[2][1] * Q[1][2] - P[2][2] * Q[1][1])
      BY DEF Ham
    <3>4. /\ f[2] = P[1][0] * Q[2][3] + P[2][0] * Q[1][3]
          /\ g[2] = P[1][3] * Q[2][0] + P[2][3] * Q[1][0]
          /\ h[2] = P[1][1] * Q[2][2] + P[2][1] * Q[1][2]
          /\ k[2] = P[1][2] * Q[2][1] + P[2][2] * Q[1][1]
      BY <1>6, <2>2
    <3> QED
      BY <1>7, <3>1, <3>2, <3>3, <3>4
  <2>6. R[3][3] = (f[3] + g[3]) + (h[3] - k[3])
    <3>1. R[3][3] = Ham(P[1], Q[3])[3] + Ham(P[3], Q[1])[3]
      BY DEF LayerProduct, Added
    <3>2. Ham(P[1], Q[3])[3]
            = (P[1][0] * Q[3][3] + P[1][3] * Q[3][0]) + (P[1][1] * Q[3][2] - P[1][2] * Q[3][1])
      BY DEF Ham
    <3>3. Ham(P[3], Q[1])[3]
            = (P[3][0] * Q[1][3] + P[3][3] * Q[1][0]) + (P[3][1] * Q[1][2] - P[3][2] * Q[1][1])
      BY DEF Ham
    <3>4. /\ f[3] = P[1][0] * Q[3][3] + P[3][0] * Q[1][3]
          /\ g[3] = P[1][3] * Q[3][0] + P[3][3] * Q[1][0]
          /\ h[3] = P[1][1] * Q[3][2] + P[3][1] * Q[1][2]
          /\ k[3] = P[1][2] * Q[3][1] + P[3][2] * Q[1][1]
      BY <1>6, <2>2
    <3> QED
      BY <1>7, <3>1, <3>2, <3>3, <3>4
  <2>7. R[4][3] = (f[4] + g[4]) + (h[4] - k[4])
    <3>1. R[4][3] = (Ham(P[1], Q[4])[3] + Ham(P[4], Q[1])[3]) + (Ham(P[2], Q[3])[3] + Ham(P[3], Q[2])[3])
      BY DEF LayerProduct, Added
    <3>2. Ham(P[1], Q[4])[3]
            = (P[1][0] * Q[4][3] + P[1][3] * Q[4][0]) + (P[1][1] * Q[4][2] - P[1][2] * Q[4][1])
      BY DEF Ham
    <3>3. Ham(P[4], Q[1])[3]
            = (P[4][0] * Q[1][3] + P[4][3] * Q[1][0]) + (P[4][1] * Q[1][2] - P[4][2] * Q[1][1])
      BY DEF Ham
    <3>4. Ham(P[2], Q[3])[3]
            = (P[2][0] * Q[3][3] + P[2][3] * Q[3][0]) + (P[2][1] * Q[3][2] - P[2][2] * Q[3][1])
      BY DEF Ham
    <3>5. Ham(P[3], Q[2])[3]
            = (P[3][0] * Q[2][3] + P[3][3] * Q[2][0]) + (P[3][1] * Q[2][2] - P[3][2] * Q[2][1])
      BY DEF Ham
    <3>6. /\ f[4] = (P[1][0] * Q[4][3] + P[4][0] * Q[1][3])
                    + (P[2][0] * Q[3][3] + P[3][0] * Q[2][3])
          /\ g[4] = (P[1][3] * Q[4][0] + P[4][3] * Q[1][0])
                    + (P[2][3] * Q[3][0] + P[3][3] * Q[2][0])
          /\ h[4] = (P[1][1] * Q[4][2] + P[4][1] * Q[1][2])
                    + (P[2][1] * Q[3][2] + P[3][1] * Q[2][2])
          /\ k[4] = (P[1][2] * Q[4][1] + P[4][2] * Q[1][1])
                    + (P[2][2] * Q[3][1] + P[3][2] * Q[2][1])
      BY <1>6, <2>2
    <3> QED
      BY <1>7, <3>1, <3>2, <3>3, <3>4, <3>5, <3>6
  <2>8. [l \in 1 .. 4 |-> R[l][3]] = ImagTerms(f, g, h, k)
    <3>1. \A l \in 1 .. 4 : l = 1 \/ l = 2 \/ l = 3 \/ l = 4
      OBVIOUS
    <3> HIDE DEF R
    <3> QED
      BY <2>4, <2>5, <2>6, <2>7, <3>1 DEF ImagTerms
  <2> QED
    BY <2>3, <2>8
<1> QED
  BY <1>2, <1>8, <1>9, <1>10, <1>11 DEF Layers

\* The quaternions 1 and 0, the conjugate, and the quaternion without real
\* part of a vector.
Unit4     == [i \in 0 .. 3 |-> IF i = 0 THEN 1 ELSE 0]
Zero4     == [i \in 0 .. 3 |-> 0]
Conj4(a)  == [i \in 0 .. 3 |-> IF i = 0 THEN a[0] ELSE 0 - a[i]]
Pure4(v)  == [i \in 0 .. 3 |-> CASE i = 0 -> 0 [] i = 1 -> v[0] [] i = 2 -> v[1] [] i = 3 -> v[2]]

\* They are quaternions of integers, and 1 and 0 are neutral.
LEMMA HamUnits ==
    /\ Unit4 \in Integral /\ Zero4 \in Integral
    /\ \A v \in [0 .. 2 -> Int] : Pure4(v) \in Integral
    /\ \A a \in Integral :
          /\ Conj4(a) \in Integral /\ Ham(a, Unit4) = a
          /\ Ham(a, Zero4) = Zero4 /\ Ham(Zero4, a) = Zero4
          /\ Added(a, Zero4) = a /\ Added(Zero4, a) = a
<1>1. Unit4 \in Integral /\ Zero4 \in Integral
  BY DEF Unit4, Zero4, Integral
<1>2. \A v \in [0 .. 2 -> Int] : Pure4(v) \in Integral
  BY DEF Pure4, Integral
<1>3. ASSUME NEW a \in Integral
      PROVE  /\ Conj4(a) \in Integral /\ Ham(a, Unit4) = a
             /\ Ham(a, Zero4) = Zero4 /\ Ham(Zero4, a) = Zero4
             /\ Added(a, Zero4) = a /\ Added(Zero4, a) = a
  <2>1. \A i \in 0 .. 3 : a[i] \in Int
    BY DEF Integral
  <2>2. a = [i \in 0 .. 3 |-> a[i]]
    BY DEF Integral
  <2>3. \A i \in 0 .. 3 : i = 0 \/ i = 1 \/ i = 2 \/ i = 3
    OBVIOUS
  <2>4. Conj4(a) \in Integral
    BY <2>1 DEF Conj4, Integral
  <2>5. PICK w \in Int, x \in Int, y \in Int, z \in Int :
           w = a[0] /\ x = a[1] /\ y = a[2] /\ z = a[3]
    BY <2>1
  <2>6. Ham(a, Unit4) = a
    <3>1. Unit4[0] = 1 /\ Unit4[1] = 0 /\ Unit4[2] = 0 /\ Unit4[3] = 0
      BY DEF Unit4
    <3>2. /\ Ham(a, Unit4)[0] = w /\ Ham(a, Unit4)[1] = x
          /\ Ham(a, Unit4)[2] = y /\ Ham(a, Unit4)[3] = z
      BY <2>5, <3>1 DEF Ham
    <3>3. Ham(a, Unit4) = [i \in 0 .. 3 |-> Ham(a, Unit4)[i]]
      BY DEF Ham
    <3> QED
      BY <2>2, <2>3, <2>5, <3>2, <3>3
  <2>7. \A i \in 0 .. 3 : Zero4[i] = 0
    BY DEF Zero4
  <2>8. Ham(a, Zero4) = Zero4
    <3>1. /\ Ham(a, Zero4)[0] = 0 /\ Ham(a, Zero4)[1] = 0
          /\ Ham(a, Zero4)[2] = 0 /\ Ham(a, Zero4)[3] = 0
      BY <2>5, <2>7 DEF Ham
    <3>2. Ham(a, Zero4) = [i \in 0 .. 3 |-> Ham(a, Zero4)[i]]
      BY DEF Ham
    <3> QED
      BY <2>3, <3>1, <3>2 DEF Zero4
  <2>9. Ham(Zero4, a) = Zero4
    <3>1. /\ Ham(Zero4, a)[0] = 0 /\ Ham(Zero4, a)[1] = 0
          /\ Ham(Zero4, a)[2] = 0 /\ Ham(Zero4, a)[3] = 0
      BY <2>5, <2>7 DEF Ham
    <3>2. Ham(Zero4, a) = [i \in 0 .. 3 |-> Ham(Zero4, a)[i]]
      BY DEF Ham
    <3> QED
      BY <2>3, <3>1, <3>2 DEF Zero4
  <2>10. Added(a, Zero4) = a /\ Added(Zero4, a) = a
    BY <2>1, <2>2, <2>7 DEF Added
  <2> QED
    BY <2>4, <2>6, <2>8, <2>9, <2>10
<1> QED
  BY <1>1, <1>2, <1>3

\* The product distributes over a sum.
LEMMA HamLinear ==
    ASSUME NEW a \in Integral, NEW b \in Integral, NEW c \in Integral
    PROVE  Ham(Added(a, b), c) = Added(Ham(a, c), Ham(b, c))
<1>1. PICK a0 \in Int, a1 \in Int, a2 \in Int, a3 \in Int :
         a0 = a[0] /\ a1 = a[1] /\ a2 = a[2] /\ a3 = a[3]
  BY DEF Integral
<1>2. PICK b0 \in Int, b1 \in Int, b2 \in Int, b3 \in Int :
         b0 = b[0] /\ b1 = b[1] /\ b2 = b[2] /\ b3 = b[3]
  BY DEF Integral
<1>3. PICK c0 \in Int, c1 \in Int, c2 \in Int, c3 \in Int :
         c0 = c[0] /\ c1 = c[1] /\ c2 = c[2] /\ c3 = c[3]
  BY DEF Integral
<1>4. Ham(Added(a, b), c)[0] = Added(Ham(a, c), Ham(b, c))[0]
  <2>1. Ham(Added(a, b), c)[0]
          = (a0 + b0) * c0 - (((a1 + b1) * c1 + (a2 + b2) * c2) + (a3 + b3) * c3)
    BY <1>1, <1>2, <1>3 DEF Ham, Added
  <2>2. Ham(a, c)[0] = a0 * c0 - ((a1 * c1 + a2 * c2) + a3 * c3)
    BY <1>1, <1>3 DEF Ham
  <2>3. Ham(b, c)[0] = b0 * c0 - ((b1 * c1 + b2 * c2) + b3 * c3)
    BY <1>2, <1>3 DEF Ham
  <2>4. Added(Ham(a, c), Ham(b, c))[0] = Ham(a, c)[0] + Ham(b, c)[0]
    BY DEF Added
  <2> QED
    BY <2>1, <2>2, <2>3, <2>4
<1>5. Ham(Added(a, b), c)[1] = Added(Ham(a, c), Ham(b, c))[1]
  <2>1. Ham(Added(a, b), c)[1]
          = ((a0 + b0) * c1 + (a1 + b1) * c0) + ((a2 + b2) * c3 - (a3 + b3) * c2)
    BY <1>1, <1>2, <1>3 DEF Ham, Added
  <2>2. Ham(a, c)[1] = (a0 * c1 + a1 * c0) + (a2 * c3 - a3 * c2)
    BY <1>1, <1>3 DEF Ham
  <2>3. Ham(b, c)[1] = (b0 * c1 + b1 * c0) + (b2 * c3 - b3 * c2)
    BY <1>2, <1>3 DEF Ham
  <2>4. Added(Ham(a, c), Ham(b, c))[1] = Ham(a, c)[1] + Ham(b, c)[1]
    BY DEF Added
  <2> QED
    BY <2>1, <2>2, <2>3, <2>4
<1>6. Ham(Added(a, b), c)[2] = Added(Ham(a, c), Ham(b, c))[2]
  <2>1. Ham(Added(a, b), c)[2]
          = ((a0 + b0) * c2 + (a2 + b2) * c0) + ((a3 + b3) * c1 - (a1 + b1) * c3)
    BY <1>1, <1>2, <1>3 DEF Ham, Added
  <2>2. Ham(a, c)[2] = (a0 * c2 + a2 * c0) + (a3 * c1 - a1 * c3)
    BY <1>1, <1>3 DEF Ham
  <2>3. Ham(b, c)[2] = (b0 * c2 + b2 * c0) + (b3 * c1 - b1 * c3)
    BY <1>2, <1>3 DEF Ham
  <2>4. Added(Ham(a, c), Ham(b, c))[2] = Ham(a, c)[2] + Ham(b, c)[2]
    BY DEF Added
  <2> QED
    BY <2>1, <2>2, <2>3, <2>4
<1>7. Ham(Added(a, b), c)[3] = Added(Ham(a, c), Ham(b, c))[3]
  <2>1. Ham(Added(a, b), c)[3]
          = ((a0 + b0) * c3 + (a3 + b3) * c0) + ((a1 + b1) * c2 - (a2 + b2) * c1)
    BY <1>1, <1>2, <1>3 DEF Ham, Added
  <2>2. Ham(a, c)[3] = (a0 * c3 + a3 * c0) + (a1 * c2 - a2 * c1)
    BY <1>1, <1>3 DEF Ham
  <2>3. Ham(b, c)[3] = (b0 * c3 + b3 * c0) + (b1 * c2 - b2 * c1)
    BY <1>2, <1>3 DEF Ham
  <2>4. Added(Ham(a, c), Ham(b, c))[3] = Ham(a, c)[3] + Ham(b, c)[3]
    BY DEF Added
  <2> QED
    BY <2>1, <2>2, <2>3, <2>4
<1>8. \A i \in 0 .. 3 : i = 0 \/ i = 1 \/ i = 2 \/ i = 3
  OBVIOUS
<1>9. \A i \in 0 .. 3 : Ham(Added(a, b), c)[i] = Added(Ham(a, c), Ham(b, c))[i]
  BY <1>4, <1>5, <1>6, <1>7, <1>8
<1> QED
  BY <1>9 DEF Ham, Added

\* What the turn of an attitude by a changing angle leaves of its change by
\* the angle that it was turned before: nothing.
LEMMA TurnsCancel ==
    ASSUME NEW a \in Integral, NEW c \in Integral, NEW v \in [0 .. 2 -> Int], NEW i \in 1 .. 3
    PROVE  Ham(Ham(c, Pure4(v)), Conj4(a))[i] + Ham(c, Conj4(Ham(a, Pure4(v))))[i] = 0
<1>1. PICK a0 \in Int, a1 \in Int, a2 \in Int, a3 \in Int :
         a0 = a[0] /\ a1 = a[1] /\ a2 = a[2] /\ a3 = a[3]
  BY DEF Integral
<1>2. PICK c0 \in Int, c1 \in Int, c2 \in Int, c3 \in Int :
         c0 = c[0] /\ c1 = c[1] /\ c2 = c[2] /\ c3 = c[3]
  BY DEF Integral
<1>3. PICK x \in Int, y \in Int, z \in Int : x = v[0] /\ y = v[1] /\ z = v[2]
  OBVIOUS
<1>4. Pure4(v)[0] = 0 /\ Pure4(v)[1] = x /\ Pure4(v)[2] = y /\ Pure4(v)[3] = z
  BY <1>3 DEF Pure4
<1>5. /\ Conj4(a)[0] = a0 /\ Conj4(a)[1] = 0 - a1 /\ Conj4(a)[2] = 0 - a2 /\ Conj4(a)[3] = 0 - a3
  BY <1>1 DEF Conj4
<1>6. PICK p0 \in Int, p1 \in Int, p2 \in Int, p3 \in Int :
         /\ p0 = Ham(c, Pure4(v))[0] /\ p0 = c0 * 0 - ((c1 * x + c2 * y) + c3 * z)
         /\ p1 = Ham(c, Pure4(v))[1] /\ p1 = (c0 * x + c1 * 0) + (c2 * z - c3 * y)
         /\ p2 = Ham(c, Pure4(v))[2] /\ p2 = (c0 * y + c2 * 0) + (c3 * x - c1 * z)
         /\ p3 = Ham(c, Pure4(v))[3] /\ p3 = (c0 * z + c3 * 0) + (c1 * y - c2 * x)
  <2>1. Ham(c, Pure4(v))[0] = c0 * 0 - ((c1 * x + c2 * y) + c3 * z)
    BY <1>2, <1>4 DEF Ham
  <2>2. Ham(c, Pure4(v))[1] = (c0 * x + c1 * 0) + (c2 * z - c3 * y)
    BY <1>2, <1>4 DEF Ham
  <2>3. Ham(c, Pure4(v))[2] = (c0 * y + c2 * 0) + (c3 * x - c1 * z)
    BY <1>2, <1>4 DEF Ham
  <2>4. Ham(c, Pure4(v))[3] = (c0 * z + c3 * 0) + (c1 * y - c2 * x)
    BY <1>2, <1>4 DEF Ham
  <2> QED
    BY <2>1, <2>2, <2>3, <2>4
<1>7. PICK q0 \in Int, q1 \in Int, q2 \in Int, q3 \in Int :
         /\ q0 = Ham(a, Pure4(v))[0] /\ q0 = a0 * 0 - ((a1 * x + a2 * y) + a3 * z)
         /\ q1 = Ham(a, Pure4(v))[1] /\ q1 = (a0 * x + a1 * 0) + (a2 * z - a3 * y)
         /\ q2 = Ham(a, Pure4(v))[2] /\ q2 = (a0 * y + a2 * 0) + (a3 * x - a1 * z)
         /\ q3 = Ham(a, Pure4(v))[3] /\ q3 = (a0 * z + a3 * 0) + (a1 * y - a2 * x)
  <2>1. Ham(a, Pure4(v))[0] = a0 * 0 - ((a1 * x + a2 * y) + a3 * z)
    BY <1>1, <1>4 DEF Ham
  <2>2. Ham(a, Pure4(v))[1] = (a0 * x + a1 * 0) + (a2 * z - a3 * y)
    BY <1>1, <1>4 DEF Ham
  <2>3. Ham(a, Pure4(v))[2] = (a0 * y + a2 * 0) + (a3 * x - a1 * z)
    BY <1>1, <1>4 DEF Ham
  <2>4. Ham(a, Pure4(v))[3] = (a0 * z + a3 * 0) + (a1 * y - a2 * x)
    BY <1>1, <1>4 DEF Ham
  <2> QED
    BY <2>1, <2>2, <2>3, <2>4
<1> DEFINE g == Ham(a, Pure4(v))
<1>8. g[0] = q0 /\ g[1] = q1 /\ g[2] = q2 /\ g[3] = q3
  BY <1>7
<1> HIDE DEF g
<1> DEFINE h == Conj4(g)
<1>9. h[0] = q0 /\ h[1] = 0 - q1 /\ h[2] = 0 - q2 /\ h[3] = 0 - q3
  BY <1>8 DEF Conj4
<1> HIDE DEF h
<1> DEFINE k == Ham(c, Pure4(v))
<1>10. k[0] = p0 /\ k[1] = p1 /\ k[2] = p2 /\ k[3] = p3
  BY <1>6
<1> HIDE DEF k
<1>11. CASE i = 1
  <2>1. Ham(k, Conj4(a))[1] = (p0 * (0 - a1) + p1 * a0) + (p2 * (0 - a3) - p3 * (0 - a2))
    BY <1>5, <1>10 DEF Ham
  <2>2. Ham(c, h)[1] = (c0 * (0 - q1) + c1 * q0) + (c2 * (0 - q3) - c3 * (0 - q2))
    BY <1>2, <1>9 DEF Ham
  <2>3. (((c0 * 0 - ((c1 * x + c2 * y) + c3 * z)) * (0 - a1) + ((c0 * x + c1 * 0) + (c2 * z - c3 * y)) * a0) + (((c0 * y + c2 * 0) + (c3 * x - c1 * z)) * (0 - a3) - ((c0 * z + c3 * 0) + (c1 * y - c2 * x)) * (0 - a2)))
          + ((c0 * (0 - ((a0 * x + a1 * 0) + (a2 * z - a3 * y))) + c1 * (a0 * 0 - ((a1 * x + a2 * y) + a3 * z))) + (c2 * (0 - ((a0 * z + a3 * 0) + (a1 * y - a2 * x))) - c3 * (0 - ((a0 * y + a2 * 0) + (a3 * x - a1 * z))))) = 0
    OBVIOUS
  <2>4. ((p0 * (0 - a1) + p1 * a0) + (p2 * (0 - a3) - p3 * (0 - a2))) + ((c0 * (0 - q1) + c1 * q0) + (c2 * (0 - q3) - c3 * (0 - q2))) = 0
    BY <1>6, <1>7, <2>3
  <2>5. Ham(k, Conj4(a))[i] + Ham(c, h)[i] = 0
    BY <1>11, <2>1, <2>2, <2>4
  <2> QED
    BY <2>5 DEF k, h, g
<1>12. CASE i = 2
  <2>1. Ham(k, Conj4(a))[2] = (p0 * (0 - a2) + p2 * a0) + (p3 * (0 - a1) - p1 * (0 - a3))
    BY <1>5, <1>10 DEF Ham
  <2>2. Ham(c, h)[2] = (c0 * (0 - q2) + c2 * q0) + (c3 * (0 - q1) - c1 * (0 - q3))
    BY <1>2, <1>9 DEF Ham
  <2>3. (((c0 * 0 - ((c1 * x + c2 * y) + c3 * z)) * (0 - a2) + ((c0 * y + c2 * 0) + (c3 * x - c1 * z)) * a0) + (((c0 * z + c3 * 0) + (c1 * y - c2 * x)) * (0 - a1) - ((c0 * x + c1 * 0) + (c2 * z - c3 * y)) * (0 - a3)))
          + ((c0 * (0 - ((a0 * y + a2 * 0) + (a3 * x - a1 * z))) + c2 * (a0 * 0 - ((a1 * x + a2 * y) + a3 * z))) + (c3 * (0 - ((a0 * x + a1 * 0) + (a2 * z - a3 * y))) - c1 * (0 - ((a0 * z + a3 * 0) + (a1 * y - a2 * x))))) = 0
    OBVIOUS
  <2>4. ((p0 * (0 - a2) + p2 * a0) + (p3 * (0 - a1) - p1 * (0 - a3))) + ((c0 * (0 - q2) + c2 * q0) + (c3 * (0 - q1) - c1 * (0 - q3))) = 0
    BY <1>6, <1>7, <2>3
  <2>5. Ham(k, Conj4(a))[i] + Ham(c, h)[i] = 0
    BY <1>12, <2>1, <2>2, <2>4
  <2> QED
    BY <2>5 DEF k, h, g
<1>13. CASE i = 3
  <2>1. Ham(k, Conj4(a))[3] = (p0 * (0 - a3) + p3 * a0) + (p1 * (0 - a2) - p2 * (0 - a1))
    BY <1>5, <1>10 DEF Ham
  <2>2. Ham(c, h)[3] = (c0 * (0 - q3) + c3 * q0) + (c1 * (0 - q2) - c2 * (0 - q1))
    BY <1>2, <1>9 DEF Ham
  <2>3. (((c0 * 0 - ((c1 * x + c2 * y) + c3 * z)) * (0 - a3) + ((c0 * z + c3 * 0) + (c1 * y - c2 * x)) * a0) + (((c0 * x + c1 * 0) + (c2 * z - c3 * y)) * (0 - a2) - ((c0 * y + c2 * 0) + (c3 * x - c1 * z)) * (0 - a1)))
          + ((c0 * (0 - ((a0 * z + a3 * 0) + (a1 * y - a2 * x))) + c3 * (a0 * 0 - ((a1 * x + a2 * y) + a3 * z))) + (c1 * (0 - ((a0 * y + a2 * 0) + (a3 * x - a1 * z))) - c2 * (0 - ((a0 * x + a1 * 0) + (a2 * z - a3 * y))))) = 0
    OBVIOUS
  <2>4. ((p0 * (0 - a3) + p3 * a0) + (p1 * (0 - a2) - p2 * (0 - a1))) + ((c0 * (0 - q3) + c3 * q0) + (c1 * (0 - q2) - c2 * (0 - q1))) = 0
    BY <1>6, <1>7, <2>3
  <2>5. Ham(k, Conj4(a))[i] + Ham(c, h)[i] = 0
    BY <1>13, <2>1, <2>2, <2>4
  <2> QED
    BY <2>5 DEF k, h, g
<1> QED
  BY <1>11, <1>12, <1>13

\* A turn by a vector, seen from the world, is a turn by the rotated vector.
LEMMA TurnFromWorld ==
    ASSUME NEW a \in Integral, NEW v \in [0 .. 2 -> Int], NEW r \in 0 .. 2
    PROVE  Ham(Ham(a, Pure4(v)), Conj4(a))[r + 1] = World(a, v, r)
<1>1. PICK a0 \in Int, a1 \in Int, a2 \in Int, a3 \in Int :
         a0 = a[0] /\ a1 = a[1] /\ a2 = a[2] /\ a3 = a[3]
  BY DEF Integral
<1>2. PICK x \in Int, y \in Int, z \in Int : x = v[0] /\ y = v[1] /\ z = v[2]
  OBVIOUS
<1>3. Pure4(v)[0] = 0 /\ Pure4(v)[1] = x /\ Pure4(v)[2] = y /\ Pure4(v)[3] = z
  BY <1>2 DEF Pure4
<1>4. /\ Conj4(a)[0] = a0 /\ Conj4(a)[1] = 0 - a1 /\ Conj4(a)[2] = 0 - a2 /\ Conj4(a)[3] = 0 - a3
  BY <1>1 DEF Conj4
<1>5. PICK q0 \in Int, q1 \in Int, q2 \in Int, q3 \in Int :
         /\ q0 = Ham(a, Pure4(v))[0] /\ q0 = a0 * 0 - ((a1 * x + a2 * y) + a3 * z)
         /\ q1 = Ham(a, Pure4(v))[1] /\ q1 = (a0 * x + a1 * 0) + (a2 * z - a3 * y)
         /\ q2 = Ham(a, Pure4(v))[2] /\ q2 = (a0 * y + a2 * 0) + (a3 * x - a1 * z)
         /\ q3 = Ham(a, Pure4(v))[3] /\ q3 = (a0 * z + a3 * 0) + (a1 * y - a2 * x)
  <2>1. Ham(a, Pure4(v))[0] = a0 * 0 - ((a1 * x + a2 * y) + a3 * z)
    BY <1>1, <1>3 DEF Ham
  <2>2. Ham(a, Pure4(v))[1] = (a0 * x + a1 * 0) + (a2 * z - a3 * y)
    BY <1>1, <1>3 DEF Ham
  <2>3. Ham(a, Pure4(v))[2] = (a0 * y + a2 * 0) + (a3 * x - a1 * z)
    BY <1>1, <1>3 DEF Ham
  <2>4. Ham(a, Pure4(v))[3] = (a0 * z + a3 * 0) + (a1 * y - a2 * x)
    BY <1>1, <1>3 DEF Ham
  <2> QED
    BY <2>1, <2>2, <2>3, <2>4
<1>6. CASE r = 0
  <2>1. Ham(Ham(a, Pure4(v)), Conj4(a))[1] = (q0 * (0 - a1) + q1 * a0) + (q2 * (0 - a3) - q3 * (0 - a2))
    BY <1>4, <1>5 DEF Ham
  <2>2. World(a, v, 0)
          = (2 * (a0 * a0 + a1 * a1) - (a0 * a0 + a1 * a1 + a2 * a2 + a3 * a3)) * x + (2 * a1 * a2 + -(2 * a0 * a3)) * y + (2 * a1 * a3 + 2 * a0 * a2) * z
    BY <1>1, <1>2 DEF World, RotationEntry, UnitEntry
  <2>3. ((a0 * 0 - ((a1 * x + a2 * y) + a3 * z)) * (0 - a1) + ((a0 * x + a1 * 0) + (a2 * z - a3 * y)) * a0) + (((a0 * y + a2 * 0) + (a3 * x - a1 * z)) * (0 - a3) - ((a0 * z + a3 * 0) + (a1 * y - a2 * x)) * (0 - a2))
          = (2 * (a0 * a0 + a1 * a1) - (a0 * a0 + a1 * a1 + a2 * a2 + a3 * a3)) * x + (2 * a1 * a2 + -(2 * a0 * a3)) * y + (2 * a1 * a3 + 2 * a0 * a2) * z
    OBVIOUS
  <2>4. (q0 * (0 - a1) + q1 * a0) + (q2 * (0 - a3) - q3 * (0 - a2))
          = (2 * (a0 * a0 + a1 * a1) - (a0 * a0 + a1 * a1 + a2 * a2 + a3 * a3)) * x + (2 * a1 * a2 + -(2 * a0 * a3)) * y + (2 * a1 * a3 + 2 * a0 * a2) * z
    BY <1>5, <2>3
  <2> QED
    BY <1>6, <2>1, <2>2, <2>4
<1>7. CASE r = 1
  <2>1. Ham(Ham(a, Pure4(v)), Conj4(a))[2] = (q0 * (0 - a2) + q2 * a0) + (q3 * (0 - a1) - q1 * (0 - a3))
    BY <1>4, <1>5 DEF Ham
  <2>2. World(a, v, 1)
          = (2 * a2 * a1 + 2 * a0 * a3) * x + (2 * (a0 * a0 + a2 * a2) - (a0 * a0 + a1 * a1 + a2 * a2 + a3 * a3)) * y + (2 * a2 * a3 + -(2 * a0 * a1)) * z
    BY <1>1, <1>2 DEF World, RotationEntry, UnitEntry
  <2>3. ((a0 * 0 - ((a1 * x + a2 * y) + a3 * z)) * (0 - a2) + ((a0 * y + a2 * 0) + (a3 * x - a1 * z)) * a0) + (((a0 * z + a3 * 0) + (a1 * y - a2 * x)) * (0 - a1) - ((a0 * x + a1 * 0) + (a2 * z - a3 * y)) * (0 - a3))
          = (2 * a2 * a1 + 2 * a0 * a3) * x + (2 * (a0 * a0 + a2 * a2) - (a0 * a0 + a1 * a1 + a2 * a2 + a3 * a3)) * y + (2 * a2 * a3 + -(2 * a0 * a1)) * z
    OBVIOUS
  <2>4. (q0 * (0 - a2) + q2 * a0) + (q3 * (0 - a1) - q1 * (0 - a3))
          = (2 * a2 * a1 + 2 * a0 * a3) * x + (2 * (a0 * a0 + a2 * a2) - (a0 * a0 + a1 * a1 + a2 * a2 + a3 * a3)) * y + (2 * a2 * a3 + -(2 * a0 * a1)) * z
    BY <1>5, <2>3
  <2> QED
    BY <1>7, <2>1, <2>2, <2>4
<1>8. CASE r = 2
  <2>1. Ham(Ham(a, Pure4(v)), Conj4(a))[3] = (q0 * (0 - a3) + q3 * a0) + (q1 * (0 - a2) - q2 * (0 - a1))
    BY <1>4, <1>5 DEF Ham
  <2>2. World(a, v, 2)
          = (2 * a3 * a1 + -(2 * a0 * a2)) * x + (2 * a3 * a2 + 2 * a0 * a1) * y + (2 * (a0 * a0 + a3 * a3) - (a0 * a0 + a1 * a1 + a2 * a2 + a3 * a3)) * z
    BY <1>1, <1>2 DEF World, RotationEntry, UnitEntry
  <2>3. ((a0 * 0 - ((a1 * x + a2 * y) + a3 * z)) * (0 - a3) + ((a0 * z + a3 * 0) + (a1 * y - a2 * x)) * a0) + (((a0 * x + a1 * 0) + (a2 * z - a3 * y)) * (0 - a2) - ((a0 * y + a2 * 0) + (a3 * x - a1 * z)) * (0 - a1))
          = (2 * a3 * a1 + -(2 * a0 * a2)) * x + (2 * a3 * a2 + 2 * a0 * a1) * y + (2 * (a0 * a0 + a3 * a3) - (a0 * a0 + a1 * a1 + a2 * a2 + a3 * a3)) * z
    OBVIOUS
  <2>4. (q0 * (0 - a3) + q3 * a0) + (q1 * (0 - a2) - q2 * (0 - a1))
          = (2 * a3 * a1 + -(2 * a0 * a2)) * x + (2 * a3 * a2 + 2 * a0 * a1) * y + (2 * (a0 * a0 + a3 * a3) - (a0 * a0 + a1 * a1 + a2 * a2 + a3 * a3)) * z
    BY <1>5, <2>3
  <2> QED
    BY <1>8, <2>1, <2>2, <2>4
<1> QED
  BY <1>6, <1>7, <1>8

\* The turn about axis j, seen from the world: the squared norm times that
\* axis.
LEMMA TurnAboutIs ==
    ASSUME NEW a \in Integral, NEW r \in 0 .. 2, NEW j \in 0 .. 2
    PROVE  /\ TurnAbout(a, j) \in Integral
           /\ Ham(TurnAbout(a, j), Conj4(a))[r + 1]
                = IF r = j THEN a[0] * a[0] + a[1] * a[1] + a[2] * a[2] + a[3] * a[3] ELSE 0
<1>1. PICK a0 \in Int, a1 \in Int, a2 \in Int, a3 \in Int :
         a0 = a[0] /\ a1 = a[1] /\ a2 = a[2] /\ a3 = a[3]
  BY DEF Integral
<1>2. /\ Conj4(a)[0] = a0 /\ Conj4(a)[1] = 0 - a1 /\ Conj4(a)[2] = 0 - a2 /\ Conj4(a)[3] = 0 - a3
  BY <1>1 DEF Conj4
<1>3. CASE j = 0
  <2> DEFINE d == TurnAbout(a, 0)
  <2>1. d[0] = (0 - a1) /\ d[1] = a0 /\ d[2] = (0 - a3) /\ d[3] = a2
    BY <1>1 DEF TurnAbout
  <2>2. d \in Integral
    BY <1>1 DEF TurnAbout, Integral
  <2> HIDE DEF d
  <2>3. Ham(d, Conj4(a))[1] = a0 * a0 + a1 * a1 + a2 * a2 + a3 * a3
    <3>1. Ham(d, Conj4(a))[1] = ((0 - a1) * (0 - a1) + a0 * a0) + ((0 - a3) * (0 - a3) - a2 * (0 - a2))
      BY <1>2, <2>1 DEF Ham
    <3> QED
      BY <3>1
  <2>4. Ham(d, Conj4(a))[2] = 0
    <3>1. Ham(d, Conj4(a))[2] = ((0 - a1) * (0 - a2) + (0 - a3) * a0) + (a2 * (0 - a1) - a0 * (0 - a3))
      BY <1>2, <2>1 DEF Ham
    <3> QED
      BY <3>1
  <2>5. Ham(d, Conj4(a))[3] = 0
    <3>1. Ham(d, Conj4(a))[3] = ((0 - a1) * (0 - a3) + a2 * a0) + (a0 * (0 - a2) - (0 - a3) * (0 - a1))
      BY <1>2, <2>1 DEF Ham
    <3> QED
      BY <3>1
  <2>6. r = 0 \/ r = 1 \/ r = 2
    OBVIOUS
  <2> QED
    BY <1>1, <1>3, <2>2, <2>3, <2>4, <2>5, <2>6 DEF d
<1>4. CASE j = 1
  <2> DEFINE d == TurnAbout(a, 1)
  <2>1. d[0] = (0 - a2) /\ d[1] = a3 /\ d[2] = a0 /\ d[3] = (0 - a1)
    BY <1>1 DEF TurnAbout
  <2>2. d \in Integral
    BY <1>1 DEF TurnAbout, Integral
  <2> HIDE DEF d
  <2>3. Ham(d, Conj4(a))[1] = 0
    <3>1. Ham(d, Conj4(a))[1] = ((0 - a2) * (0 - a1) + a3 * a0) + (a0 * (0 - a3) - (0 - a1) * (0 - a2))
      BY <1>2, <2>1 DEF Ham
    <3> QED
      BY <3>1
  <2>4. Ham(d, Conj4(a))[2] = a0 * a0 + a1 * a1 + a2 * a2 + a3 * a3
    <3>1. Ham(d, Conj4(a))[2] = ((0 - a2) * (0 - a2) + a0 * a0) + ((0 - a1) * (0 - a1) - a3 * (0 - a3))
      BY <1>2, <2>1 DEF Ham
    <3> QED
      BY <3>1
  <2>5. Ham(d, Conj4(a))[3] = 0
    <3>1. Ham(d, Conj4(a))[3] = ((0 - a2) * (0 - a3) + (0 - a1) * a0) + (a3 * (0 - a2) - a0 * (0 - a1))
      BY <1>2, <2>1 DEF Ham
    <3> QED
      BY <3>1
  <2>6. r = 0 \/ r = 1 \/ r = 2
    OBVIOUS
  <2> QED
    BY <1>1, <1>4, <2>2, <2>3, <2>4, <2>5, <2>6 DEF d
<1>5. CASE j = 2
  <2> DEFINE d == TurnAbout(a, 2)
  <2>1. d[0] = (0 - a3) /\ d[1] = (0 - a2) /\ d[2] = a1 /\ d[3] = a0
    BY <1>1 DEF TurnAbout
  <2>2. d \in Integral
    BY <1>1 DEF TurnAbout, Integral
  <2> HIDE DEF d
  <2>3. Ham(d, Conj4(a))[1] = 0
    <3>1. Ham(d, Conj4(a))[1] = ((0 - a3) * (0 - a1) + (0 - a2) * a0) + (a1 * (0 - a3) - a0 * (0 - a2))
      BY <1>2, <2>1 DEF Ham
    <3> QED
      BY <3>1
  <2>4. Ham(d, Conj4(a))[2] = 0
    <3>1. Ham(d, Conj4(a))[2] = ((0 - a3) * (0 - a2) + a1 * a0) + (a0 * (0 - a1) - (0 - a2) * (0 - a3))
      BY <1>2, <2>1 DEF Ham
    <3> QED
      BY <3>1
  <2>5. Ham(d, Conj4(a))[3] = a0 * a0 + a1 * a1 + a2 * a2 + a3 * a3
    <3>1. Ham(d, Conj4(a))[3] = ((0 - a3) * (0 - a3) + a0 * a0) + ((0 - a2) * (0 - a2) - a1 * (0 - a1))
      BY <1>2, <2>1 DEF Ham
    <3> QED
      BY <3>1
  <2>6. r = 0 \/ r = 1 \/ r = 2
    OBVIOUS
  <2> QED
    BY <1>1, <1>5, <2>2, <2>3, <2>4, <2>5, <2>6 DEF d
<1>6. j = 0 \/ j = 1 \/ j = 2
  OBVIOUS
<1> QED
  BY <1>3, <1>4, <1>5, <1>6

(***************************************************************************)
(* The attitude after one step                                             *)
(***************************************************************************)
\* A quaternion of integers a that changes by c, and nothing else.
FlatLayers(a, c) ==
    [l \in 1 .. 4 |-> CASE l = 1 -> a [] l = 2 -> c [] OTHER -> Zero4]

\* The small turn of one step at the angular velocity g that changes by w.
Scaled(n, v) == [k \in 0 .. 2 |-> n * v[k]]
StepLayers(n, g, w) ==
    [l \in 1 .. 4 |->
        CASE l = 1 -> Unit4 [] l = 2 -> Zero4
          [] l = 3 -> Pure4(Scaled(n, g)) [] l = 4 -> Pure4(Scaled(n, w))]

\* A multiple of a vector is a vector.
LEMMA ScaledInt ==
    ASSUME NEW n \in Int, NEW v \in [0 .. 2 -> Int]
    PROVE  /\ Scaled(n, v) \in [0 .. 2 -> Int]
           /\ Scaled(n, v)[0] = n * v[0] /\ Scaled(n, v)[1] = n * v[1] /\ Scaled(n, v)[2] = n * v[2]
  BY DEF Scaled

\* The layers of the conjugate.
LEMMA ConjLayers ==
    ASSUME NEW q, NEW L, Layers(q, L)
    PROVE  Layers(conj(q), [l \in 1 .. 4 |-> Conj4(L[l])])
<1> DEFINE A(i) == [l \in 1 .. 4 |-> L[l][i]]
           C == [l \in 1 .. 4 |-> Conj4(L[l])]
           N == Pair(0, 0) \ominus Pair(1, 0)
<1>1. \A l \in 1 .. 4 : L[l] \in Integral
  BY DEF Layers
<1>2. C \in [1 .. 4 -> Integral]
  BY <1>1, HamUnits
<1>3. \A i \in 0 .. 3 : A(i) \in Dual
  BY <1>1 DEF Integral, Dual
<1>4. q.w = Mod(A(0)) /\ q.x = Mod(A(1)) /\ q.y = Mod(A(2)) /\ q.z = Mod(A(3))
  BY DEF Layers
<1>5. /\ N \in Dual /\ Zero -- One = Mod(N)
      /\ N[1] = -1 /\ N[2] = 0 /\ N[3] = 0 /\ N[4] = 0
  <2>1. /\ Pair(0, 0) \in Dual /\ Pair(1, 0) \in Dual
        /\ Pair(0, 0)[1] = 0 /\ Pair(0, 0)[2] = 0 /\ Pair(0, 0)[3] = 0 /\ Pair(0, 0)[4] = 0
        /\ Pair(1, 0)[1] = 1 /\ Pair(1, 0)[2] = 0 /\ Pair(1, 0)[3] = 0 /\ Pair(1, 0)[4] = 0
    BY PairIs
  <2>2. Zero = Mod(Pair(0, 0)) /\ One = Mod(Pair(1, 0))
    BY ModIsNumber
  <2>3. PICK p \in Dual, q0 \in Dual : p = Pair(0, 0) /\ q0 = Pair(1, 0)
    BY <2>1
  <2>4. /\ p \ominus q0 \in Dual /\ Mod(p) -- Mod(q0) = Mod(p \ominus q0)
        /\ \A i \in 1 .. 4 : (p \ominus q0)[i] = p[i] - q0[i]
    BY ModHom, DualParts
  <2> QED
    BY <2>1, <2>2, <2>3, <2>4
<1> HIDE DEF N
<1>6. ASSUME NEW i \in 1 .. 3
      PROVE  (Zero -- One) ** Mod(A(i)) = Mod([l \in 1 .. 4 |-> C[l][i]])
  <2>1. PICK f \in Dual : f = A(i)
    BY <1>3
  <2>2. \A l \in 1 .. 4 : f[l] = L[l][i]
    BY <2>1
  <2>3. /\ Mod(N) ** Mod(f) = Mod(N \otimes f)
        /\ (N \otimes f)[1] = N[1] * f[1]
        /\ (N \otimes f)[2] = N[1] * f[2] + N[2] * f[1]
        /\ (N \otimes f)[3] = N[1] * f[3] + N[3] * f[1]
        /\ (N \otimes f)[4] = (N[1] * f[4] + N[4] * f[1]) + (N[2] * f[3] + N[3] * f[2])
    BY <1>5, ModHom, DualParts
  <2>4. f[1] \in Int /\ f[2] \in Int /\ f[3] \in Int /\ f[4] \in Int
    BY DualInt
  <2>5. /\ (N \otimes f)[1] = 0 - f[1] /\ (N \otimes f)[2] = 0 - f[2]
        /\ (N \otimes f)[3] = 0 - f[3] /\ (N \otimes f)[4] = 0 - f[4]
    BY <1>5, <2>3, <2>4
  <2>6. \A l \in 1 .. 4 : (N \otimes f)[l] = 0 - f[l]
    <3>1. \A l \in 1 .. 4 : l = 1 \/ l = 2 \/ l = 3 \/ l = 4
      OBVIOUS
    <3> QED
      BY <2>5, <3>1
  <2>7. N \otimes f = [l \in 1 .. 4 |-> (N \otimes f)[l]]
    BY DEF \otimes
  <2>8. \A l \in 1 .. 4 : C[l][i] = 0 - L[l][i]
    BY DEF Conj4
  <2>9. N \otimes f = [l \in 1 .. 4 |-> C[l][i]]
    BY <2>2, <2>6, <2>7, <2>8
  <2> QED
    BY <1>5, <2>1, <2>3, <2>9
<1>7. \A l \in 1 .. 4 : C[l][0] = L[l][0]
  BY DEF Conj4
<1>8. /\ conj(q).w = q.w /\ conj(q).x = (Zero -- One) ** q.x
      /\ conj(q).y = (Zero -- One) ** q.y /\ conj(q).z = (Zero -- One) ** q.z
  BY DEF conj, Quaternion, Times, Xyz, V3
<1>9. conj(q).w = Mod([l \in 1 .. 4 |-> C[l][0]])
  BY <1>4, <1>7, <1>8
<1> HIDE DEF A, C
<1>10. /\ conj(q).x = Mod([l \in 1 .. 4 |-> C[l][1]])
       /\ conj(q).y = Mod([l \in 1 .. 4 |-> C[l][2]])
       /\ conj(q).z = Mod([l \in 1 .. 4 |-> C[l][3]])
  BY <1>4, <1>6, <1>8
<1>11. Layers(conj(q), C)
  BY <1>2, <1>9, <1>10 DEF Layers
<1> QED
  BY <1>11 DEF C

\* A quaternion of numbers has one layer for its values and one for its
\* changes.
LEMMA FlatLayersAre ==
    ASSUME NEW q, NEW a \in Integral, NEW c \in Integral,
           /\ q.w = Number(a[0], c[0]) /\ q.x = Number(a[1], c[1])
           /\ q.y = Number(a[2], c[2]) /\ q.z = Number(a[3], c[3])
    PROVE  Layers(q, FlatLayers(a, c))
<1> DEFINE L == FlatLayers(a, c)
<1>1. L[1] = a /\ L[2] = c /\ L[3] = Zero4 /\ L[4] = Zero4
  BY DEF FlatLayers
<1>2. L \in [1 .. 4 -> Integral]
  BY HamUnits DEF FlatLayers
<1>3. \A i \in 0 .. 3 : Zero4[i] = 0
  BY DEF Zero4
<1> HIDE DEF L
<1>4. ASSUME NEW i \in 0 .. 3
      PROVE  Number(a[i], c[i]) = Mod([l \in 1 .. 4 |-> L[l][i]])
  <2>1. L[1][i] = a[i] /\ L[2][i] = c[i] /\ L[3][i] = 0 /\ L[4][i] = 0
    BY <1>1, <1>3
  <2>2. \A l \in 1 .. 4 : L[l][i] = CASE l = 1 -> a[i] [] l = 2 -> c[i] [] OTHER -> 0
    <3>1. \A l \in 1 .. 4 : l = 1 \/ l = 2 \/ l = 3 \/ l = 4
      OBVIOUS
    <3> QED
      BY <2>1, <3>1
  <2>3. Pair(a[i], c[i]) = [l \in 1 .. 4 |-> L[l][i]]
    BY <2>2 DEF Pair
  <2> QED
    BY <2>3 DEF Number
<1>5. /\ q.w = Mod([l \in 1 .. 4 |-> L[l][0]]) /\ q.x = Mod([l \in 1 .. 4 |-> L[l][1]])
      /\ q.y = Mod([l \in 1 .. 4 |-> L[l][2]]) /\ q.z = Mod([l \in 1 .. 4 |-> L[l][3]])
  BY <1>4
<1>6. Layers(q, L)
  BY <1>2, <1>5 DEF Layers
<1> QED
  BY <1>6 DEF L

\* The small turn of one step, at an angular velocity that changes.
LEMMA StepLayersAre ==
    ASSUME NEW e \in Int, NEW g \in [0 .. 2 -> Int], NEW w \in [0 .. 2 -> Int],
           NEW v, \A k \in 0 .. 2 : v[k] = Number(g[k], w[k])
    PROVE  Layers(Quaternion(Times(Half ** (Lift(e) ** TAU), v), One), StepLayers(HalfInt * e, g, w))
<1> DEFINE n == HalfInt * e
           L == StepLayers(n, g, w)
           T == [l \in 1 .. 4 |-> IF l = 3 THEN 1 ELSE 0]
           H == [l \in 1 .. 4 |-> IF l = 3 THEN n ELSE 0]
           q == Quaternion(Times(Half ** (Lift(e) ** TAU), v), One)
<1>1. HalfInt \in Int /\ Half = Mod(Pair(HalfInt, 0))
  BY HalfIs DEF Number
<1>2. n \in Int
  BY <1>1
<1>3. TAU = Mod(T) /\ T \in Dual /\ T[1] = 0 /\ T[2] = 0 /\ T[3] = 1 /\ T[4] = 0
  <2>1. \A l \in 1 .. 4 : TAU[l] = T[l] % Prime
    BY ModSmall DEF TAU
  <2>2. TAU = [l \in 1 .. 4 |-> TAU[l]]
    BY DEF TAU
  <2> QED
    BY <2>1, <2>2 DEF Mod, Dual
<1>4. H \in Dual /\ H[1] = 0 /\ H[2] = 0 /\ H[3] = n /\ H[4] = 0
  BY <1>2 DEF Dual
<1>5. Half ** (Lift(e) ** TAU) = Mod(H)
  <2>1. /\ Pair(e, 0) \in Dual /\ Pair(e, 0)[1] = e /\ Pair(e, 0)[2] = 0
        /\ Pair(e, 0)[3] = 0 /\ Pair(e, 0)[4] = 0 /\ Lift(e) = Mod(Pair(e, 0))
    BY PairIs, ModIsNumber
  <2>2. /\ Pair(HalfInt, 0) \in Dual /\ Pair(HalfInt, 0)[1] = HalfInt /\ Pair(HalfInt, 0)[2] = 0
        /\ Pair(HalfInt, 0)[3] = 0 /\ Pair(HalfInt, 0)[4] = 0
    BY <1>1, PairIs
  <2>3. PICK p \in Dual, t \in Dual, h \in Dual : p = Pair(e, 0) /\ t = T /\ h = Pair(HalfInt, 0)
    BY <1>3, <2>1, <2>2
  <2>4. PICK r \in Dual : r = p \otimes t
    BY DualParts
  <2>5. Lift(e) ** TAU = Mod(r)
    BY <1>3, <2>1, <2>3, <2>4, ModHom
  <2>6. r[1] = 0 /\ r[2] = 0 /\ r[3] = e /\ r[4] = 0
    <3>1. /\ r[1] = p[1] * t[1]
          /\ r[2] = p[1] * t[2] + p[2] * t[1]
          /\ r[3] = p[1] * t[3] + p[3] * t[1]
          /\ r[4] = (p[1] * t[4] + p[4] * t[1]) + (p[2] * t[3] + p[3] * t[2])
      BY <2>4, DualParts
    <3>2. /\ p[1] = e /\ p[2] = 0 /\ p[3] = 0 /\ p[4] = 0
          /\ t[1] = 0 /\ t[2] = 0 /\ t[3] = 1 /\ t[4] = 0
      BY <1>3, <2>1, <2>3
    <3> QED
      BY <3>1, <3>2
  <2>7. Half ** Mod(r) = Mod(h \otimes r)
    BY <1>1, <2>3, ModHom
  <2>8. /\ (h \otimes r)[1] = 0 /\ (h \otimes r)[2] = 0
        /\ (h \otimes r)[3] = n /\ (h \otimes r)[4] = 0
    <3>1. /\ (h \otimes r)[1] = h[1] * r[1]
          /\ (h \otimes r)[2] = h[1] * r[2] + h[2] * r[1]
          /\ (h \otimes r)[3] = h[1] * r[3] + h[3] * r[1]
          /\ (h \otimes r)[4] = (h[1] * r[4] + h[4] * r[1]) + (h[2] * r[3] + h[3] * r[2])
      BY DualParts
    <3>2. /\ h[1] = HalfInt /\ h[2] = 0 /\ h[3] = 0 /\ h[4] = 0
      BY <2>2, <2>3
    <3> QED
      BY <1>1, <2>6, <3>1, <3>2
  <2>9. h \otimes r = H
    <3>1. h \otimes r = [l \in 1 .. 4 |-> (h \otimes r)[l]]
      BY DEF \otimes
    <3>2. \A l \in 1 .. 4 : l = 1 \/ l = 2 \/ l = 3 \/ l = 4
      OBVIOUS
    <3>3. \A l \in 1 .. 4 : (h \otimes r)[l] = IF l = 3 THEN n ELSE 0
      BY <2>8, <3>2
    <3> QED
      BY <3>1, <3>3
  <2> QED
    BY <2>5, <2>7, <2>9
<1>6. L[1] = Unit4 /\ L[2] = Zero4 /\ L[3] = Pure4(Scaled(n, g)) /\ L[4] = Pure4(Scaled(n, w))
  BY DEF StepLayers
<1>7. L \in [1 .. 4 -> Integral]
  <2>1. Pure4(Scaled(n, g)) \in Integral /\ Pure4(Scaled(n, w)) \in Integral
    BY <1>2, HamUnits, ScaledInt
  <2> QED
    BY <2>1, HamUnits DEF StepLayers
<1> HIDE DEF L, H, T, n
<1>8. ASSUME NEW k \in 0 .. 2
      PROVE  (Half ** (Lift(e) ** TAU)) ** v[k] = Mod([l \in 1 .. 4 |-> L[l][k + 1]])
  <2>1. PICK a \in Int, b \in Int : a = g[k] /\ b = w[k]
    OBVIOUS
  <2>2. /\ Pair(a, b) \in Dual /\ Pair(a, b)[1] = a /\ Pair(a, b)[2] = b
        /\ Pair(a, b)[3] = 0 /\ Pair(a, b)[4] = 0
    BY PairIs
  <2>3. PICK p \in Dual, h \in Dual : p = Pair(a, b) /\ h = H
    BY <1>4, <2>2
  <2>4. v[k] = Mod(p)
    BY <2>1, <2>3 DEF Number
  <2>5. Mod(h) ** Mod(p) = Mod(h \otimes p)
    BY ModHom
  <2>6. /\ (h \otimes p)[1] = 0 /\ (h \otimes p)[2] = 0
        /\ (h \otimes p)[3] = n * a /\ (h \otimes p)[4] = n * b
    <3>1. /\ (h \otimes p)[1] = h[1] * p[1]
          /\ (h \otimes p)[2] = h[1] * p[2] + h[2] * p[1]
          /\ (h \otimes p)[3] = h[1] * p[3] + h[3] * p[1]
          /\ (h \otimes p)[4] = (h[1] * p[4] + h[4] * p[1]) + (h[2] * p[3] + h[3] * p[2])
      BY DualParts
    <3>2. /\ h[1] = 0 /\ h[2] = 0 /\ h[3] = n /\ h[4] = 0
          /\ p[1] = a /\ p[2] = b /\ p[3] = 0 /\ p[4] = 0
      BY <1>4, <2>2, <2>3
    <3> QED
      BY <1>2, <3>1, <3>2
  <2>7. /\ Unit4[k + 1] = 0 /\ Zero4[k + 1] = 0
        /\ Pure4(Scaled(n, g))[k + 1] = n * a /\ Pure4(Scaled(n, w))[k + 1] = n * b
    BY <2>1 DEF Unit4, Zero4, Pure4, Scaled
  <2>8. \A l \in 1 .. 4 : (h \otimes p)[l] = L[l][k + 1]
    <3>1. \A l \in 1 .. 4 : l = 1 \/ l = 2 \/ l = 3 \/ l = 4
      OBVIOUS
    <3> QED
      BY <1>6, <2>6, <2>7, <3>1
  <2>9. h \otimes p = [l \in 1 .. 4 |-> (h \otimes p)[l]]
    BY DEF \otimes
  <2> QED
    BY <1>5, <2>3, <2>4, <2>5, <2>8, <2>9
<1>9. One = Mod([l \in 1 .. 4 |-> L[l][0]])
  <2>1. Unit4[0] = 1 /\ Zero4[0] = 0 /\ Pure4(Scaled(n, g))[0] = 0 /\ Pure4(Scaled(n, w))[0] = 0
    BY DEF Unit4, Zero4, Pure4
  <2>2. \A l \in 1 .. 4 : L[l][0] = CASE l = 1 -> 1 [] l = 2 -> 0 [] OTHER -> 0
    <3>1. \A l \in 1 .. 4 : l = 1 \/ l = 2 \/ l = 3 \/ l = 4
      OBVIOUS
    <3> QED
      BY <1>6, <2>1, <3>1
  <2>3. Pair(1, 0) = [l \in 1 .. 4 |-> L[l][0]]
    BY <2>2 DEF Pair
  <2> QED
    BY <2>3, ModIsNumber
<1>10. /\ q.w = One /\ q.x = (Half ** (Lift(e) ** TAU)) ** v[0]
       /\ q.y = (Half ** (Lift(e) ** TAU)) ** v[1] /\ q.z = (Half ** (Lift(e) ** TAU)) ** v[2]
  BY DEF Quaternion, Times
<1> HIDE DEF q
<1>11. /\ q.x = Mod([l \in 1 .. 4 |-> L[l][1]])
       /\ q.y = Mod([l \in 1 .. 4 |-> L[l][2]]) /\ q.z = Mod([l \in 1 .. 4 |-> L[l][3]])
  <2>1. (Half ** (Lift(e) ** TAU)) ** v[0] = Mod([l \in 1 .. 4 |-> L[l][0 + 1]])
    BY <1>8
  <2>2. (Half ** (Lift(e) ** TAU)) ** v[1] = Mod([l \in 1 .. 4 |-> L[l][1 + 1]])
    BY <1>8
  <2>3. (Half ** (Lift(e) ** TAU)) ** v[2] = Mod([l \in 1 .. 4 |-> L[l][2 + 1]])
    BY <1>8
  <2>4. 0 + 1 = 1 /\ 1 + 1 = 2 /\ 2 + 1 = 3
    OBVIOUS
  <2> QED
    BY <1>10, <2>1, <2>2, <2>3, <2>4
<1>12. Layers(q, L)
  BY <1>7, <1>9, <1>10, <1>11 DEF Layers
<1> QED
  BY <1>12 DEF q, L, n

\* The quaternion of an attitude after one step.
MovedLayers(n, a, c, g, w) ==
    [l \in 1 .. 4 |->
        CASE l = 1 -> a [] l = 2 -> c
          [] l = 3 -> Ham(a, Pure4(Scaled(n, g)))
          [] l = 4 -> Added(Ham(a, Pure4(Scaled(n, w))), Ham(c, Pure4(Scaled(n, g))))]

\* It is the product with the small turn.
LEMMA Propagated ==
    ASSUME NEW n \in Int, NEW a \in Integral, NEW c \in Integral,
           NEW g \in [0 .. 2 -> Int], NEW w \in [0 .. 2 -> Int],
           NEW q, NEW d, Layers(q, FlatLayers(a, c)), Layers(d, StepLayers(n, g, w))
    PROVE  Layers(QuatTimes(q, d), MovedLayers(n, a, c, g, w))
<1> DEFINE P == FlatLayers(a, c)
           Q == StepLayers(n, g, w)
           R == LayerProduct(P, Q)
           M == MovedLayers(n, a, c, g, w)
<1>1. PICK u \in Integral, v \in Integral : u = Pure4(Scaled(n, g)) /\ v = Pure4(Scaled(n, w))
  BY HamUnits, ScaledInt
<1>2. P[1] = a /\ P[2] = c /\ P[3] = Zero4 /\ P[4] = Zero4
  BY DEF FlatLayers
<1>3. Q[1] = Unit4 /\ Q[2] = Zero4 /\ Q[3] = u /\ Q[4] = v
  BY <1>1 DEF StepLayers
<1>4. /\ Ham(a, u) \in Integral /\ Ham(a, v) \in Integral /\ Ham(c, u) \in Integral
      /\ Added(Ham(a, v), Ham(c, u)) \in Integral
  BY HamInt
<1>5. /\ Ham(a, Unit4) = a /\ Ham(c, Unit4) = c /\ Ham(a, Zero4) = Zero4
      /\ Ham(Zero4, Unit4) = Zero4 /\ Ham(c, Zero4) = Zero4 /\ Ham(Zero4, Zero4) = Zero4
      /\ Added(Zero4, c) = c
  BY HamUnits
<1>6. /\ Added(Ham(a, u), Zero4) = Ham(a, u) /\ Added(Ham(a, v), Zero4) = Ham(a, v)
      /\ Added(Ham(c, u), Zero4) = Ham(c, u)
  BY <1>4, HamUnits
<1>7. R[1] = a
  BY <1>2, <1>3, <1>5 DEF LayerProduct
<1>8. R[2] = c
  <2>1. R[2] = Added(Ham(P[1], Q[2]), Ham(P[2], Q[1]))
    BY DEF LayerProduct
  <2> QED
    BY <1>2, <1>3, <1>5, <2>1
<1>9. R[3] = Ham(a, u)
  <2>1. R[3] = Added(Ham(P[1], Q[3]), Ham(P[3], Q[1]))
    BY DEF LayerProduct
  <2> QED
    BY <1>2, <1>3, <1>5, <1>6, <2>1
<1>10. R[4] = Added(Ham(a, v), Ham(c, u))
  <2>1. R[4] = Added(Added(Ham(P[1], Q[4]), Ham(P[4], Q[1])),
                     Added(Ham(P[2], Q[3]), Ham(P[3], Q[2])))
    BY DEF LayerProduct
  <2> QED
    BY <1>2, <1>3, <1>5, <1>6, <2>1
<1>11. M[1] = a /\ M[2] = c /\ M[3] = Ham(a, u) /\ M[4] = Added(Ham(a, v), Ham(c, u))
  BY <1>1 DEF MovedLayers
<1>12. R = M
  <2>1. R = [l \in 1 .. 4 |-> R[l]] /\ M = [l \in 1 .. 4 |-> M[l]]
    BY DEF LayerProduct, MovedLayers
  <2>2. \A l \in 1 .. 4 : l = 1 \/ l = 2 \/ l = 3 \/ l = 4
    OBVIOUS
  <2> HIDE DEF R, M
  <2> QED
    BY <1>7, <1>8, <1>9, <1>10, <1>11, <2>1, <2>2
<1>13. Layers(QuatTimes(q, d), R)
  BY QuatLayers
<1> QED
  BY <1>12, <1>13

\* How the rotation from the nominal to the true attitude changes: by the
\* turn of the attitude, and by the change of the angular velocity, seen from
\* the world.
LEMMA ThetaChange ==
    ASSUME NEW n \in Int, NEW a \in Integral, NEW c \in Integral,
           NEW g \in [0 .. 2 -> Int], NEW w \in [0 .. 2 -> Int], NEW z, z = [k \in 0 .. 2 |-> 0],
           NEW p, NEW q, Layers(p, MovedLayers(n, a, c, g, w)),
           Layers(q, MovedLayers(n, a, Zero4, g, z)), NEW r \in 0 .. 2
    PROVE  Derivative(AtOne(Twice(Xyz(QuatTimes(p, conj(q)))[r])))
             = (2 * (Ham(c, Conj4(a))[r + 1] + World(a, Scaled(n, w), r))) % Prime
<1> DEFINE P == MovedLayers(n, a, c, g, w)
           N == MovedLayers(n, a, Zero4, g, z)
           Q == [l \in 1 .. 4 |-> Conj4(N[l])]
           R == LayerProduct(P, Q)
           t == QuatTimes(p, conj(q))
<1>1. PICK u \in Integral, v \in Integral : u = Pure4(Scaled(n, g)) /\ v = Pure4(Scaled(n, w))
  BY HamUnits, ScaledInt
<1>2. Layers(t, R)
  <2>1. Layers(conj(q), Q)
    BY ConjLayers
  <2> QED
    BY <2>1, QuatLayers
<1>3. PICK au \in Integral, av \in Integral, cu \in Integral :
         au = Ham(a, u) /\ av = Ham(a, v) /\ cu = Ham(c, u)
  BY HamInt
<1>4. P[1] = a /\ P[2] = c /\ P[3] = au /\ P[4] = Added(av, cu)
  BY <1>1, <1>3 DEF MovedLayers
<1>5. N[1] = a /\ N[2] = Zero4 /\ N[3] = au /\ N[4] = Zero4
  <2>1. Scaled(n, z) = z
    BY DEF Scaled
  <2>2. Pure4(z) = Zero4
    BY DEF Pure4, Zero4
  <2>3. N[4] = Added(Ham(a, Zero4), Ham(Zero4, u))
    BY <1>1, <2>1, <2>2 DEF MovedLayers
  <2>4. N[4] = Zero4
    BY <2>3, HamUnits
  <2> QED
    BY <1>1, <1>3, <2>4 DEF MovedLayers
<1>6. Conj4(Zero4) = Zero4
  BY DEF Conj4, Zero4
<1>7. PICK b \in Integral, h \in Integral : b = Conj4(a) /\ h = Conj4(au)
  BY HamUnits
<1>8. Q[1] = b /\ Q[2] = Zero4 /\ Q[3] = h /\ Q[4] = Zero4
  BY <1>5, <1>6, <1>7
<1>9. PICK cb \in Integral, ch \in Integral, vb \in Integral, ub \in Integral :
         cb = Ham(c, b) /\ ch = Ham(c, h) /\ vb = Ham(av, b) /\ ub = Ham(cu, b)
  BY HamInt
<1> HIDE DEF P, N, Q
<1>10. R[2] = cb
  <2>1. R[2] = Added(Ham(P[1], Q[2]), Ham(P[2], Q[1]))
    BY DEF LayerProduct
  <2>2. Ham(a, Zero4) = Zero4 /\ Added(Zero4, cb) = cb
    BY HamUnits
  <2> QED
    BY <1>4, <1>8, <1>9, <2>1, <2>2
<1>11. R[4] = Added(Added(vb, ub), ch)
  <2>1. R[4] = Added(Added(Ham(P[1], Q[4]), Ham(P[4], Q[1])),
                     Added(Ham(P[2], Q[3]), Ham(P[3], Q[2])))
    BY DEF LayerProduct
  <2>2. Ham(Added(av, cu), b) = Added(vb, ub)
    BY <1>9, HamLinear
  <2>3. Added(vb, ub) \in Integral
    BY HamInt
  <2>4. /\ Ham(a, Zero4) = Zero4 /\ Ham(au, Zero4) = Zero4
        /\ Added(Zero4, Added(vb, ub)) = Added(vb, ub) /\ Added(ch, Zero4) = ch
    BY <2>3, HamUnits
  <2> QED
    BY <1>4, <1>8, <1>9, <2>1, <2>2, <2>4
<1>12. R[4][r + 1] = World(a, Scaled(n, w), r)
  <2>1. PICK i \in 1 .. 3 : i = r + 1
    OBVIOUS
  <2>2. PICK e \in Int, f \in Int, k \in Int : e = vb[i] /\ f = ub[i] /\ k = ch[i]
    <3>1. i \in 0 .. 3
      OBVIOUS
    <3> QED
      BY <3>1 DEF Integral
  <2>3. R[4][i] = (e + f) + k
    BY <1>11, <2>2 DEF Added
  <2>4. f + k = 0
    <3>1. Ham(Ham(c, Pure4(Scaled(n, g))), Conj4(a))[i]
            + Ham(c, Conj4(Ham(a, Pure4(Scaled(n, g)))))[i] = 0
      <4>1. PICK s \in [0 .. 2 -> Int] : s = Scaled(n, g)
        BY ScaledInt
      <4>2. Ham(Ham(c, Pure4(s)), Conj4(a))[i] + Ham(c, Conj4(Ham(a, Pure4(s))))[i] = 0
        BY TurnsCancel
      <4> QED
        BY <4>1, <4>2
    <3> QED
      BY <1>1, <1>3, <1>7, <1>9, <2>2, <3>1
  <2>5. e = World(a, Scaled(n, w), r)
    <3>1. Ham(Ham(a, Pure4(Scaled(n, w))), Conj4(a))[r + 1] = World(a, Scaled(n, w), r)
      BY ScaledInt, TurnFromWorld
    <3> QED
      BY <1>1, <1>3, <1>7, <1>9, <2>1, <2>2, <3>1
  <2> QED
    BY <2>1, <2>2, <2>3, <2>4, <2>5
<1>13. R[2][r + 1] = Ham(c, Conj4(a))[r + 1]
  BY <1>7, <1>9, <1>10
<1>14. R[2] \in Integral /\ R[4] \in Integral /\ R[1] \in Integral /\ R[3] \in Integral
  BY <1>2 DEF Layers
<1> HIDE DEF R
<1>15. Xyz(t)[r] = Mod([l \in 1 .. 4 |-> R[l][r + 1]])
  <2>1. /\ t.x = Mod([l \in 1 .. 4 |-> R[l][1]])
        /\ t.y = Mod([l \in 1 .. 4 |-> R[l][2]]) /\ t.z = Mod([l \in 1 .. 4 |-> R[l][3]])
    BY <1>2 DEF Layers
  <2>2. Xyz(t)[0] = t.x /\ Xyz(t)[1] = t.y /\ Xyz(t)[2] = t.z
    BY DEF Xyz, V3
  <2>3. 0 + 1 = 1 /\ 1 + 1 = 2 /\ 2 + 1 = 3 /\ (r = 0 \/ r = 1 \/ r = 2)
    OBVIOUS
  <2> HIDE DEF t
  <2> QED
    BY <2>1, <2>2, <2>3
<1> HIDE DEF t
<1>16. PICK x \in Dual : /\ x = [l \in 1 .. 4 |-> R[l][r + 1]] /\ Xyz(t)[r] = Mod(x)
                         /\ x[2] = R[2][r + 1] /\ x[4] = R[4][r + 1]
  <2>1. \A l \in 1 .. 4 : R[l] \in Integral
    BY <1>2 DEF Layers
  <2>2. [l \in 1 .. 4 |-> R[l][r + 1]] \in Dual
    BY <2>1 DEF Integral, Dual
  <2>3. PICK x \in Dual : x = [l \in 1 .. 4 |-> R[l][r + 1]]
    BY <2>2
  <2>4. x[2] = R[2][r + 1] /\ x[4] = R[4][r + 1]
    BY <2>3
  <2> QED
    BY <1>15, <2>3, <2>4
<1>17. /\ Twice(Mod(x)) = Mod(x \oplus x) /\ x \oplus x \in Dual
       /\ (x \oplus x)[2] = x[2] + x[2] /\ (x \oplus x)[4] = x[4] + x[4]
       /\ x[2] \in Int /\ x[4] \in Int
  <2>1. Twice(Mod(x)) = Mod(x \oplus x)
    BY ModHom DEF Twice
  <2>2. x \oplus x \in Dual /\ \A l \in 1 .. 4 : (x \oplus x)[l] = x[l] + x[l]
    BY DualParts
  <2>3. x[2] \in Int /\ x[4] \in Int
    BY DualInt
  <2> QED
    BY <2>1, <2>2, <2>3
<1>18. Derivative(AtOne(Mod(x \oplus x))) = ((x[2] + x[2]) + (x[4] + x[4])) % Prime
  <2>1. PICK y \in Int, m \in Int : y = x[2] + x[2] /\ m = x[4] + x[4]
    BY <1>17
  <2>2. Derivative(AtOne(Mod(x \oplus x))) = (((x \oplus x)[2] % Prime) + ((x \oplus x)[4] % Prime)) % Prime
    BY DEF Derivative, AtOne, Mod
  <2>3. ((y % Prime) + (m % Prime)) % Prime = (y + m) % Prime
    BY ModBoth
  <2> QED
    BY <1>17, <2>1, <2>2, <2>3
<1>19. (x[2] + x[2]) + (x[4] + x[4]) = 2 * (Ham(c, Conj4(a))[r + 1] + World(a, Scaled(n, w), r))
  <2>1. PICK y \in Int, m \in Int : y = x[2] /\ m = x[4]
    BY <1>17
  <2>2. (y + y) + (m + m) = 2 * (y + m)
    OBVIOUS
  <2>3. y = Ham(c, Conj4(a))[r + 1] /\ m = World(a, Scaled(n, w), r)
    BY <1>12, <1>13, <1>16, <2>1
  <2> QED
    BY <2>1, <2>2, <2>3
<1> QED
  BY <1>16, <1>17, <1>18, <1>19 DEF t

(***************************************************************************)
(* The true state and its inputs, along an error and a noise               *)
(***************************************************************************)
\* The members of an argument that the prediction uses.
IsInput(arg) ==
    /\ IsArgument(arg)
    /\ arg.P \in [0 .. 14 -> [0 .. 14 -> Scalar]]
    /\ arg.accel \in [0 .. 2 -> Int] /\ arg.gyro \in [0 .. 2 -> Int]
    /\ arg.accel_var \in [0 .. 2 -> Int] /\ arg.gyro_var \in Int /\ arg.dt \in Int

\* The arguments of the calls have them.
LEMMA InputsAre == \A arg \in EkfArguments : IsInput(arg)
<1> SUFFICES ASSUME NEW arg \in EkfArguments PROVE IsInput(arg)
  OBVIOUS
<1>1. Scalar \subseteq Int
  BY PrimeAssumption DEF Scalar
<1>2. /\ arg.P \in [0 .. 14 -> [0 .. 14 -> Scalar]]
      /\ arg.accel \in [0 .. 2 -> Scalar] /\ arg.gyro \in [0 .. 2 -> Scalar]
      /\ arg.accel_var \in [0 .. 2 -> Scalar] /\ arg.gyro_var \in Scalar /\ arg.dt \in Scalar
  BY EkfArgumentsAssumption, Layout DEF Axes
<1> HIDE DEF Scalar
<1> QED
  BY <1>1, <1>2, ArgumentsAre DEF IsInput

\* The attitude, the angular velocity and the acceleration of an argument,
\* without the estimated biases.
Quat(arg)  == [i \in 0 .. 3 |-> arg.state[i]]
Gyro(arg)  == [k \in 0 .. 2 |-> arg.gyro[k] - arg.state[10 + k]]
Accel(arg) == [k \in 0 .. 2 |-> arg.accel[k] - arg.state[13 + k]]

\* They are integers.
LEMMA InputsInt ==
    ASSUME NEW arg, IsInput(arg)
    PROVE  /\ \A i \in 0 .. 15 : arg.state[i] \in Int
           /\ Quat(arg) \in Integral
           /\ Gyro(arg) \in [0 .. 2 -> Int] /\ Accel(arg) \in [0 .. 2 -> Int]
<1>1. \A i \in 0 .. 15 : arg.state[i] \in Int
  BY DEF IsInput, IsArgument
<1>2. \A i \in 0 .. 3 : i \in 0 .. 15
  OBVIOUS
<1>3. \A k \in 0 .. 2 : arg.gyro[k] \in Int /\ arg.accel[k] \in Int
  BY DEF IsInput
<1>4. \A k \in 0 .. 2 : 10 + k \in 0 .. 15 /\ 13 + k \in 0 .. 15
  OBVIOUS
<1>5. Quat(arg) \in Integral
  BY <1>1, <1>2 DEF Quat, Integral
<1>6. \A k \in 0 .. 2 : arg.gyro[k] - arg.state[10 + k] \in Int /\ arg.accel[k] - arg.state[13 + k] \in Int
  BY <1>1, <1>3, <1>4
<1> QED
  BY <1>1, <1>5, <1>6 DEF Gyro, Accel

\* An error with the changes c, and a noise with the changes m.
IsAlong(e, n, c, m) ==
    /\ c \in [0 .. 14 -> Int] /\ \A i \in 0 .. 14 : e[i] = Number(0, c[i])
    /\ m \in [0 .. 5 -> Int] /\ \A i \in 0 .. 5 : n[i] = Number(0, m[i])

\* The change of the quaternion.
TurnBy(arg, c) ==
    [i \in 0 .. 3 |->
        LET D == Changes(arg.state, HalfInt * c[0], HalfInt * c[1], HalfInt * c[2])
        IN  CASE i = 0 -> D.w [] i = 1 -> D.x [] i = 2 -> D.y [] i = 3 -> D.z]

\* It is a quaternion of integers.
LEMMA TurnByInt ==
    ASSUME NEW arg, IsInput(arg), NEW c \in [0 .. 14 -> Int]
    PROVE  TurnBy(arg, c) \in Integral
<1>1. PICK a \in Int, b \in Int, d \in Int, e \in Int :
         a = arg.state[0] /\ b = arg.state[1] /\ d = arg.state[2] /\ e = arg.state[3]
  <2>1. \A i \in 0 .. 15 : arg.state[i] \in Int
    BY InputsInt
  <2>2. arg.state[0] \in Int /\ arg.state[1] \in Int /\ arg.state[2] \in Int /\ arg.state[3] \in Int
    BY <2>1
  <2> QED
    BY <2>2
<1>2. PICK k0 \in Int, k1 \in Int, k2 \in Int :
         k0 = HalfInt * c[0] /\ k1 = HalfInt * c[1] /\ k2 = HalfInt * c[2]
  <2>1. \A x \in Int : HalfInt * x \in Int
    BY HalfIs
  <2>2. c[0] \in Int /\ c[1] \in Int /\ c[2] \in Int
    OBVIOUS
  <2> QED
    BY <2>1, <2>2
<1>3. /\ TurnBy(arg, c)[0] = 0 - (k0 * b + k1 * d + k2 * e)
      /\ TurnBy(arg, c)[1] = k0 * a + (k1 * e - k2 * d)
      /\ TurnBy(arg, c)[2] = k1 * a + (k2 * b - k0 * e)
      /\ TurnBy(arg, c)[3] = k2 * a + (k0 * d - k1 * b)
  BY <1>1, <1>2 DEF TurnBy, Changes
<1>4. /\ TurnBy(arg, c)[0] \in Int /\ TurnBy(arg, c)[1] \in Int
      /\ TurnBy(arg, c)[2] \in Int /\ TurnBy(arg, c)[3] \in Int
  BY <1>3
<1>5. \A i \in 0 .. 3 : i = 0 \/ i = 1 \/ i = 2 \/ i = 3
  OBVIOUS
<1>6. \A i \in 0 .. 3 : TurnBy(arg, c)[i] \in Int
  BY <1>4, <1>5
<1>7. TurnBy(arg, c) = [i \in 0 .. 3 |-> TurnBy(arg, c)[i]]
  BY DEF TurnBy
<1> QED
  BY <1>6, <1>7 DEF Integral

\* A quaternion of the numbers a that change by d.
Turning(q, a, d) ==
    /\ q.w = Number(a[0], d[0]) /\ q.x = Number(a[1], d[1])
    /\ q.y = Number(a[2], d[2]) /\ q.z = Number(a[3], d[3])

\* It moves as such, and has these layers.
LEMMA TurningIs ==
    ASSUME NEW q, NEW a \in Integral, NEW d \in Integral, Turning(q, a, d)
    PROVE  Moving(q, a, d) /\ Layers(q, FlatLayers(a, d))
<1>1. Layers(q, FlatLayers(a, d))
  BY FlatLayersAre DEF Turning
<1>2. \A i \in 0 .. 3 : a[i] \in Int /\ d[i] \in Int
  BY DEF Integral
<1>3. \A i \in 0 .. 3 : Has(Number(a[i], d[i]), a[i], d[i])
  BY <1>2, HasNumber
<1>4. Moving(q, a, d)
  BY <1>3 DEF Moving, Turning
<1> QED
  BY <1>1, <1>4

\* The members of the nominal state, as changing numbers that do not change.
LEMMA NominalMembers ==
    ASSUME NEW arg, IsInput(arg)
    PROVE  /\ Turning(Nominal(arg)["quat_nominal"], Quat(arg), Zero4)
           /\ IsAttitude(Nominal(arg)["quat_nominal"], arg.state)
           /\ \A i \in 0 .. 2 :
                 /\ Nominal(arg)["vel"][i] = Number(arg.state[4 + i], 0)
                 /\ Nominal(arg)["pos"][i] = Number(arg.state[7 + i], 0)
                 /\ Nominal(arg)["gyro_bias"][i] = Number(arg.state[10 + i], 0)
                 /\ Nominal(arg)["accel_bias"][i] = Number(arg.state[13 + i], 0)
<1> DEFINE N == Nominal(arg)
           s == arg.state
<1>1. IsArgument(arg) /\ \A i \in 0 .. 15 : s[i] \in Int
  BY InputsInt DEF IsInput
<1>2. N["quat_nominal"] = [w |-> Mod(Pair(s[0], 0)), x |-> Mod(Pair(s[1], 0)),
                           y |-> Mod(Pair(s[2], 0)), z |-> Mod(Pair(s[3], 0))]
  BY <1>1, NominalIs
<1>3. N["vel"] = [i \in 0 .. 2 |-> Mod(Pair(s[4 + i], 0))]
  BY <1>1, NominalIs
<1>4. N["pos"] = [i \in 0 .. 2 |-> Mod(Pair(s[7 + i], 0))]
  BY <1>1, NominalIs
<1>5. N["gyro_bias"] = [i \in 0 .. 2 |-> Mod(Pair(s[10 + i], 0))]
  BY <1>1, NominalIs
<1>6. N["accel_bias"] = [i \in 0 .. 2 |-> Mod(Pair(s[13 + i], 0))]
  BY <1>1, NominalIs
<1>7. /\ Quat(arg)[0] = s[0] /\ Quat(arg)[1] = s[1] /\ Quat(arg)[2] = s[2] /\ Quat(arg)[3] = s[3]
      /\ Zero4[0] = 0 /\ Zero4[1] = 0 /\ Zero4[2] = 0 /\ Zero4[3] = 0
  BY DEF Quat, Zero4
<1> HIDE DEF N, s
<1>8. Turning(N["quat_nominal"], Quat(arg), Zero4)
  BY <1>2, <1>7 DEF Turning, Number
<1>9. IsAttitude(N["quat_nominal"], s)
  BY <1>1, <1>2 DEF IsAttitude, Number
<1>10. \A i \in 0 .. 2 :
          /\ N["vel"][i] = Number(s[4 + i], 0) /\ N["pos"][i] = Number(s[7 + i], 0)
          /\ N["gyro_bias"][i] = Number(s[10 + i], 0) /\ N["accel_bias"][i] = Number(s[13 + i], 0)
  BY <1>3, <1>4, <1>5, <1>6 DEF Number
<1> QED
  BY <1>8, <1>9, <1>10 DEF N, s

\* The true state along an error.
LEMMA TrueMembers ==
    ASSUME NEW arg, IsInput(arg), NEW e, NEW n, NEW c, NEW m, IsAlong(e, n, c, m)
    PROVE  /\ Turning(TrueState(Nominal(arg), ErrorOf(e))["quat_nominal"], Quat(arg), TurnBy(arg, c))
           /\ \A i \in 0 .. 2 :
                 /\ TrueState(Nominal(arg), ErrorOf(e))["vel"][i] = Number(arg.state[4 + i], c[3 + i])
                 /\ TrueState(Nominal(arg), ErrorOf(e))["pos"][i] = Number(arg.state[7 + i], c[6 + i])
                 /\ TrueState(Nominal(arg), ErrorOf(e))["gyro_bias"][i]
                      = Number(arg.state[10 + i], c[9 + i])
                 /\ TrueState(Nominal(arg), ErrorOf(e))["accel_bias"][i]
                      = Number(arg.state[13 + i], c[12 + i])
<1> DEFINE N == Nominal(arg)
           E == ErrorOf(e)
           s == arg.state
           T == TrueState(N, E)
<1>1. \A i \in 0 .. 15 : s[i] \in Int
  BY InputsInt
<1>2. /\ IsAttitude(N["quat_nominal"], s)
      /\ \A i \in 0 .. 2 :
            /\ N["vel"][i] = Number(s[4 + i], 0) /\ N["pos"][i] = Number(s[7 + i], 0)
            /\ N["gyro_bias"][i] = Number(s[10 + i], 0) /\ N["accel_bias"][i] = Number(s[13 + i], 0)
  BY NominalMembers
<1>3. c \in [0 .. 14 -> Int] /\ \A i \in 0 .. 14 : e[i] = Number(0, c[i])
  BY DEF IsAlong
<1>4. \A i \in 0 .. 2 :
         /\ E["quat_nominal"][i] = e[0 + i] /\ E["vel"][i] = e[3 + i] /\ E["pos"][i] = e[6 + i]
         /\ E["gyro_bias"][i] = e[9 + i] /\ E["accel_bias"][i] = e[12 + i]
  BY Layout DEF ErrorOf, Axes
<1>5. \A i \in 0 .. 2 : /\ 0 + i = i /\ i \in 0 .. 14 /\ 3 + i \in 0 .. 14 /\ 6 + i \in 0 .. 14
                        /\ 9 + i \in 0 .. 14 /\ 12 + i \in 0 .. 14
  OBVIOUS
<1>6. \A i \in 0 .. 2 :
         /\ E["quat_nominal"][i] = Number(0, c[i])
         /\ E["vel"][i] = Number(0, c[3 + i]) /\ E["pos"][i] = Number(0, c[6 + i])
         /\ E["gyro_bias"][i] = Number(0, c[9 + i]) /\ E["accel_bias"][i] = Number(0, c[12 + i])
  BY <1>3, <1>4, <1>5
<1>7. \A i \in 0 .. 2 : /\ c[i] \in Int /\ c[3 + i] \in Int /\ c[6 + i] \in Int
                        /\ c[9 + i] \in Int /\ c[12 + i] \in Int
  BY <1>3, <1>5
<1>8. \A i \in 0 .. 2 : /\ s[4 + i] \in Int /\ s[7 + i] \in Int
                        /\ s[10 + i] \in Int /\ s[13 + i] \in Int
  BY <1>1
<1> HIDE DEF E, N, s
<1>9. /\ T["quat_nominal"]
           = QuatTimes(Quaternion(Times(Half, E["quat_nominal"]), One), N["quat_nominal"])
      /\ \A i \in 0 .. 2 :
            /\ T["vel"][i] = N["vel"][i] ++ E["vel"][i] /\ T["pos"][i] = N["pos"][i] ++ E["pos"][i]
            /\ T["gyro_bias"][i] = N["gyro_bias"][i] ++ E["gyro_bias"][i]
            /\ T["accel_bias"][i] = N["accel_bias"][i] ++ E["accel_bias"][i]
  BY Layout DEF TrueState, Plus
<1> HIDE DEF T
<1>10. Turning(T["quat_nominal"], Quat(arg), TurnBy(arg, c))
  <2>1. PICK d0 \in Int, d1 \in Int, d2 \in Int : d0 = c[0] /\ d1 = c[1] /\ d2 = c[2]
    BY <1>3
  <2>2. PICK k0 \in Int, k1 \in Int, k2 \in Int :
           k0 = HalfInt * d0 /\ k1 = HalfInt * d1 /\ k2 = HalfInt * d2
    BY HalfIs
  <2>3. /\ Half ** E["quat_nominal"][0] = Number(0, HalfInt * d0)
        /\ Half ** E["quat_nominal"][1] = Number(0, HalfInt * d1)
        /\ Half ** E["quat_nominal"][2] = Number(0, HalfInt * d2)
    BY <1>6, <2>1, ChangeArith
  <2>4. Quaternion(Times(Half, E["quat_nominal"]), One) = Turn(k0, k1, k2)
    BY <2>2, <2>3 DEF Quaternion, Times, Turn
  <2>5. QuatTimes(Turn(k0, k1, k2), N["quat_nominal"]) = Turned(s, k0, k1, k2)
    BY <1>2, TurnedIs
  <2>6. T["quat_nominal"] = Turned(s, k0, k1, k2)
    BY <1>9, <2>4, <2>5
  <2>7. /\ Quat(arg)[0] = s[0] /\ Quat(arg)[1] = s[1]
        /\ Quat(arg)[2] = s[2] /\ Quat(arg)[3] = s[3]
    BY DEF Quat, s
  <2>8. /\ TurnBy(arg, c)[0] = 0 - (k0 * s[1] + k1 * s[2] + k2 * s[3])
        /\ TurnBy(arg, c)[1] = k0 * s[0] + (k1 * s[3] - k2 * s[2])
        /\ TurnBy(arg, c)[2] = k1 * s[0] + (k2 * s[1] - k0 * s[3])
        /\ TurnBy(arg, c)[3] = k2 * s[0] + (k0 * s[2] - k1 * s[1])
    BY <2>1, <2>2 DEF TurnBy, Changes, s
  <2> QED
    BY <2>6, <2>7, <2>8 DEF Turning, Turned
<1>11. ASSUME NEW a \in Int, NEW b \in Int PROVE Number(a, 0) ++ Number(0, b) = Number(a, b)
  BY ChangeArith
<1>12. \A i \in 0 .. 2 :
          /\ T["vel"][i] = Number(s[4 + i], c[3 + i]) /\ T["pos"][i] = Number(s[7 + i], c[6 + i])
          /\ T["gyro_bias"][i] = Number(s[10 + i], c[9 + i])
          /\ T["accel_bias"][i] = Number(s[13 + i], c[12 + i])
  BY <1>2, <1>6, <1>7, <1>8, <1>9, <1>11
<1>13. /\ Turning(T["quat_nominal"], Quat(arg), TurnBy(arg, c))
       /\ \A i \in 0 .. 2 :
             /\ T["vel"][i] = Number(s[4 + i], c[3 + i]) /\ T["pos"][i] = Number(s[7 + i], c[6 + i])
             /\ T["gyro_bias"][i] = Number(s[10 + i], c[9 + i])
             /\ T["accel_bias"][i] = Number(s[13 + i], c[12 + i])
  BY <1>10, <1>12
<1> QED
  BY <1>13 DEF T, E, N, s

\* The inputs of the kinematics, without the biases and the noise.
TrueAccel(arg, e, n) ==
    Minus(Minus(LiftV3(arg.accel), TrueState(Nominal(arg), ErrorOf(e))["accel_bias"]), NoiseOf(n).accel)
TrueGyro(arg, e, n) ==
    Minus(Minus(LiftV3(arg.gyro), TrueState(Nominal(arg), ErrorOf(e))["gyro_bias"]), NoiseOf(n).gyro)
NominalAccel(arg) == Minus(LiftV3(arg.accel), Nominal(arg)["accel_bias"])
NominalGyro(arg)  == Minus(LiftV3(arg.gyro), Nominal(arg)["gyro_bias"])

\* How they change.
GyroBy(c, m)  == [k \in 0 .. 2 |-> (0 - c[9 + k]) - m[3 + k]]
AccelBy(c, m) == [k \in 0 .. 2 |-> (0 - c[12 + k]) - m[k]]
Still         == [k \in 0 .. 2 |-> 0]

\* A number without a change, less one or two that change.
LEMMA DifferenceOf ==
    ASSUME NEW a \in Int, NEW b \in Int, NEW c \in Int, NEW m \in Int
    PROVE  /\ Lift(a) -- Number(b, c) = Number(a - b, 0 - c)
           /\ (Lift(a) -- Number(b, c)) -- Number(0, m) = Number(a - b, (0 - c) - m)
<1>1. ASSUME NEW w \in Int, NEW x \in Int, NEW y \in Int, NEW z \in Int
      PROVE  Number(w, x) -- Number(y, z) = Number(w - y, x - z)
  <2>1. /\ Pair(w, x) \in Dual /\ Pair(y, z) \in Dual
        /\ Pair(w, x)[1] = w /\ Pair(w, x)[2] = x /\ Pair(w, x)[3] = 0 /\ Pair(w, x)[4] = 0
        /\ Pair(y, z)[1] = y /\ Pair(y, z)[2] = z /\ Pair(y, z)[3] = 0 /\ Pair(y, z)[4] = 0
    BY PairIs
  <2>2. PICK p \in Dual, q \in Dual : p = Pair(w, x) /\ q = Pair(y, z)
    BY <2>1
  <2>3. Mod(p) -- Mod(q) = Mod(p \ominus q) /\ \A i \in 1 .. 4 : (p \ominus q)[i] = p[i] - q[i]
    BY ModHom, DualParts
  <2>4. /\ (p \ominus q)[1] = w - y /\ (p \ominus q)[2] = x - z
        /\ (p \ominus q)[3] = 0 /\ (p \ominus q)[4] = 0
    BY <2>1, <2>2, <2>3
  <2>5. p \ominus q = [i \in 1 .. 4 |-> (p \ominus q)[i]]
    BY DEF \ominus
  <2>6. \A i \in 1 .. 4 : i = 1 \/ i = 2 \/ i = 3 \/ i = 4
    OBVIOUS
  <2>7. \A i \in 1 .. 4 : (p \ominus q)[i] = CASE i = 1 -> w - y [] i = 2 -> x - z [] OTHER -> 0
    BY <2>4, <2>6
  <2>8. p \ominus q = Pair(w - y, x - z)
    BY <2>5, <2>7 DEF Pair
  <2> QED
    BY <2>2, <2>3, <2>8 DEF Number
<1>2. Lift(a) = Number(a, 0)
  BY ModIsNumber DEF Number
<1>3. Number(a, 0) -- Number(b, c) = Number(a - b, 0 - c)
  BY <1>1
<1>4. Number(a - b, 0 - c) -- Number(0, m) = Number((a - b) - 0, (0 - c) - m)
  BY <1>1
<1>5. (a - b) - 0 = a - b
  OBVIOUS
<1> QED
  BY <1>2, <1>3, <1>4, <1>5

\* The changes of the inputs are these.
LEMMA InputChanges ==
    ASSUME NEW arg, IsInput(arg), NEW e, NEW n, NEW c, NEW m, IsAlong(e, n, c, m)
    PROVE  /\ GyroBy(c, m) \in [0 .. 2 -> Int] /\ AccelBy(c, m) \in [0 .. 2 -> Int]
           /\ Still \in [0 .. 2 -> Int]
           /\ \A k \in 0 .. 2 :
                 /\ TrueAccel(arg, e, n)[k] = Number(Accel(arg)[k], AccelBy(c, m)[k])
                 /\ TrueGyro(arg, e, n)[k] = Number(Gyro(arg)[k], GyroBy(c, m)[k])
                 /\ NominalAccel(arg)[k] = Number(Accel(arg)[k], Still[k])
                 /\ NominalGyro(arg)[k] = Number(Gyro(arg)[k], Still[k])
<1> DEFINE TA == TrueState(Nominal(arg), ErrorOf(e))["accel_bias"]
           TG == TrueState(Nominal(arg), ErrorOf(e))["gyro_bias"]
           NA == Nominal(arg)["accel_bias"]
           NG == Nominal(arg)["gyro_bias"]
<1>1. /\ c \in [0 .. 14 -> Int] /\ m \in [0 .. 5 -> Int] /\ \A i \in 0 .. 5 : n[i] = Number(0, m[i])
  BY DEF IsAlong
<1>2. \A k \in 0 .. 2 : 9 + k \in 0 .. 14 /\ 12 + k \in 0 .. 14 /\ k \in 0 .. 5 /\ 3 + k \in 0 .. 5
  OBVIOUS
<1>3. \A k \in 0 .. 2 : c[9 + k] \in Int /\ c[12 + k] \in Int /\ m[k] \in Int /\ m[3 + k] \in Int
  BY <1>1, <1>2
<1>4. \A k \in 0 .. 2 : arg.state[10 + k] \in Int /\ arg.state[13 + k] \in Int
  <2>1. \A i \in 0 .. 15 : arg.state[i] \in Int
    BY InputsInt
  <2>2. \A k \in 0 .. 2 : 10 + k \in 0 .. 15 /\ 13 + k \in 0 .. 15
    OBVIOUS
  <2> QED
    BY <2>1, <2>2
<1>5. \A k \in 0 .. 2 : arg.accel[k] \in Int /\ arg.gyro[k] \in Int
  BY DEF IsInput
<1>6. \A k \in 0 .. 2 : /\ TA[k] = Number(arg.state[13 + k], c[12 + k])
                        /\ TG[k] = Number(arg.state[10 + k], c[9 + k])
  BY TrueMembers
<1>7. \A k \in 0 .. 2 : /\ NA[k] = Number(arg.state[13 + k], 0)
                        /\ NG[k] = Number(arg.state[10 + k], 0)
  BY NominalMembers
<1>8. \A k \in 0 .. 2 : NoiseOf(n).accel[k] = n[k] /\ NoiseOf(n).gyro[k] = n[3 + k]
  BY DEF NoiseOf, Axes
<1>9. \A k \in 0 .. 2 : NoiseOf(n).accel[k] = Number(0, m[k]) /\ NoiseOf(n).gyro[k] = Number(0, m[3 + k])
  BY <1>1, <1>2, <1>8
<1> HIDE DEF TA, TG, NA, NG
<1>10. \A k \in 0 .. 2 :
          /\ TrueAccel(arg, e, n)[k] = (Lift(arg.accel[k]) -- TA[k]) -- NoiseOf(n).accel[k]
          /\ TrueGyro(arg, e, n)[k] = (Lift(arg.gyro[k]) -- TG[k]) -- NoiseOf(n).gyro[k]
          /\ NominalAccel(arg)[k] = Lift(arg.accel[k]) -- NA[k]
          /\ NominalGyro(arg)[k] = Lift(arg.gyro[k]) -- NG[k]
  BY DEF TrueAccel, TrueGyro, NominalAccel, NominalGyro, Minus, LiftV3, Axes, TA, TG, NA, NG
<1>11. ASSUME NEW k \in 0 .. 2
       PROVE  /\ TrueAccel(arg, e, n)[k] = Number(Accel(arg)[k], AccelBy(c, m)[k])
              /\ TrueGyro(arg, e, n)[k] = Number(Gyro(arg)[k], GyroBy(c, m)[k])
              /\ NominalAccel(arg)[k] = Number(Accel(arg)[k], Still[k])
              /\ NominalGyro(arg)[k] = Number(Gyro(arg)[k], Still[k])
  <2>1. PICK a \in Int, b \in Int, x \in Int, y \in Int :
           a = arg.accel[k] /\ b = arg.state[13 + k] /\ x = c[12 + k] /\ y = m[k]
    BY <1>3, <1>4, <1>5
  <2>2. PICK g \in Int, h \in Int, u \in Int, v \in Int :
           g = arg.gyro[k] /\ h = arg.state[10 + k] /\ u = c[9 + k] /\ v = m[3 + k]
    BY <1>3, <1>4, <1>5
  <2>3. /\ Accel(arg)[k] = a - b /\ AccelBy(c, m)[k] = (0 - x) - y
        /\ Gyro(arg)[k] = g - h /\ GyroBy(c, m)[k] = (0 - u) - v /\ Still[k] = 0
    BY <2>1, <2>2 DEF Accel, AccelBy, Gyro, GyroBy, Still
  <2>4. /\ (Lift(a) -- Number(b, x)) -- Number(0, y) = Number(a - b, (0 - x) - y)
        /\ (Lift(g) -- Number(h, u)) -- Number(0, v) = Number(g - h, (0 - u) - v)
    BY DifferenceOf
  <2>5. /\ Lift(a) -- Number(b, 0) = Number(a - b, 0 - 0)
        /\ Lift(g) -- Number(h, 0) = Number(g - h, 0 - 0)
    BY DifferenceOf
  <2>6. 0 - 0 = 0
    OBVIOUS
  <2>7. /\ TrueAccel(arg, e, n)[k] = (Lift(a) -- Number(b, x)) -- Number(0, y)
        /\ TrueGyro(arg, e, n)[k] = (Lift(g) -- Number(h, u)) -- Number(0, v)
        /\ NominalAccel(arg)[k] = Lift(a) -- Number(b, 0)
        /\ NominalGyro(arg)[k] = Lift(g) -- Number(h, 0)
    BY <1>6, <1>7, <1>9, <1>10, <2>1, <2>2
  <2> QED
    BY <2>3, <2>4, <2>5, <2>6, <2>7
<1>12. GyroBy(c, m) \in [0 .. 2 -> Int] /\ AccelBy(c, m) \in [0 .. 2 -> Int]
  <2>1. \A k \in 0 .. 2 : (0 - c[9 + k]) - m[3 + k] \in Int /\ (0 - c[12 + k]) - m[k] \in Int
    BY <1>3
  <2> QED
    BY <2>1 DEF GyroBy, AccelBy
<1> QED
  BY <1>11, <1>12 DEF Still

(***************************************************************************)
(* How the errors after one step change                                    *)
(***************************************************************************)
\* Which member owns an index of an error.
LEMMA ErrorOwnerIs ==
    /\ \A i \in 0 .. 2 : OwnerOf(TangentStart, i) = "quat_nominal"
    /\ \A i \in 3 .. 5 : OwnerOf(TangentStart, i) = "vel"
    /\ \A i \in 6 .. 8 : OwnerOf(TangentStart, i) = "pos"
    /\ \A i \in 9 .. 11 : OwnerOf(TangentStart, i) = "gyro_bias"
    /\ \A i \in 12 .. 14 : OwnerOf(TangentStart, i) = "accel_bias"
<1>1. /\ Len(State) = 5
      /\ State[1] = "quat_nominal" /\ State[2] = "vel" /\ State[3] = "pos"
      /\ State[4] = "gyro_bias" /\ State[5] = "accel_bias"
  BY DEF State
<1>2. ASSUME NEW i \in 0 .. 14, NEW n \in 1 .. 5,
             TangentStart[n] <= i, i < TangentStart[n + 1]
      PROVE  OwnerOf(TangentStart, i) = State[n]
  <2>1. ASSUME NEW k \in 1 .. 5, TangentStart[k] <= i, i < TangentStart[k + 1] PROVE k = n
    BY <1>2, <2>1, TangentStartIs
  <2>2. (CHOOSE k \in 1 .. 5 : TangentStart[k] <= i /\ i < TangentStart[k + 1]) = n
    BY <1>2, <2>1
  <2> QED
    BY <1>1, <2>2 DEF OwnerOf
<1>3. \A i \in 0 .. 2 : OwnerOf(TangentStart, i) = State[1]
  BY <1>2, TangentStartIs
<1>4. \A i \in 3 .. 5 : OwnerOf(TangentStart, i) = State[2]
  BY <1>2, TangentStartIs
<1>5. \A i \in 6 .. 8 : OwnerOf(TangentStart, i) = State[3]
  BY <1>2, TangentStartIs
<1>6. \A i \in 9 .. 11 : OwnerOf(TangentStart, i) = State[4]
  BY <1>2, TangentStartIs
<1>7. \A i \in 12 .. 14 : OwnerOf(TangentStart, i) = State[5]
  BY <1>2, TangentStartIs
<1> QED
  BY <1>1, <1>3, <1>4, <1>5, <1>6, <1>7

\* The rows of the prediction of the error.
LEMMA PredictedRows ==
    ASSUME NEW arg, NEW e, NEW n, NEW i \in 0 .. 2
    PROVE  /\ state_error_pred(arg, e, n)[i] = ThetaPred(arg, ErrorOf(e), NoiseOf(n))[i]
           /\ state_error_pred(arg, e, n)[3 + i]
                = PredictedTrue(arg, ErrorOf(e), NoiseOf(n), Lift(arg.dt))["vel"][i]
                    -- PredictedNominal(arg, Lift(arg.dt))["vel"][i]
           /\ state_error_pred(arg, e, n)[6 + i]
                = PredictedTrue(arg, ErrorOf(e), NoiseOf(n), Lift(arg.dt))["pos"][i]
                    -- PredictedNominal(arg, Lift(arg.dt))["pos"][i]
           /\ state_error_pred(arg, e, n)[9 + i]
                = PredictedTrue(arg, ErrorOf(e), NoiseOf(n), Lift(arg.dt))["gyro_bias"][i]
                    -- PredictedNominal(arg, Lift(arg.dt))["gyro_bias"][i]
           /\ state_error_pred(arg, e, n)[12 + i]
                = PredictedTrue(arg, ErrorOf(e), NoiseOf(n), Lift(arg.dt))["accel_bias"][i]
                    -- PredictedNominal(arg, Lift(arg.dt))["accel_bias"][i]
<1> DEFINE T == PredictedTrue(arg, ErrorOf(e), NoiseOf(n), Lift(arg.dt))
           N == PredictedNominal(arg, Lift(arg.dt))
           H == ThetaPred(arg, ErrorOf(e), NoiseOf(n))
           pred == [key \in Keys |-> IF key = "quat_nominal" THEN H ELSE Minus(T[key], N[key])]
           S == state_error_pred(arg, e, n)
<1> HIDE DEF T, N, H
<1>1. S = [k \in Tangent |-> pred[OwnerOf(TangentStart, k)]
                                 [k - BuildTangentStateIndex[OwnerOf(TangentStart, k)].idx]]
  BY DEF state_error_pred, T, N, H
<1>2. /\ pred["quat_nominal"] = H
      /\ pred["vel"] = Minus(T["vel"], N["vel"]) /\ pred["pos"] = Minus(T["pos"], N["pos"])
      /\ pred["gyro_bias"] = Minus(T["gyro_bias"], N["gyro_bias"])
      /\ pred["accel_bias"] = Minus(T["accel_bias"], N["accel_bias"])
  BY Layout
<1> HIDE DEF S, pred
<1>3. i - 0 = i /\ i \in 0 .. 14
  OBVIOUS
<1>4. S[i] = H[i]
  <2>1. OwnerOf(TangentStart, i) = "quat_nominal"
    BY ErrorOwnerIs
  <2> QED
    BY <1>1, <1>2, <1>3, <2>1, Layout
<1>5. S[3 + i] = T["vel"][i] -- N["vel"][i]
  <2>1. 3 + i \in 3 .. 5 /\ 3 + i \in 0 .. 14 /\ (3 + i) - 3 = i
    OBVIOUS
  <2>2. OwnerOf(TangentStart, 3 + i) = "vel"
    BY <2>1, ErrorOwnerIs
  <2>3. S[3 + i] = Minus(T["vel"], N["vel"])[i]
    BY <1>1, <1>2, <2>1, <2>2, Layout
  <2> QED
    BY <2>3 DEF Minus
<1>6. S[6 + i] = T["pos"][i] -- N["pos"][i]
  <2>1. 6 + i \in 6 .. 8 /\ 6 + i \in 0 .. 14 /\ (6 + i) - 6 = i
    OBVIOUS
  <2>2. OwnerOf(TangentStart, 6 + i) = "pos"
    BY <2>1, ErrorOwnerIs
  <2>3. S[6 + i] = Minus(T["pos"], N["pos"])[i]
    BY <1>1, <1>2, <2>1, <2>2, Layout
  <2> QED
    BY <2>3 DEF Minus
<1>7. S[9 + i] = T["gyro_bias"][i] -- N["gyro_bias"][i]
  <2>1. 9 + i \in 9 .. 11 /\ 9 + i \in 0 .. 14 /\ (9 + i) - 9 = i
    OBVIOUS
  <2>2. OwnerOf(TangentStart, 9 + i) = "gyro_bias"
    BY <2>1, ErrorOwnerIs
  <2>3. S[9 + i] = Minus(T["gyro_bias"], N["gyro_bias"])[i]
    BY <1>1, <1>2, <2>1, <2>2, Layout
  <2> QED
    BY <2>3 DEF Minus
<1>8. S[12 + i] = T["accel_bias"][i] -- N["accel_bias"][i]
  <2>1. 12 + i \in 12 .. 14 /\ 12 + i \in 0 .. 14 /\ (12 + i) - 12 = i
    OBVIOUS
  <2>2. OwnerOf(TangentStart, 12 + i) = "accel_bias"
    BY <2>1, ErrorOwnerIs
  <2>3. S[12 + i] = Minus(T["accel_bias"], N["accel_bias"])[i]
    BY <1>1, <1>2, <2>1, <2>2, Layout
  <2> QED
    BY <2>3 DEF Minus
<1> QED
  BY <1>4, <1>5, <1>6, <1>7, <1>8 DEF S, T, N, H

\* One step of the kinematics, member by member.
LEMMA PropagateIs ==
    ASSUME NEW state, NEW accel, NEW gyro, NEW dt, NEW i \in 0 .. 2
    PROVE  /\ Propagate(state, accel, gyro, dt)["quat_nominal"]
                = QuatTimes(state["quat_nominal"], Quaternion(Times(Half ** dt, gyro), One))
           /\ Propagate(state, accel, gyro, dt)["vel"][i]
                = state["vel"][i]
                    ++ dt ** (Rotate(state["quat_nominal"], accel)[i] ++ V3(Zero, Zero, Lift(10))[i])
           /\ Propagate(state, accel, gyro, dt)["pos"][i] = state["pos"][i] ++ dt ** state["vel"][i]
           /\ Propagate(state, accel, gyro, dt)["gyro_bias"] = state["gyro_bias"]
           /\ Propagate(state, accel, gyro, dt)["accel_bias"] = state["accel_bias"]
  BY Layout DEF Propagate, Plus, Times

\* The attitude.
LEMMA ThetaRow ==
    ASSUME NEW arg, IsInput(arg), NEW e, NEW n, NEW c, NEW m, IsAlong(e, n, c, m), NEW i \in 0 .. 2
    PROVE  Derivative(state_error_pred(arg, e, n)[i])
             = (2 * (Ham(TurnBy(arg, c), Conj4(Quat(arg)))[i + 1]
                       + World(Quat(arg), Scaled(HalfInt * arg.dt, GyroBy(c, m)), i))) % Prime
<1> DEFINE dt == Lift(arg.dt) ** TAU
           T == TrueState(Nominal(arg), ErrorOf(e))
           p == QuatTimes(T["quat_nominal"], Quaternion(Times(Half ** dt, TrueGyro(arg, e, n)), One))
           q == QuatTimes(Nominal(arg)["quat_nominal"],
                          Quaternion(Times(Half ** dt, NominalGyro(arg)), One))
           h == HalfInt * arg.dt
           a == Quat(arg)
           d == TurnBy(arg, c)
           g == Gyro(arg)
           w == GyroBy(c, m)
<1>1. state_error_pred(arg, e, n)[i] = AtOne(Twice(Xyz(QuatTimes(p, conj(q)))[i]))
  <2>1. state_error_pred(arg, e, n)[i] = ThetaPred(arg, ErrorOf(e), NoiseOf(n))[i]
    BY PredictedRows
  <2>2. PredictedTrue(arg, ErrorOf(e), NoiseOf(n), dt)["quat_nominal"] = p
    BY PropagateIs DEF PredictedTrue, TrueGyro
  <2>3. PredictedNominal(arg, dt)["quat_nominal"] = q
    BY PropagateIs DEF PredictedNominal, NominalGyro
  <2> HIDE DEF p, q
  <2>4. ThetaPred(arg, ErrorOf(e), NoiseOf(n))[i] = AtOne(Twice(Xyz(QuatTimes(p, conj(q)))[i]))
    BY <2>2, <2>3 DEF ThetaPred, Axes
  <2> QED
    BY <2>1, <2>4
<1>2. /\ a \in Integral /\ d \in Integral /\ h \in Int /\ arg.dt \in Int
      /\ g \in [0 .. 2 -> Int] /\ w \in [0 .. 2 -> Int] /\ Still \in [0 .. 2 -> Int]
  <2>1. c \in [0 .. 14 -> Int] /\ arg.dt \in Int /\ HalfInt \in Int
    BY HalfIs DEF IsAlong, IsInput
  <2>2. h \in Int
    BY <2>1
  <2> QED
    BY <2>1, <2>2, InputsInt, TurnByInt, InputChanges
<1>3. Zero4 \in Integral
  BY HamUnits
<1>4. Layers(p, MovedLayers(h, a, d, g, w))
  <2>1. Layers(T["quat_nominal"], FlatLayers(a, d))
    BY <1>2, TrueMembers, TurningIs
  <2>2. \A k \in 0 .. 2 : TrueGyro(arg, e, n)[k] = Number(g[k], w[k])
    BY InputChanges
  <2>3. Layers(Quaternion(Times(Half ** dt, TrueGyro(arg, e, n)), One), StepLayers(h, g, w))
    BY <1>2, <2>2, StepLayersAre
  <2> HIDE DEF a, d, g, w, h, T, dt
  <2> QED
    BY <1>2, <2>1, <2>3, Propagated
<1>5. Layers(q, MovedLayers(h, a, Zero4, g, Still))
  <2>1. Layers(Nominal(arg)["quat_nominal"], FlatLayers(a, Zero4))
    BY <1>2, <1>3, NominalMembers, TurningIs
  <2>2. \A k \in 0 .. 2 : NominalGyro(arg)[k] = Number(g[k], Still[k])
    BY InputChanges
  <2>3. Layers(Quaternion(Times(Half ** dt, NominalGyro(arg)), One), StepLayers(h, g, Still))
    BY <1>2, <2>2, StepLayersAre
  <2> HIDE DEF a, g, h, dt
  <2> QED
    BY <1>2, <1>3, <2>1, <2>3, Propagated
<1> HIDE DEF p, q, a, d, g, w, h
<1>6. Derivative(AtOne(Twice(Xyz(QuatTimes(p, conj(q)))[i])))
        = (2 * (Ham(d, Conj4(a))[i + 1] + World(a, Scaled(h, w), i))) % Prime
  <2>1. Still = [k \in 0 .. 2 |-> 0]
    BY DEF Still
  <2> QED
    BY <1>2, <1>4, <1>5, <2>1, ThetaChange
<1> QED
  BY <1>1, <1>6 DEF a, d, w, h

\* An attitude that does not change leaves its rotation matrix as it is.
LEMMA ZeroChange ==
    ASSUME NEW a \in Integral, NEW r \in 0 .. 2, NEW k \in 0 .. 2
    PROVE  UnitChange(a, Zero4, r, k) = 0
<1>1. \A i \in 0 .. 3 : Zero4[i] = 0
  BY DEF Zero4
<1>2. \A i \in 0 .. 3 : a[i] \in Int
  BY DEF Integral
<1>3. r + 1 \in 0 .. 3 /\ k + 1 \in 0 .. 3 /\ (r # k => 4 - r - k \in 0 .. 3)
  OBVIOUS
<1>4. PICK b \in Int, f \in Int, g \in Int : b = a[1] /\ f = a[2] /\ g = a[3]
  BY <1>2
<1>5. CASE r = k
  <2>1. PICK t \in Int : t = a[r + 1]
    BY <1>2, <1>3
  <2>2. UnitChange(a, Zero4, r, k) = 0 - 4 * ((b * 0 + f * 0 + g * 0) - t * 0)
    BY <1>1, <1>3, <1>4, <1>5, <2>1 DEF UnitChange
  <2> QED
    BY <2>2
<1>6. CASE r # k
  <2>1. PICK t \in Int, u \in Int, s \in Int, y0 \in Int :
           t = a[r + 1] /\ u = a[k + 1] /\ s = a[4 - r - k] /\ y0 = a[0]
    <3>1. PICK i \in 0 .. 3, j \in 0 .. 3, l \in 0 .. 3 : i = r + 1 /\ j = k + 1 /\ l = 4 - r - k
      BY <1>3, <1>6
    <3>2. a[i] \in Int /\ a[j] \in Int /\ a[l] \in Int /\ a[0] \in Int
      BY <1>2
    <3> QED
      BY <3>1, <3>2
  <2>2. UnitChange(a, Zero4, r, k)
          = 2 * (t * 0 + u * 0) + (IF <<r, k>> \in {<<0, 1>>, <<1, 2>>, <<2, 0>>}
                                     THEN 0 - 2 * (y0 * 0 + s * 0) ELSE 2 * (y0 * 0 + s * 0))
    BY <1>1, <1>3, <1>6, <2>1 DEF UnitChange
  <2> QED
    BY <2>2
<1> QED
  BY <1>5, <1>6

\* Nothing changes where neither the attitude nor the vector does.
LEMMA StillChange ==
    ASSUME NEW a \in Integral, NEW v \in [0 .. 2 -> Int], NEW r \in 0 .. 2
    PROVE  RotateChange(a, Zero4, v, Still, r) = 0
<1>1. \A i \in 0 .. 3 : a[i] \in Int
  BY DEF Integral
<1>2. PICK x \in Int, y \in Int, z \in Int : x = v[0] /\ y = v[1] /\ z = v[2]
  OBVIOUS
<1>3. \A k \in 0 .. 2 : UnitChange(a, Zero4, r, k) = 0
  BY ZeroChange
<1>4. \A k \in 0 .. 2 : Still[k] = 0
  BY DEF Still
<1>5. \A k \in 0 .. 2 : UnitEntry(a, r, k) \in Int
  <2> SUFFICES ASSUME NEW k \in 0 .. 2 PROVE UnitEntry(a, r, k) \in Int
    OBVIOUS
  <2>1. IsField(a, v)
    BY <1>1, <1>2 DEF IsField
  <2> QED
    BY <2>1, UnitEntryIs
<1>6. PICK u0 \in Int, u1 \in Int, u2 \in Int :
         u0 = UnitEntry(a, r, 0) /\ u1 = UnitEntry(a, r, 1) /\ u2 = UnitEntry(a, r, 2)
  BY <1>5
<1>7. RotateChange(a, Zero4, v, Still, r) = (u0 * 0 + 0 * x) + (u1 * 0 + 0 * y) + (u2 * 0 + 0 * z)
  BY <1>2, <1>3, <1>4, <1>6 DEF RotateChange
<1> QED
  BY <1>7

\* The velocity.
LEMMA VelocityChange ==
    ASSUME NEW arg, IsInput(arg), NEW e, NEW n, NEW c, NEW m, IsAlong(e, n, c, m), NEW i \in 0 .. 2
    PROVE  /\ RotateChange(Quat(arg), TurnBy(arg, c), Accel(arg), AccelBy(c, m), i) \in Int
           /\ Derivative(state_error_pred(arg, e, n)[3 + i])
                = (c[3 + i] + arg.dt * RotateChange(Quat(arg), TurnBy(arg, c), Accel(arg), AccelBy(c, m), i))
                  % Prime
<1> DEFINE T == TrueState(Nominal(arg), ErrorOf(e))
           N == Nominal(arg)
           G == V3(Zero, Zero, Lift(10))[i]
           y == RotateChange(Quat(arg), TurnBy(arg, c), Accel(arg), AccelBy(c, m), i)
           A == Rotate(T["quat_nominal"], TrueAccel(arg, e, n))[i]
           B == Rotate(N["quat_nominal"], NominalAccel(arg))[i]
<1>1. state_error_pred(arg, e, n)[3 + i]
        = (T["vel"][i] ++ Lift(arg.dt) ** (A ++ G)) -- (N["vel"][i] ++ Lift(arg.dt) ** (B ++ G))
  <2>1. state_error_pred(arg, e, n)[3 + i]
          = PredictedTrue(arg, ErrorOf(e), NoiseOf(n), Lift(arg.dt))["vel"][i]
              -- PredictedNominal(arg, Lift(arg.dt))["vel"][i]
    BY PredictedRows
  <2>2. PredictedTrue(arg, ErrorOf(e), NoiseOf(n), Lift(arg.dt))["vel"][i]
          = T["vel"][i] ++ Lift(arg.dt) ** (A ++ G)
    BY PropagateIs DEF PredictedTrue, TrueAccel
  <2>3. PredictedNominal(arg, Lift(arg.dt))["vel"][i] = N["vel"][i] ++ Lift(arg.dt) ** (B ++ G)
    BY PropagateIs DEF PredictedNominal, NominalAccel
  <2> QED
    BY <2>1, <2>2, <2>3
<1>2. /\ Quat(arg) \in Integral /\ TurnBy(arg, c) \in Integral /\ arg.dt \in Int
      /\ Accel(arg) \in [0 .. 2 -> Int] /\ AccelBy(c, m) \in [0 .. 2 -> Int] /\ Still \in [0 .. 2 -> Int]
      /\ c \in [0 .. 14 -> Int] /\ Zero4 \in Integral
  <2>1. c \in [0 .. 14 -> Int] /\ arg.dt \in Int
    BY DEF IsAlong, IsInput
  <2> QED
    BY <2>1, InputsInt, TurnByInt, InputChanges, HamUnits
<1>3. PICK k \in Int : Has(A, k, y)
  <2>1. Moving(T["quat_nominal"], Quat(arg), TurnBy(arg, c))
    BY <1>2, TrueMembers, TurningIs
  <2>2. MovingVector(TrueAccel(arg, e, n), Accel(arg), AccelBy(c, m))
    <3>1. \A l \in 0 .. 2 : TrueAccel(arg, e, n)[l] = Number(Accel(arg)[l], AccelBy(c, m)[l])
      BY InputChanges
    <3> QED
      BY <1>2, <3>1, HasNumber DEF MovingVector
  <2> HIDE DEF T
  <2> QED
    BY <2>1, <2>2, RotateHas
<1>4. PICK l \in Int : Has(B, l, 0)
  <2>1. Moving(N["quat_nominal"], Quat(arg), Zero4)
    BY <1>2, NominalMembers, TurningIs
  <2>2. MovingVector(NominalAccel(arg), Accel(arg), Still)
    <3>1. \A o \in 0 .. 2 : NominalAccel(arg)[o] = Number(Accel(arg)[o], Still[o])
      BY InputChanges
    <3> QED
      BY <1>2, <3>1, HasNumber DEF MovingVector
  <2>3. RotateChange(Quat(arg), Zero4, Accel(arg), Still, i) = 0
    BY <1>2, StillChange
  <2> HIDE DEF N
  <2> QED
    BY <2>1, <2>2, <2>3, RotateHas
<1>5. PICK o \in Int : Has(G, o, 0)
  <2>1. i = 0 \/ i = 1 \/ i = 2
    OBVIOUS
  <2>2. G \in {Zero, Lift(10)}
    BY <2>1 DEF V3
  <2> HIDE DEF G
  <2> QED
    BY <2>2, HasNumber
<1>6. PICK v \in Int, u \in Int : v = arg.state[4 + i] /\ u = c[3 + i]
  <2>1. \A j \in 0 .. 15 : arg.state[j] \in Int
    BY InputsInt
  <2>2. 4 + i \in 0 .. 15 /\ 3 + i \in 0 .. 14
    OBVIOUS
  <2> QED
    BY <1>2, <2>1, <2>2
<1>7. T["vel"][i] = Number(v, u) /\ N["vel"][i] = Number(v, 0)
  BY <1>6, TrueMembers, NominalMembers
<1>8. PICK t \in Int : t = arg.dt
  BY <1>2
<1>9. y \in Int
  BY <1>3, HasParts
<1> HIDE DEF T, N, G, A, B, y
<1>10. Has(T["vel"][i], v, u) /\ Has(N["vel"][i], v, 0) /\ Has(Lift(t), t, 0)
  BY <1>7, HasNumber
<1>11. Has(A ++ G, k + o, y + 0) /\ Has(B ++ G, l + o, 0 + 0)
  BY <1>3, <1>4, <1>5, HasSum
<1>12. /\ Has(Lift(t) ** (A ++ G), t * (k + o), t * (y + 0) + 0 * (k + o))
       /\ Has(Lift(t) ** (B ++ G), t * (l + o), t * (0 + 0) + 0 * (l + o))
  BY <1>10, <1>11, HasProduct
<1>13. Has(T["vel"][i] ++ Lift(t) ** (A ++ G), v + t * (k + o), u + (t * (y + 0) + 0 * (k + o)))
  BY <1>10, <1>12, HasSum
<1>14. Has(N["vel"][i] ++ Lift(t) ** (B ++ G), v + t * (l + o), 0 + (t * (0 + 0) + 0 * (l + o)))
  BY <1>10, <1>12, HasSum
<1>15. Has((T["vel"][i] ++ Lift(t) ** (A ++ G)) -- (N["vel"][i] ++ Lift(t) ** (B ++ G)),
           (v + t * (k + o)) - (v + t * (l + o)),
           (u + (t * (y + 0) + 0 * (k + o))) - (0 + (t * (0 + 0) + 0 * (l + o))))
  BY <1>13, <1>14, HasDifference
<1>16. (u + (t * (y + 0) + 0 * (k + o))) - (0 + (t * (0 + 0) + 0 * (l + o))) = u + t * y
  BY <1>9
<1>17. Derivative(state_error_pred(arg, e, n)[3 + i]) = (u + t * y) % Prime
  BY <1>1, <1>8, <1>15, <1>16, HasParts
<1> QED
  BY <1>6, <1>8, <1>9, <1>17 DEF y

\* The position.
LEMMA PositionChange ==
    ASSUME NEW arg, IsInput(arg), NEW e, NEW n, NEW c, NEW m, IsAlong(e, n, c, m), NEW i \in 0 .. 2
    PROVE  Derivative(state_error_pred(arg, e, n)[6 + i]) = (c[6 + i] + arg.dt * c[3 + i]) % Prime
<1> DEFINE T == TrueState(Nominal(arg), ErrorOf(e))
           N == Nominal(arg)
<1>1. state_error_pred(arg, e, n)[6 + i]
        = (T["pos"][i] ++ Lift(arg.dt) ** T["vel"][i]) -- (N["pos"][i] ++ Lift(arg.dt) ** N["vel"][i])
  <2>1. state_error_pred(arg, e, n)[6 + i]
          = PredictedTrue(arg, ErrorOf(e), NoiseOf(n), Lift(arg.dt))["pos"][i]
              -- PredictedNominal(arg, Lift(arg.dt))["pos"][i]
    BY PredictedRows
  <2>2. PredictedTrue(arg, ErrorOf(e), NoiseOf(n), Lift(arg.dt))["pos"][i]
          = T["pos"][i] ++ Lift(arg.dt) ** T["vel"][i]
    BY PropagateIs DEF PredictedTrue
  <2>3. PredictedNominal(arg, Lift(arg.dt))["pos"][i] = N["pos"][i] ++ Lift(arg.dt) ** N["vel"][i]
    BY PropagateIs DEF PredictedNominal
  <2> QED
    BY <2>1, <2>2, <2>3
<1>2. PICK v \in Int, u \in Int, p \in Int, q \in Int, t \in Int :
         /\ v = arg.state[4 + i] /\ u = c[3 + i] /\ p = arg.state[7 + i] /\ q = c[6 + i]
         /\ t = arg.dt
  <2>1. c \in [0 .. 14 -> Int] /\ arg.dt \in Int
    BY DEF IsAlong, IsInput
  <2>2. \A j \in 0 .. 15 : arg.state[j] \in Int
    BY InputsInt
  <2>3. 4 + i \in 0 .. 15 /\ 7 + i \in 0 .. 15 /\ 3 + i \in 0 .. 14 /\ 6 + i \in 0 .. 14
    OBVIOUS
  <2> QED
    BY <2>1, <2>2, <2>3
<1>3. /\ T["vel"][i] = Number(v, u) /\ N["vel"][i] = Number(v, 0)
      /\ T["pos"][i] = Number(p, q) /\ N["pos"][i] = Number(p, 0)
  BY <1>2, TrueMembers, NominalMembers
<1> HIDE DEF T, N
<1>4. /\ Has(T["vel"][i], v, u) /\ Has(N["vel"][i], v, 0)
      /\ Has(T["pos"][i], p, q) /\ Has(N["pos"][i], p, 0) /\ Has(Lift(t), t, 0)
  BY <1>3, HasNumber
<1>5. /\ Has(Lift(t) ** T["vel"][i], t * v, t * u + 0 * v)
      /\ Has(Lift(t) ** N["vel"][i], t * v, t * 0 + 0 * v)
  BY <1>4, HasProduct
<1>6. /\ Has(T["pos"][i] ++ Lift(t) ** T["vel"][i], p + t * v, q + (t * u + 0 * v))
      /\ Has(N["pos"][i] ++ Lift(t) ** N["vel"][i], p + t * v, 0 + (t * 0 + 0 * v))
  BY <1>4, <1>5, HasSum
<1>7. Has((T["pos"][i] ++ Lift(t) ** T["vel"][i]) -- (N["pos"][i] ++ Lift(t) ** N["vel"][i]),
          (p + t * v) - (p + t * v), (q + (t * u + 0 * v)) - (0 + (t * 0 + 0 * v)))
  BY <1>6, HasDifference
<1>8. (q + (t * u + 0 * v)) - (0 + (t * 0 + 0 * v)) = q + t * u
  OBVIOUS
<1> QED
  BY <1>1, <1>2, <1>7, <1>8, HasParts

\* The biases.
LEMMA BiasChange ==
    ASSUME NEW arg, IsInput(arg), NEW e, NEW n, NEW c, NEW m, IsAlong(e, n, c, m), NEW i \in 0 .. 2
    PROVE  /\ Derivative(state_error_pred(arg, e, n)[9 + i]) = c[9 + i] % Prime
           /\ Derivative(state_error_pred(arg, e, n)[12 + i]) = c[12 + i] % Prime
<1> DEFINE T == TrueState(Nominal(arg), ErrorOf(e))
           N == Nominal(arg)
<1>1. /\ state_error_pred(arg, e, n)[9 + i] = T["gyro_bias"][i] -- N["gyro_bias"][i]
      /\ state_error_pred(arg, e, n)[12 + i] = T["accel_bias"][i] -- N["accel_bias"][i]
  <2>1. /\ state_error_pred(arg, e, n)[9 + i]
             = PredictedTrue(arg, ErrorOf(e), NoiseOf(n), Lift(arg.dt))["gyro_bias"][i]
                 -- PredictedNominal(arg, Lift(arg.dt))["gyro_bias"][i]
        /\ state_error_pred(arg, e, n)[12 + i]
             = PredictedTrue(arg, ErrorOf(e), NoiseOf(n), Lift(arg.dt))["accel_bias"][i]
                 -- PredictedNominal(arg, Lift(arg.dt))["accel_bias"][i]
    BY PredictedRows
  <2>2. /\ PredictedTrue(arg, ErrorOf(e), NoiseOf(n), Lift(arg.dt))["gyro_bias"] = T["gyro_bias"]
        /\ PredictedTrue(arg, ErrorOf(e), NoiseOf(n), Lift(arg.dt))["accel_bias"] = T["accel_bias"]
    BY PropagateIs DEF PredictedTrue
  <2>3. /\ PredictedNominal(arg, Lift(arg.dt))["gyro_bias"] = N["gyro_bias"]
        /\ PredictedNominal(arg, Lift(arg.dt))["accel_bias"] = N["accel_bias"]
    BY PropagateIs DEF PredictedNominal
  <2> QED
    BY <2>1, <2>2, <2>3
<1>2. PICK v \in Int, u \in Int, p \in Int, q \in Int :
         v = arg.state[10 + i] /\ u = c[9 + i] /\ p = arg.state[13 + i] /\ q = c[12 + i]
  <2>1. c \in [0 .. 14 -> Int]
    BY DEF IsAlong
  <2>2. \A j \in 0 .. 15 : arg.state[j] \in Int
    BY InputsInt
  <2>3. 10 + i \in 0 .. 15 /\ 13 + i \in 0 .. 15 /\ 9 + i \in 0 .. 14 /\ 12 + i \in 0 .. 14
    OBVIOUS
  <2> QED
    BY <2>1, <2>2, <2>3
<1>3. /\ T["gyro_bias"][i] = Number(v, u) /\ N["gyro_bias"][i] = Number(v, 0)
      /\ T["accel_bias"][i] = Number(p, q) /\ N["accel_bias"][i] = Number(p, 0)
  BY <1>2, TrueMembers, NominalMembers
<1> HIDE DEF T, N
<1>4. /\ Has(T["gyro_bias"][i], v, u) /\ Has(N["gyro_bias"][i], v, 0)
      /\ Has(T["accel_bias"][i], p, q) /\ Has(N["accel_bias"][i], p, 0)
  BY <1>3, HasNumber
<1>5. /\ Has(T["gyro_bias"][i] -- N["gyro_bias"][i], v - v, u - 0)
      /\ Has(T["accel_bias"][i] -- N["accel_bias"][i], p - p, q - 0)
  BY <1>4, HasDifference
<1>6. u - 0 = u /\ q - 0 = q
  OBVIOUS
<1> QED
  BY <1>1, <1>2, <1>5, <1>6, HasParts

(***************************************************************************)
(* The entries of the Jacobians                                            *)
(***************************************************************************)
\* Twice the half of a number is the number.
LEMMA HalvesCancel ==
    ASSUME NEW x \in Int
    PROVE  (2 * (HalfInt * x)) % Prime = x % Prime
<1>1. HalfInt \in Int /\ 2 * HalfInt = Prime + 1
  BY PrimeAssumption DEF HalfInt
<1>2. PICK h \in Int, p \in Int : h = HalfInt /\ p = Prime
  BY <1>1, PrimeAssumption
<1>3. 2 * (h * x) = (2 * h) * x
  OBVIOUS
<1>4. (p + 1) * x = p * x + x
  OBVIOUS
<1>5. 2 * (HalfInt * x) = Prime * x + x /\ 2 * (HalfInt * x) \in Int
  BY <1>1, <1>2, <1>3, <1>4
<1> QED
  BY <1>5, ModSame DEF Congruent

\* The negated unit vector k, or no vector.
NegUnit(k) == [l \in 0 .. 2 |-> IF l = k THEN -1 ELSE 0]

\* A multiple of a quaternion.
Times4(n, a) == [i \in 0 .. 3 |-> n * a[i]]

\* The product with a multiple is the multiple of the product.
LEMMA HamTimes ==
    ASSUME NEW n \in Int, NEW a \in Integral, NEW b \in Integral, NEW i \in 1 .. 3
    PROVE  Ham(Times4(n, a), b)[i] = n * Ham(a, b)[i]
<1>1. PICK a0 \in Int, a1 \in Int, a2 \in Int, a3 \in Int :
         a0 = a[0] /\ a1 = a[1] /\ a2 = a[2] /\ a3 = a[3]
  BY DEF Integral
<1>2. PICK b0 \in Int, b1 \in Int, b2 \in Int, b3 \in Int :
         b0 = b[0] /\ b1 = b[1] /\ b2 = b[2] /\ b3 = b[3]
  BY DEF Integral
<1> DEFINE t == Times4(n, a)
<1>3. t[0] = n * a0 /\ t[1] = n * a1 /\ t[2] = n * a2 /\ t[3] = n * a3
  BY <1>1 DEF Times4
<1> HIDE DEF t
<1>4. CASE i = 1
  <2>1. Ham(t, b)[1] = ((n * a0) * b1 + (n * a1) * b0) + ((n * a2) * b3 - (n * a3) * b2)
    BY <1>2, <1>3 DEF Ham
  <2>2. Ham(a, b)[1] = (a0 * b1 + a1 * b0) + (a2 * b3 - a3 * b2)
    BY <1>1, <1>2 DEF Ham
  <2>3. ((n * a0) * b1 + (n * a1) * b0) + ((n * a2) * b3 - (n * a3) * b2)
          = n * ((a0 * b1 + a1 * b0) + (a2 * b3 - a3 * b2))
    OBVIOUS
  <2> QED
    BY <1>4, <2>1, <2>2, <2>3 DEF t
<1>5. CASE i = 2
  <2>1. Ham(t, b)[2] = ((n * a0) * b2 + (n * a2) * b0) + ((n * a3) * b1 - (n * a1) * b3)
    BY <1>2, <1>3 DEF Ham
  <2>2. Ham(a, b)[2] = (a0 * b2 + a2 * b0) + (a3 * b1 - a1 * b3)
    BY <1>1, <1>2 DEF Ham
  <2>3. ((n * a0) * b2 + (n * a2) * b0) + ((n * a3) * b1 - (n * a1) * b3)
          = n * ((a0 * b2 + a2 * b0) + (a3 * b1 - a1 * b3))
    OBVIOUS
  <2> QED
    BY <1>5, <2>1, <2>2, <2>3 DEF t
<1>6. CASE i = 3
  <2>1. Ham(t, b)[3] = ((n * a0) * b3 + (n * a3) * b0) + ((n * a1) * b2 - (n * a2) * b1)
    BY <1>2, <1>3 DEF Ham
  <2>2. Ham(a, b)[3] = (a0 * b3 + a3 * b0) + (a1 * b2 - a2 * b1)
    BY <1>1, <1>2 DEF Ham
  <2>3. ((n * a0) * b3 + (n * a3) * b0) + ((n * a1) * b2 - (n * a2) * b1)
          = n * ((a0 * b3 + a3 * b0) + (a1 * b2 - a2 * b1))
    OBVIOUS
  <2> QED
    BY <1>6, <2>1, <2>2, <2>3 DEF t
<1> QED
  BY <1>4, <1>5, <1>6

\* The rotation of an integral quaternion has integral entries.
LEMMA EntriesInt ==
    ASSUME NEW a \in Integral, NEW r \in 0 .. 2, NEW k \in 0 .. 2
    PROVE  UnitEntry(a, r, k) \in Int /\ RotationEntry(a, r, k) \in Int
<1>1. a[0] \in Int /\ a[1] \in Int /\ a[2] \in Int /\ a[3] \in Int
  BY DEF Integral
<1>2. UnitEntry(a, r, k) \in Int
  <2>1. IsField(a, Still)
    BY <1>1 DEF IsField, Still
  <2> QED
    BY <2>1, UnitEntryIs
<1>3. PICK b \in Int, c \in Int, d \in Int, e \in Int, f \in Int :
         b = a[0] /\ c = a[1] /\ d = a[2] /\ e = a[3] /\ f = a[r + 1]
  <2>1. r + 1 \in 0 .. 3
    OBVIOUS
  <2>2. a[r + 1] \in Int
    BY <2>1 DEF Integral
  <2> QED
    BY <1>1, <2>2
<1>4. 2 * (b * b + f * f) - (b * b + c * c + d * d + e * e) \in Int
  OBVIOUS
<1>5. RotationEntry(a, r, k) \in Int
  BY <1>2, <1>3, <1>4 DEF RotationEntry
<1> QED
  BY <1>2, <1>5

\* What the rotation makes of a unit vector.
LEMMA WorldUnit ==
    ASSUME NEW a \in Integral, NEW n \in Int, NEW r \in 0 .. 2, NEW k
    PROVE  World(a, Scaled(n, NegUnit(k)), r)
             = IF k \in 0 .. 2 THEN 0 - n * RotationEntry(a, r, k) ELSE 0
<1> DEFINE v == Scaled(n, NegUnit(k))
<1>1. PICK x \in Int, y \in Int, z \in Int :
         x = RotationEntry(a, r, 0) /\ y = RotationEntry(a, r, 1) /\ z = RotationEntry(a, r, 2)
  BY EntriesInt
<1>2. World(a, v, r) = x * v[0] + y * v[1] + z * v[2]
  BY <1>1 DEF World
<1>3. \A l \in 0 .. 2 : v[l] = n * (IF l = k THEN -1 ELSE 0)
  BY DEF Scaled, NegUnit
<1> HIDE DEF v
<1>4. CASE k = 0
  <2>1. v[0] = n * (-1) /\ v[1] = n * 0 /\ v[2] = n * 0
    BY <1>3, <1>4
  <2>2. x * (n * (-1)) + y * (n * 0) + z * (n * 0) = 0 - n * x
    OBVIOUS
  <2> QED
    BY <1>1, <1>2, <1>4, <2>1, <2>2 DEF v
<1>5. CASE k = 1
  <2>1. v[0] = n * 0 /\ v[1] = n * (-1) /\ v[2] = n * 0
    BY <1>3, <1>5
  <2>2. x * (n * 0) + y * (n * (-1)) + z * (n * 0) = 0 - n * y
    OBVIOUS
  <2> QED
    BY <1>1, <1>2, <1>5, <2>1, <2>2 DEF v
<1>6. CASE k = 2
  <2>1. v[0] = n * 0 /\ v[1] = n * 0 /\ v[2] = n * (-1)
    BY <1>3, <1>6
  <2>2. x * (n * 0) + y * (n * 0) + z * (n * (-1)) = 0 - n * z
    OBVIOUS
  <2> QED
    BY <1>1, <1>2, <1>6, <2>1, <2>2 DEF v
<1>7. CASE k \notin 0 .. 2
  <2>1. v[0] = n * 0 /\ v[1] = n * 0 /\ v[2] = n * 0
    BY <1>3, <1>7
  <2>2. x * (n * 0) + y * (n * 0) + z * (n * 0) = 0
    OBVIOUS
  <2> QED
    BY <1>2, <1>7, <2>1, <2>2 DEF v
<1>8. k \in 0 .. 2 => k = 0 \/ k = 1 \/ k = 2
  OBVIOUS
<1> QED
  BY <1>4, <1>5, <1>6, <1>7, <1>8

\* The change of a rotated vector that changes along a unit vector.
LEMMA ChangeUnit ==
    ASSUME NEW a \in Integral, NEW v \in [0 .. 2 -> Int], NEW r \in 0 .. 2, NEW k
    PROVE  RotateChange(a, Zero4, v, NegUnit(k), r)
             = IF k \in 0 .. 2 THEN 0 - UnitEntry(a, r, k) ELSE 0
<1>1. PICK x \in Int, y \in Int, z \in Int :
         x = UnitEntry(a, r, 0) /\ y = UnitEntry(a, r, 1) /\ z = UnitEntry(a, r, 2)
  BY EntriesInt
<1>2. PICK u \in Int, w \in Int, s \in Int : u = v[0] /\ w = v[1] /\ s = v[2]
  OBVIOUS
<1>3. UnitChange(a, Zero4, r, 0) = 0 /\ UnitChange(a, Zero4, r, 1) = 0 /\ UnitChange(a, Zero4, r, 2) = 0
  BY ZeroChange
<1> DEFINE g == NegUnit(k)
<1>4. \A l \in 0 .. 2 : g[l] = IF l = k THEN -1 ELSE 0
  BY DEF NegUnit
<1> HIDE DEF g
<1>5. RotateChange(a, Zero4, v, g, r) = (x * g[0] + 0 * u) + (y * g[1] + 0 * w) + (z * g[2] + 0 * s)
  BY <1>1, <1>2, <1>3 DEF RotateChange
<1>6. CASE k = 0
  <2>1. g[0] = -1 /\ g[1] = 0 /\ g[2] = 0
    BY <1>4, <1>6
  <2>2. (x * (-1) + 0 * u) + (y * 0 + 0 * w) + (z * 0 + 0 * s) = 0 - x
    OBVIOUS
  <2> QED
    BY <1>1, <1>5, <1>6, <2>1, <2>2 DEF g
<1>7. CASE k = 1
  <2>1. g[0] = 0 /\ g[1] = -1 /\ g[2] = 0
    BY <1>4, <1>7
  <2>2. (x * 0 + 0 * u) + (y * (-1) + 0 * w) + (z * 0 + 0 * s) = 0 - y
    OBVIOUS
  <2> QED
    BY <1>1, <1>5, <1>7, <2>1, <2>2 DEF g
<1>8. CASE k = 2
  <2>1. g[0] = 0 /\ g[1] = 0 /\ g[2] = -1
    BY <1>4, <1>8
  <2>2. (x * 0 + 0 * u) + (y * 0 + 0 * w) + (z * (-1) + 0 * s) = 0 - z
    OBVIOUS
  <2> QED
    BY <1>1, <1>5, <1>8, <2>1, <2>2 DEF g
<1>9. CASE k \notin 0 .. 2
  <2>1. g[0] = 0 /\ g[1] = 0 /\ g[2] = 0
    BY <1>4, <1>9
  <2>2. (x * 0 + 0 * u) + (y * 0 + 0 * w) + (z * 0 + 0 * s) = 0
    OBVIOUS
  <2> QED
    BY <1>5, <1>9, <2>1, <2>2 DEF g
<1>10. k \in 0 .. 2 => k = 0 \/ k = 1 \/ k = 2
  OBVIOUS
<1> QED
  BY <1>6, <1>7, <1>8, <1>9, <1>10

\* A multiple of the change of an attitude.
LEMMA ChangeTimes ==
    ASSUME NEW n \in Int, NEW a \in Integral, NEW d \in Integral, NEW r \in 0 .. 2, NEW k \in 0 .. 2
    PROVE  \E o \in Int :
              UnitChange(a, d, r, k) = o /\ UnitChange(a, Times4(n, d), r, k) = n * o
<1>1. \A i \in 0 .. 3 : a[i] \in Int /\ d[i] \in Int
  BY DEF Integral
<1> DEFINE t == Times4(n, d)
<1>2. \A i \in 0 .. 3 : t[i] = n * d[i]
  BY DEF Times4
<1> HIDE DEF t
<1>3. CASE r = k
  <2>1. PICK i \in 0 .. 3 : i = r + 1
    OBVIOUS
  <2>2. PICK x \in Int, y \in Int : x = a[i] /\ y = d[i]
    BY <1>1
  <2>3. PICK b \in Int, c \in Int, e \in Int : b = a[1] /\ c = a[2] /\ e = a[3]
    BY <1>1
  <2>4. PICK f \in Int, g \in Int, h \in Int : f = d[1] /\ g = d[2] /\ h = d[3]
    BY <1>1
  <2>5. UnitChange(a, d, r, k) = 0 - 4 * ((b * f + c * g + e * h) - x * y)
    BY <1>3, <2>1, <2>2, <2>3, <2>4 DEF UnitChange
  <2>6. t[1] = n * f /\ t[2] = n * g /\ t[3] = n * h /\ t[i] = n * y
    BY <1>2, <2>2, <2>4
  <2>7. UnitChange(a, t, r, k)
          = 0 - 4 * ((b * (n * f) + c * (n * g) + e * (n * h)) - x * (n * y))
    BY <1>3, <2>1, <2>2, <2>3, <2>6 DEF UnitChange
  <2>8. 0 - 4 * ((b * (n * f) + c * (n * g) + e * (n * h)) - x * (n * y))
          = n * (0 - 4 * ((b * f + c * g + e * h) - x * y))
    OBVIOUS
  <2>9. 0 - 4 * ((b * f + c * g + e * h) - x * y) \in Int
    OBVIOUS
  <2> QED
    BY <2>5, <2>7, <2>8, <2>9 DEF t
<1>4. CASE r # k
  <2>1. PICK i \in 0 .. 3, j \in 0 .. 3, l \in 0 .. 3 : i = r + 1 /\ j = k + 1 /\ l = 4 - r - k
    BY <1>4
  <2>2. PICK x \in Int, y \in Int, z \in Int, w \in Int :
           x = a[i] /\ y = a[j] /\ z = a[l] /\ w = a[0]
    <3>1. a[i] \in Int /\ a[j] \in Int /\ a[l] \in Int /\ a[0] \in Int
      BY <1>1
    <3> QED
      BY <3>1
  <2>3. PICK f \in Int, g \in Int, h \in Int, e \in Int :
           f = d[i] /\ g = d[j] /\ h = d[l] /\ e = d[0]
    <3>1. d[i] \in Int /\ d[j] \in Int /\ d[l] \in Int /\ d[0] \in Int
      BY <1>1
    <3> QED
      BY <3>1
  <2>4. UnitChange(a, d, r, k)
          = 2 * (x * g + y * f) + (IF <<r, k>> \in {<<0, 1>>, <<1, 2>>, <<2, 0>>}
                                     THEN 0 - 2 * (w * h + z * e) ELSE 2 * (w * h + z * e))
    BY <1>4, <2>1, <2>2, <2>3 DEF UnitChange
  <2>5. t[i] = n * f /\ t[j] = n * g /\ t[l] = n * h /\ t[0] = n * e
    BY <1>2, <2>3
  <2>6. UnitChange(a, t, r, k)
          = 2 * (x * (n * g) + y * (n * f))
              + (IF <<r, k>> \in {<<0, 1>>, <<1, 2>>, <<2, 0>>}
                   THEN 0 - 2 * (w * (n * h) + z * (n * e)) ELSE 2 * (w * (n * h) + z * (n * e)))
    BY <1>4, <2>1, <2>2, <2>5 DEF UnitChange
  <2>7. 2 * (x * (n * g) + y * (n * f)) + (0 - 2 * (w * (n * h) + z * (n * e)))
          = n * (2 * (x * g + y * f) + (0 - 2 * (w * h + z * e)))
    OBVIOUS
  <2>8. 2 * (x * (n * g) + y * (n * f)) + 2 * (w * (n * h) + z * (n * e))
          = n * (2 * (x * g + y * f) + 2 * (w * h + z * e))
    OBVIOUS
  <2>9. /\ 2 * (x * g + y * f) + (0 - 2 * (w * h + z * e)) \in Int
        /\ 2 * (x * g + y * f) + 2 * (w * h + z * e) \in Int
    OBVIOUS
  <2>10. CASE <<r, k>> \in {<<0, 1>>, <<1, 2>>, <<2, 0>>}
    BY <2>4, <2>6, <2>7, <2>9, <2>10 DEF t
  <2>11. CASE <<r, k>> \notin {<<0, 1>>, <<1, 2>>, <<2, 0>>}
    BY <2>4, <2>6, <2>8, <2>9, <2>11 DEF t
  <2> QED
    BY <2>10, <2>11
<1> QED
  BY <1>3, <1>4

\* A vector in the world frame is one of integers.
LEMMA WorldInt ==
    ASSUME NEW a \in Integral, NEW v \in [0 .. 2 -> Int]
    PROVE  /\ \A r \in 0 .. 2 : World(a, v, r) \in Int
           /\ \A r, j \in 0 .. 2 : TurnOf(a, v, r, j) \in Int
<1>1. ASSUME NEW r \in 0 .. 2 PROVE World(a, v, r) \in Int
  <2>1. PICK x \in Int, y \in Int, z \in Int :
           x = RotationEntry(a, r, 0) /\ y = RotationEntry(a, r, 1) /\ z = RotationEntry(a, r, 2)
    BY EntriesInt
  <2>2. PICK u \in Int, w \in Int, s \in Int : u = v[0] /\ w = v[1] /\ s = v[2]
    OBVIOUS
  <2>3. World(a, v, r) = x * u + y * w + z * s
    BY <2>1, <2>2 DEF World
  <2> QED
    BY <2>3
<1>2. ASSUME NEW r \in 0 .. 2, NEW j \in 0 .. 2 PROVE TurnOf(a, v, r, j) \in Int
  <2>1. r # j => 3 - r - j \in 0 .. 2
    OBVIOUS
  <2>2. r # j => World(a, v, 3 - r - j) \in Int
    BY <1>1, <2>1
  <2>3. r # j => 0 - World(a, v, 3 - r - j) \in Int
    BY <2>2
  <2> QED
    BY <2>2, <2>3 DEF TurnOf
<1> QED
  BY <1>1, <1>2

\* The change of a rotated vector when the attitude turns about axis j by
\* half of n.
LEMMA ChangeTurn ==
    ASSUME NEW n \in Int, NEW a \in Integral, NEW v \in [0 .. 2 -> Int],
           NEW r \in 0 .. 2, NEW j \in 0 .. 2
    PROVE  RotateChange(a, Times4(n, TurnAbout(a, j)), v, Still, r) = 2 * (n * TurnOf(a, v, r, j))
<1>1. PICK d \in Integral : d = TurnAbout(a, j)
  BY TurnAboutIs
<1>2. \A k \in 0 .. 2 : \E t \in Int :
          UnitChange(a, d, r, k) = t /\ UnitChange(a, Times4(n, d), r, k) = n * t
  BY ChangeTimes, Zenon
<1>3. PICK x \in Int, y \in Int, z \in Int :
         x = UnitEntry(a, r, 0) /\ y = UnitEntry(a, r, 1) /\ z = UnitEntry(a, r, 2)
  BY EntriesInt
<1>4. PICK u \in Int, w \in Int, s \in Int : u = v[0] /\ w = v[1] /\ s = v[2]
  OBVIOUS
<1>5. IsQuaternion(a)
  BY DEF IsQuaternion, Integral
<1>6. UnitChange(a, d, r, 0) * u + UnitChange(a, d, r, 1) * w + UnitChange(a, d, r, 2) * s
        = 2 * TurnOf(a, v, r, j)
  BY <1>1, <1>4, <1>5, TurnIs
<1>7. PICK f \in Int, g \in Int, h \in Int :
         /\ UnitChange(a, d, r, 0) = f /\ UnitChange(a, Times4(n, d), r, 0) = n * f
         /\ UnitChange(a, d, r, 1) = g /\ UnitChange(a, Times4(n, d), r, 1) = n * g
         /\ UnitChange(a, d, r, 2) = h /\ UnitChange(a, Times4(n, d), r, 2) = n * h
  BY <1>2
<1>8. Still[0] = 0 /\ Still[1] = 0 /\ Still[2] = 0
  BY DEF Still
<1>9. RotateChange(a, Times4(n, d), v, Still, r)
        = (x * 0 + (n * f) * u) + (y * 0 + (n * g) * w) + (z * 0 + (n * h) * s)
  BY <1>3, <1>4, <1>7, <1>8 DEF RotateChange
<1>10. (x * 0 + (n * f) * u) + (y * 0 + (n * g) * w) + (z * 0 + (n * h) * s)
         = n * (f * u + g * w + h * s)
  OBVIOUS
<1>11. PICK t \in Int : t = TurnOf(a, v, r, j)
  BY WorldInt
<1>12. n * (2 * t) = 2 * (n * t)
  OBVIOUS
<1> QED
  BY <1>1, <1>6, <1>7, <1>9, <1>10, <1>11, <1>12

\* The turn of the attitude along an error: half of a turn about axis j, or
\* none.
LEMMA TurnByIs ==
    ASSUME NEW arg, IsInput(arg), NEW c \in [0 .. 14 -> Int]
    PROVE  /\ c[0] = 0 /\ c[1] = 0 /\ c[2] = 0 => TurnBy(arg, c) = Zero4
           /\ \A j \in 0 .. 2 : (\A i \in 0 .. 2 : c[i] = Delta(i, j)) =>
                 TurnBy(arg, c) = Times4(HalfInt, TurnAbout(Quat(arg), j))
<1>1. PICK a \in Int, b \in Int, d \in Int, e \in Int :
         a = Quat(arg)[0] /\ b = Quat(arg)[1] /\ d = Quat(arg)[2] /\ e = Quat(arg)[3]
  <2>1. Quat(arg) \in Integral
    BY InputsInt
  <2>2. /\ Quat(arg)[0] \in Int /\ Quat(arg)[1] \in Int
        /\ Quat(arg)[2] \in Int /\ Quat(arg)[3] \in Int
    BY <2>1 DEF Integral
  <2> QED
    BY <2>2
<1>2. arg.state[0] = a /\ arg.state[1] = b /\ arg.state[2] = d /\ arg.state[3] = e
  BY <1>1 DEF Quat
<1>3. PICK k0 \in Int, k1 \in Int, k2 \in Int :
         k0 = HalfInt * c[0] /\ k1 = HalfInt * c[1] /\ k2 = HalfInt * c[2]
  <2>1. \A x \in Int : HalfInt * x \in Int
    BY HalfIs
  <2>2. c[0] \in Int /\ c[1] \in Int /\ c[2] \in Int
    OBVIOUS
  <2> QED
    BY <2>1, <2>2
<1> DEFINE T == TurnBy(arg, c)
<1>4. /\ T[0] = 0 - (k0 * b + k1 * d + k2 * e) /\ T[1] = k0 * a + (k1 * e - k2 * d)
      /\ T[2] = k1 * a + (k2 * b - k0 * e) /\ T[3] = k2 * a + (k0 * d - k1 * b)
  BY <1>2, <1>3 DEF TurnBy, Changes
<1>5. T = [i \in 0 .. 3 |-> T[i]]
  BY DEF TurnBy
<1>6. \A i \in 0 .. 3 : i = 0 \/ i = 1 \/ i = 2 \/ i = 3
  OBVIOUS
<1>7. PICK h \in Int : h = HalfInt
  BY HalfIs
<1> HIDE DEF T
<1>8. ASSUME c[0] = 0 /\ c[1] = 0 /\ c[2] = 0 PROVE T = Zero4
  <2>1. k0 = 0 /\ k1 = 0 /\ k2 = 0
    BY <1>3, <1>7, <1>8
  <2>2. T[0] = 0 /\ T[1] = 0 /\ T[2] = 0 /\ T[3] = 0
    BY <1>4, <2>1
  <2> QED
    BY <1>5, <1>6, <2>2 DEF Zero4
<1>9. ASSUME NEW j \in 0 .. 2, \A i \in 0 .. 2 : c[i] = Delta(i, j)
      PROVE  T = Times4(HalfInt, TurnAbout(Quat(arg), j))
  <2> DEFINE A == TurnAbout(Quat(arg), j)
             R == Times4(h, A)
  <2>1. R[0] = h * A[0] /\ R[1] = h * A[1] /\ R[2] = h * A[2] /\ R[3] = h * A[3]
    BY DEF Times4
  <2>2. R = [i \in 0 .. 3 |-> R[i]]
    BY DEF Times4
  <2>3. T[0] = R[0] /\ T[1] = R[1] /\ T[2] = R[2] /\ T[3] = R[3]
    <3>1. CASE j = 0
      <4>1. A[0] = 0 - b /\ A[1] = a /\ A[2] = 0 - e /\ A[3] = d
        BY <1>1, <3>1 DEF TurnAbout
      <4>2. k0 = h /\ k1 = 0 /\ k2 = 0
        BY <1>3, <1>7, <1>9, <3>1 DEF Delta
      <4> HIDE DEF A, R
      <4> QED
        BY <1>4, <2>1, <4>1, <4>2
    <3>2. CASE j = 1
      <4>1. A[0] = 0 - d /\ A[1] = e /\ A[2] = a /\ A[3] = 0 - b
        BY <1>1, <3>2 DEF TurnAbout
      <4>2. k0 = 0 /\ k1 = h /\ k2 = 0
        BY <1>3, <1>7, <1>9, <3>2 DEF Delta
      <4> HIDE DEF A, R
      <4> QED
        BY <1>4, <2>1, <4>1, <4>2
    <3>3. CASE j = 2
      <4>1. A[0] = 0 - e /\ A[1] = 0 - d /\ A[2] = b /\ A[3] = a
        BY <1>1, <3>3 DEF TurnAbout
      <4>2. k0 = 0 /\ k1 = 0 /\ k2 = h
        BY <1>3, <1>7, <1>9, <3>3 DEF Delta
      <4> HIDE DEF A, R
      <4> QED
        BY <1>4, <2>1, <4>1, <4>2
    <3> QED
      BY <3>1, <3>2, <3>3
  <2> HIDE DEF R
  <2>4. T = R
    BY <1>5, <1>6, <2>2, <2>3
  <2> QED
    BY <1>7, <2>4 DEF R
<1> QED
  BY <1>8, <1>9 DEF T

(***************************************************************************)
(* The coefficients of the generated function                              *)
(***************************************************************************)
\* The squared norm of the attitude.
NormOf(a) == a[0] * a[0] + a[1] * a[1] + a[2] * a[2] + a[3] * a[3]

\* The rotation matrices and the norm of the generated function are these
\* entries, reduced.
LEMMA RotationsAre ==
    ASSUME NEW arg, IsInput(arg), NEW r \in 0 .. 2, NEW k \in 0 .. 2
    PROVE  /\ NormOf(Quat(arg)) \in Int /\ Norm(arg.state) = NormOf(Quat(arg)) % Prime
           /\ UnitRotation(arg.state, r, k) = UnitEntry(Quat(arg), r, k) % Prime
           /\ Rotation(arg.state, r, k) = RotationEntry(Quat(arg), r, k) % Prime
<1> DEFINE s == arg.state
           a == Quat(arg)
<1>1. \A i \in 0 .. 3 : s[i] = a[i] /\ a[i] \in Int
  BY InputsInt DEF Quat, Integral
<1> HIDE DEF s, a
<1>2. PICK x \in Int, y \in Int, z \in Int, w \in Int : x = a[0] /\ y = a[1] /\ z = a[2] /\ w = a[3]
  BY <1>1
<1>3. s[0] = x /\ s[1] = y /\ s[2] = z /\ s[3] = w
  BY <1>1, <1>2
<1>4. PICK n \in Int : n = x * x + y * y + z * z + w * w
  OBVIOUS
<1>5. NormOf(a) = n /\ Norm(s) = n % Prime
  BY <1>2, <1>3, <1>4 DEF NormOf, Norm
<1>6. UnitEntry(s, r, k) = UnitEntry(a, r, k)
  <2>1. CASE r = k
    BY <1>1, <2>1 DEF UnitEntry
  <2>2. CASE r # k
    <3>1. PICK i \in 0 .. 3, j \in 0 .. 3, l \in 0 .. 3 : i = r + 1 /\ j = k + 1 /\ l = 4 - r - k
      BY <2>2
    <3>2. s[i] = a[i] /\ s[j] = a[j] /\ s[l] = a[l] /\ s[0] = a[0]
      BY <1>1
    <3> QED
      BY <2>2, <3>1, <3>2 DEF UnitEntry
  <2> QED
    BY <2>1, <2>2
<1>7. UnitRotation(s, r, k) = UnitEntry(a, r, k) % Prime
  <2>1. IsField(s, Still)
    BY <1>3 DEF IsField, Still
  <2> QED
    BY <1>6, <2>1, UnitEntryIs
<1>8. CASE r = k
  <2>1. PICK t \in Int : t = a[r + 1] /\ t = s[r + 1]
    <3>1. r + 1 \in 0 .. 3
      OBVIOUS
    <3> QED
      BY <1>1, <3>1
  <2>2. PICK d \in Int : d = 2 * (x * x + t * t)
    OBVIOUS
  <2>3. Rotation(s, r, k) = (d - (n % Prime)) % Prime
    BY <1>3, <1>5, <1>8, <2>1, <2>2 DEF Rotation
  <2>4. RotationEntry(a, r, k) = d - n
    BY <1>2, <1>4, <1>8, <2>1, <2>2 DEF RotationEntry
  <2> QED
    BY <1>5, <1>7, <2>3, <2>4, ModArith DEF s, a
<1>9. CASE r # k
  <2>1. Rotation(s, r, k) = UnitRotation(s, r, k) /\ RotationEntry(a, r, k) = UnitEntry(a, r, k)
    BY <1>9 DEF Rotation, UnitRotation, RotationEntry
  <2> QED
    BY <1>5, <1>7, <2>1 DEF s, a
<1> QED
  BY <1>8, <1>9

\* The acceleration in the world frame and the three kinds of coefficients,
\* from the same entries.
LEMMA AccelerationIs ==
    ASSUME NEW arg, IsInput(arg), NEW r \in 0 .. 2
    PROVE  /\ World(Quat(arg), Accel(arg), r) \in Int
           /\ Acceleration(arg, r) = World(Quat(arg), Accel(arg), r) % Prime
<1> DEFINE R(k) == RotationEntry(Quat(arg), r, k)
           v(k) == Accel(arg)[k]
           f == [k \in 0 .. 2 |-> R(k) * v(k)]
<1>1. \A k \in 0 .. 2 : R(k) \in Int /\ v(k) \in Int
  BY InputsInt, EntriesInt
<1>2. World(Quat(arg), Accel(arg), r) \in Int
  BY InputsInt, WorldInt
<1>3. \A k \in 0 .. 2 : Rotation(arg.state, r, k) = R(k) % Prime
  BY RotationsAre
<1>4. \A k \in 0 .. 2 : arg.accel[k] - arg.state[13 + k] = v(k)
  BY DEF Accel
<1>5. f[0] + f[1] + f[2] = World(Quat(arg), Accel(arg), r)
  BY DEF World
<1> HIDE DEF R, v
<1>6. \A k \in 0 .. 2 :
         (Rotation(arg.state, r, k) * ((arg.accel[k] - arg.state[13 + k]) % Prime)) % Prime = f[k] % Prime
  <2> SUFFICES ASSUME NEW k \in 0 .. 2
               PROVE  ((R(k) % Prime) * (v(k) % Prime)) % Prime = (R(k) * v(k)) % Prime
    BY <1>3, <1>4
  <2> QED
    BY <1>1, ModBoth
<1>7. f \in [0 .. 2 -> Int]
  <2>1. \A k \in 0 .. 2 : R(k) * v(k) \in Int
    BY <1>1
  <2> QED
    BY <2>1
<1> HIDE DEF f
<1>8. Acceleration(arg, r) = SumOfThree([k \in Axes |-> f[k] % Prime])
  BY <1>6 DEF Acceleration, Axes
<1> QED
  BY <1>2, <1>5, <1>7, <1>8, SumOfThreeIs

\* The coefficients of the biases are entries of the two rotations, reduced.
LEMMA CoefficientsAre ==
    ASSUME NEW arg, IsInput(arg), NEW r \in 0 .. 2, NEW k \in 0 .. 2
    PROVE  /\ GyroCoefficient(arg, r, k) = (0 - arg.dt * RotationEntry(Quat(arg), r, k)) % Prime
           /\ AccelCoefficient(arg, r, k) = (0 - arg.dt * UnitEntry(Quat(arg), r, k)) % Prime
           /\ TurnOf(Quat(arg), Accel(arg), r, k) \in Int
           /\ TurnCoefficient(arg, r, k) = (arg.dt * TurnOf(Quat(arg), Accel(arg), r, k)) % Prime
<1>1. PICK t \in Int, x \in Int, y \in Int :
         t = arg.dt /\ x = RotationEntry(Quat(arg), r, k) /\ y = UnitEntry(Quat(arg), r, k)
  BY InputsInt, EntriesInt DEF IsInput
<1>2. ASSUME NEW a \in Int PROVE (-((a % Prime) * t)) % Prime = (0 - t * a) % Prime
  <2>1. PICK b \in Int : b = a % Prime
    BY ModIs
  <2>2. PICK m \in Int, n \in Int : m = b * t /\ n = a * t
    OBVIOUS
  <2>3. m % Prime = n % Prime
    BY <2>1, <2>2, ModArith
  <2>4. (0 - (m % Prime)) % Prime = (0 - m) % Prime /\ (0 - (n % Prime)) % Prime = (0 - n) % Prime
    BY ModArith
  <2>5. (0 - m) % Prime = (0 - n) % Prime
    BY <2>3, <2>4
  <2>6. 0 - m = -(b * t) /\ 0 - n = 0 - t * a
    BY <2>2
  <2> QED
    BY <2>1, <2>5, <2>6
<1>3. /\ Rotation(arg.state, r, k) = x % Prime /\ UnitRotation(arg.state, r, k) = y % Prime
  BY <1>1, RotationsAre
<1>4. GyroCoefficient(arg, r, k) = (0 - t * x) % Prime
  BY <1>1, <1>2, <1>3 DEF GyroCoefficient
<1>5. AccelCoefficient(arg, r, k) = (0 - t * y) % Prime
  BY <1>1, <1>2, <1>3 DEF AccelCoefficient
<1>6. TurnOf(Quat(arg), Accel(arg), r, k) \in Int
  BY InputsInt, WorldInt
<1>7. TurnCoefficient(arg, r, k) = (t * TurnOf(Quat(arg), Accel(arg), r, k)) % Prime
  <2>1. CASE r = k
    <3>1. TurnCoefficient(arg, r, k) = 0 /\ TurnOf(Quat(arg), Accel(arg), r, k) = 0
      BY <2>1 DEF TurnCoefficient, TurnOf
    <3>2. t * 0 = 0
      OBVIOUS
    <3> QED
      BY <3>1, <3>2, ModSmall
  <2>2. CASE r # k
    <3>1. PICK l \in 0 .. 2 : l = 3 - r - k
      BY <2>2
    <3>2. PICK w \in Int : w = World(Quat(arg), Accel(arg), l) /\ Acceleration(arg, l) = w % Prime
      BY AccelerationIs
    <3>3. CASE <<r, k>> \in {<<0, 1>>, <<1, 2>>, <<2, 0>>}
      <4>1. TurnCoefficient(arg, r, k) = ((w % Prime) * t) % Prime
        BY <1>1, <2>2, <3>1, <3>2, <3>3 DEF TurnCoefficient
      <4>2. TurnOf(Quat(arg), Accel(arg), r, k) = w
        BY <2>2, <3>1, <3>2, <3>3 DEF TurnOf
      <4>3. ((w % Prime) * t) % Prime = (w * t) % Prime /\ w * t = t * w
        BY ModArith
      <4> QED
        BY <4>1, <4>2, <4>3
    <3>4. CASE <<r, k>> \notin {<<0, 1>>, <<1, 2>>, <<2, 0>>}
      <4>1. TurnCoefficient(arg, r, k) = (-((w % Prime) * t)) % Prime
        BY <1>1, <2>2, <3>1, <3>2, <3>4 DEF TurnCoefficient
      <4>2. TurnOf(Quat(arg), Accel(arg), r, k) = 0 - w
        BY <2>2, <3>1, <3>2, <3>4 DEF TurnOf
      <4>3. 0 - t * w = t * (0 - w)
        OBVIOUS
      <4> QED
        BY <1>2, <4>1, <4>2, <4>3
    <3> QED
      BY <3>3, <3>4
  <2> QED
    BY <2>1, <2>2
<1> QED
  BY <1>1, <1>4, <1>5, <1>6, <1>7

(***************************************************************************)
(* The entries, along one error or one noise                               *)
(***************************************************************************)
\* The change of the attitude without a turn: that of one angular velocity, or
\* none.
LEMMA DrivenAttitude ==
    ASSUME NEW a \in Integral, NEW t \in Int, NEW r \in 0 .. 2, NEW k
    PROVE  (2 * (Ham(Zero4, Conj4(a))[r + 1] + World(a, Scaled(HalfInt * t, NegUnit(k)), r))) % Prime
             = IF k \in 0 .. 2 THEN (0 - t * RotationEntry(a, r, k)) % Prime ELSE 0
<1>1. Ham(Zero4, Conj4(a))[r + 1] = 0
  <2>1. Ham(Zero4, Conj4(a)) = Zero4
    BY HamUnits
  <2>2. PICK i \in 0 .. 3 : i = r + 1
    OBVIOUS
  <2>3. Zero4[i] = 0
    BY DEF Zero4
  <2> QED
    BY <2>1, <2>2, <2>3
<1>2. PICK h \in Int, n \in Int : h = HalfInt /\ n = HalfInt * t
  BY HalfIs
<1>3. World(a, Scaled(n, NegUnit(k)), r) = IF k \in 0 .. 2 THEN 0 - n * RotationEntry(a, r, k) ELSE 0
  BY WorldUnit
<1>4. CASE k \in 0 .. 2
  <2>1. PICK x \in Int : x = RotationEntry(a, r, k)
    BY <1>4, EntriesInt
  <2>2. PICK y \in Int : y = 0 - t * x
    OBVIOUS
  <2>3. 2 * (0 + (0 - n * x)) = 2 * (h * y)
    <3>1. n = h * t
      BY <1>2
    <3>2. 2 * (0 + (0 - (h * t) * x)) = 2 * (h * (0 - t * x))
      OBVIOUS
    <3> QED
      BY <2>2, <3>1, <3>2
  <2>4. (2 * (h * y)) % Prime = y % Prime
    BY <1>2, HalvesCancel
  <2> QED
    BY <1>1, <1>2, <1>3, <1>4, <2>1, <2>2, <2>3, <2>4
<1>5. CASE k \notin 0 .. 2
  <2>1. 2 * (0 + 0) = 0
    OBVIOUS
  <2> QED
    BY <1>1, <1>2, <1>3, <1>5, <2>1, ModSmall
<1> QED
  BY <1>4, <1>5

\* The change of the attitude by a turn about axis j.
LEMMA TurnedAttitude ==
    ASSUME NEW a \in Integral, NEW t \in Int, NEW r \in 0 .. 2, NEW j \in 0 .. 2, NEW k, k \notin 0 .. 2
    PROVE  (2 * (Ham(Times4(HalfInt, TurnAbout(a, j)), Conj4(a))[r + 1]
                   + World(a, Scaled(HalfInt * t, NegUnit(k)), r))) % Prime
             = IF r = j THEN NormOf(a) % Prime ELSE 0
<1>1. PICK h \in Int, n \in Int : h = HalfInt /\ n = HalfInt * t
  BY HalfIs
<1>2. World(a, Scaled(n, NegUnit(k)), r) = 0
  BY WorldUnit
<1>3. PICK d \in Integral : d = TurnAbout(a, j)
  BY TurnAboutIs
<1>4. PICK b \in Integral : b = Conj4(a)
  BY HamUnits
<1>5. PICK i \in 1 .. 3 : i = r + 1
  OBVIOUS
<1>6. PICK x \in Int : x = Ham(d, b)[i] /\ x = IF r = j THEN NormOf(a) ELSE 0
  <2>1. Ham(d, b)[i] = IF r = j THEN NormOf(a) ELSE 0
    BY <1>3, <1>4, <1>5, TurnAboutIs DEF NormOf
  <2>2. Ham(d, b) \in Integral
    BY HamInt
  <2>3. i \in 0 .. 3
    OBVIOUS
  <2>4. Ham(d, b)[i] \in Int
    BY <2>2, <2>3 DEF Integral
  <2> QED
    BY <2>1, <2>4
<1>7. Ham(Times4(h, d), b)[i] = h * Ham(d, b)[i]
  BY HamTimes, Zenon
<1>8. 2 * (h * x + 0) = 2 * (h * x)
  OBVIOUS
<1>9. (2 * (h * x)) % Prime = x % Prime
  BY <1>1, HalvesCancel
<1>10. (2 * (Ham(Times4(h, d), b)[i] + World(a, Scaled(n, NegUnit(k)), r))) % Prime = x % Prime
  BY <1>2, <1>6, <1>7, <1>8, <1>9
<1> QED
  BY <1>1, <1>3, <1>4, <1>5, <1>6, <1>10, ModSmall

\* A vector along no axis.
LEMMA NoUnit ==
    ASSUME NEW k, k \notin 0 .. 2
    PROVE  NegUnit(k) = Still
BY DEF NegUnit, Still

\* The change of the velocity by a turn about axis j.
LEMMA TurnedVelocity ==
    ASSUME NEW a \in Integral, NEW t \in Int, NEW v \in [0 .. 2 -> Int],
           NEW r \in 0 .. 2, NEW j \in 0 .. 2, NEW k, k \notin 0 .. 2
    PROVE  (0 + t * RotateChange(a, Times4(HalfInt, TurnAbout(a, j)), v, NegUnit(k), r)) % Prime
             = (t * TurnOf(a, v, r, j)) % Prime
<1>1. PICK h \in Int : h = HalfInt
  BY HalfIs
<1>2. PICK x \in Int : x = TurnOf(a, v, r, j)
  BY WorldInt
<1>3. RotateChange(a, Times4(h, TurnAbout(a, j)), v, Still, r) = 2 * (h * TurnOf(a, v, r, j))
  BY ChangeTurn
<1>4. 0 + t * (2 * (h * x)) = 2 * (h * (t * x)) /\ t * x \in Int
  OBVIOUS
<1>5. (2 * (h * (t * x))) % Prime = (t * x) % Prime
  BY <1>1, <1>4, HalvesCancel
<1> QED
  BY <1>1, <1>2, <1>3, <1>4, <1>5, NoUnit

\* The change of a velocity that changes by u.
VelocityEntry(u, t, a, d, v, g, r) == (u + t * RotateChange(a, d, v, g, r)) % Prime

\* The change of the velocity without a turn: that of one acceleration, or of
\* the velocity.
LEMMA DrivenVelocity ==
    ASSUME NEW a \in Integral, NEW t \in Int, NEW v \in [0 .. 2 -> Int], NEW r \in 0 .. 2, NEW k,
           NEW u \in Int, k \in 0 .. 2 => u = 0
    PROVE  VelocityEntry(u, t, a, Zero4, v, NegUnit(k), r)
             = IF k \in 0 .. 2 THEN (0 - t * UnitEntry(a, r, k)) % Prime ELSE u % Prime
<1>1. RotateChange(a, Zero4, v, NegUnit(k), r) = IF k \in 0 .. 2 THEN 0 - UnitEntry(a, r, k) ELSE 0
  BY ChangeUnit
<1>2. CASE k \in 0 .. 2
  <2>1. PICK x \in Int : x = UnitEntry(a, r, k)
    BY <1>2, EntriesInt
  <2>2. 0 + t * (0 - x) = 0 - t * x
    OBVIOUS
  <2> QED
    BY <1>1, <1>2, <2>1, <2>2 DEF VelocityEntry
<1>3. CASE k \notin 0 .. 2
  <2>1. u + t * 0 = u
    OBVIOUS
  <2> QED
    BY <1>1, <1>3, <2>1 DEF VelocityEntry
<1> QED
  BY <1>2, <1>3

\* Along one error, and along one noise, the inputs change so.
LEMMA AlongError ==
    ASSUME NEW arg, IsInput(arg), NEW j \in 0 .. 14
    PROVE  \E c, m :
              /\ IsAlong(Along(j, Tangent), AllZero(0 .. 5), c, m)
              /\ \A i \in 0 .. 14 : c[i] = Delta(i, j)
              /\ j \in 0 .. 2 => TurnBy(arg, c) = Times4(HalfInt, TurnAbout(Quat(arg), j))
              /\ j \notin 0 .. 2 => TurnBy(arg, c) = Zero4
              /\ GyroBy(c, m) = NegUnit(j - 9) /\ AccelBy(c, m) = NegUnit(j - 12)
<1> DEFINE c == [i \in 0 .. 14 |-> Delta(i, j)]
           m == [i \in 0 .. 5 |-> 0]
<1>1. EPS = Number(0, 1) /\ Zero = Number(0, 0)
  BY ModIsNumber DEF Number
<1>2. /\ \A i \in 0 .. 14 : Along(j, Tangent)[i] = IF i = j THEN EPS ELSE Zero
      /\ \A i \in 0 .. 5 : AllZero(0 .. 5)[i] = Zero
  BY Layout DEF Along, AllZero
<1>3. /\ c \in [0 .. 14 -> Int] /\ m \in [0 .. 5 -> Int]
      /\ \A i \in 0 .. 14 : c[i] = Delta(i, j)
      /\ \A i \in 0 .. 5 : m[i] = 0
  BY DEF Delta
<1> HIDE DEF c, m
<1>4. \A i \in 0 .. 14 : Along(j, Tangent)[i] = Number(0, c[i])
  BY <1>1, <1>2, <1>3 DEF Delta
<1>5. IsAlong(Along(j, Tangent), AllZero(0 .. 5), c, m)
  BY <1>1, <1>2, <1>3, <1>4 DEF IsAlong
<1>6. \A i \in 0 .. 2 : i \in 0 .. 14 /\ 9 + i \in 0 .. 14 /\ 12 + i \in 0 .. 14 /\ i \in 0 .. 5 /\ 3 + i \in 0 .. 5
  OBVIOUS
<1>7. j \in 0 .. 2 => TurnBy(arg, c) = Times4(HalfInt, TurnAbout(Quat(arg), j))
  BY <1>3, <1>6, TurnByIs
<1>8. j \notin 0 .. 2 => TurnBy(arg, c) = Zero4
  <2> SUFFICES ASSUME j \notin 0 .. 2 PROVE TurnBy(arg, c) = Zero4
    OBVIOUS
  <2>1. c[0] = 0 /\ c[1] = 0 /\ c[2] = 0
    BY <1>3 DEF Delta
  <2> QED
    BY <1>3, <2>1, TurnByIs
<1>9. \A k \in 0 .. 2 : /\ (0 - c[9 + k]) - m[3 + k] = IF k = j - 9 THEN -1 ELSE 0
                        /\ (0 - c[12 + k]) - m[k] = IF k = j - 12 THEN -1 ELSE 0
  BY <1>3, <1>6 DEF Delta
<1>10. GyroBy(c, m) = NegUnit(j - 9) /\ AccelBy(c, m) = NegUnit(j - 12)
  BY <1>9 DEF GyroBy, AccelBy, NegUnit
<1> QED
  BY <1>3, <1>5, <1>7, <1>8, <1>10

\* Along noise j the state is the nominal one, and one input moves.
LEMMA AlongNoise ==
    ASSUME NEW arg, IsInput(arg), NEW j \in 0 .. 5
    PROVE  \E c, m :
              /\ IsAlong(AllZero(Tangent), Along(j, 0 .. 5), c, m)
              /\ \A i \in 0 .. 14 : c[i] = 0
              /\ TurnBy(arg, c) = Zero4
              /\ GyroBy(c, m) = NegUnit(j - 3) /\ AccelBy(c, m) = NegUnit(j)
<1> DEFINE c == [i \in 0 .. 14 |-> 0]
           m == [i \in 0 .. 5 |-> Delta(i, j)]
<1>1. EPS = Number(0, 1) /\ Zero = Number(0, 0)
  BY ModIsNumber DEF Number
<1>2. /\ \A i \in 0 .. 5 : Along(j, 0 .. 5)[i] = IF i = j THEN EPS ELSE Zero
      /\ \A i \in 0 .. 14 : AllZero(Tangent)[i] = Zero
  BY Layout DEF Along, AllZero
<1>3. /\ c \in [0 .. 14 -> Int] /\ m \in [0 .. 5 -> Int]
      /\ \A i \in 0 .. 5 : m[i] = Delta(i, j)
      /\ \A i \in 0 .. 14 : c[i] = 0
  BY DEF Delta
<1> HIDE DEF c, m
<1>4. \A i \in 0 .. 5 : Along(j, 0 .. 5)[i] = Number(0, m[i])
  BY <1>1, <1>2, <1>3 DEF Delta
<1>5. IsAlong(AllZero(Tangent), Along(j, 0 .. 5), c, m)
  BY <1>1, <1>2, <1>3, <1>4 DEF IsAlong
<1>6. \A i \in 0 .. 2 : i \in 0 .. 14 /\ 9 + i \in 0 .. 14 /\ 12 + i \in 0 .. 14 /\ i \in 0 .. 5 /\ 3 + i \in 0 .. 5
  OBVIOUS
<1>7. TurnBy(arg, c) = Zero4
  BY <1>3, TurnByIs
<1>8. \A k \in 0 .. 2 : /\ (0 - c[9 + k]) - m[3 + k] = IF k = j - 3 THEN -1 ELSE 0
                        /\ (0 - c[12 + k]) - m[k] = IF k = j THEN -1 ELSE 0
  BY <1>3, <1>6 DEF Delta
<1>9. GyroBy(c, m) = NegUnit(j - 3) /\ AccelBy(c, m) = NegUnit(j)
  BY <1>8 DEF GyroBy, AccelBy, NegUnit
<1> QED
  BY <1>3, <1>5, <1>7, <1>9

(***************************************************************************)
(* The Jacobians are the coefficients of the generated function            *)
(***************************************************************************)
\* The attitude error r, and the velocity error r, from error k.
AttitudeCoefficient(arg, r, k) ==
    CASE k \in 0 .. 2  -> IF r = k THEN Norm(arg.state) ELSE 0
      [] k \in 9 .. 11 -> GyroCoefficient(arg, r, k - 9)
      [] OTHER        -> 0
VelocityCoefficient(arg, r, k) ==
    CASE k \in 0 .. 2   -> TurnCoefficient(arg, r, k)
      [] k \in 12 .. 14 -> AccelCoefficient(arg, r, k - 12)
      [] OTHER         -> Delta(3 + r, k)

\* The columns of A.
LEMMA ErrorCoefficients ==
    ASSUME NEW arg, IsInput(arg), NEW j \in 0 .. 14, NEW r \in 0 .. 2
    PROVE  /\ Linearise(arg).A[j][r] = AttitudeCoefficient(arg, r, j)
           /\ Linearise(arg).A[j][3 + r] = VelocityCoefficient(arg, r, j)
           /\ Linearise(arg).A[j][6 + r] = (Delta(6 + r, j) + arg.dt * Delta(3 + r, j)) % Prime
           /\ Linearise(arg).A[j][9 + r] = Delta(9 + r, j)
           /\ Linearise(arg).A[j][12 + r] = Delta(12 + r, j)
<1> DEFINE e == Along(j, Tangent)
           n == AllZero(0 .. 5)
           a == Quat(arg)
<1>1. PICK c, m :
         /\ IsAlong(e, n, c, m)
         /\ \A i \in 0 .. 14 : c[i] = Delta(i, j)
         /\ j \in 0 .. 2 => TurnBy(arg, c) = Times4(HalfInt, TurnAbout(a, j))
         /\ j \notin 0 .. 2 => TurnBy(arg, c) = Zero4
         /\ GyroBy(c, m) = NegUnit(j - 9) /\ AccelBy(c, m) = NegUnit(j - 12)
  BY AlongError
<1>2. \A i \in 0 .. 14 : Linearise(arg).A[j][i] = Derivative(state_error_pred(arg, e, n)[i])
  BY Layout DEF Linearise
<1> HIDE DEF e, n
<1>3. \A i \in 0 .. 2 : /\ i \in 0 .. 14 /\ 3 + i \in 0 .. 14 /\ 6 + i \in 0 .. 14
                        /\ 9 + i \in 0 .. 14 /\ 12 + i \in 0 .. 14
  OBVIOUS
<1>4. a \in Integral /\ Accel(arg) \in [0 .. 2 -> Int] /\ arg.dt \in Int
  BY InputsInt DEF IsInput
<1>5. /\ c[3 + r] = Delta(3 + r, j) /\ c[6 + r] = Delta(6 + r, j)
      /\ c[9 + r] = Delta(9 + r, j) /\ c[12 + r] = Delta(12 + r, j)
  BY <1>1, <1>3
<1>6. PICK t \in Int : t = arg.dt
  BY <1>4
<1>7. Linearise(arg).A[j][r]
        = (2 * (Ham(TurnBy(arg, c), Conj4(a))[r + 1] + World(a, Scaled(HalfInt * t, NegUnit(j - 9)), r)))
          % Prime
  <2>1. Derivative(state_error_pred(arg, e, n)[r])
          = (2 * (Ham(TurnBy(arg, c), Conj4(a))[r + 1]
                    + World(a, Scaled(HalfInt * arg.dt, GyroBy(c, m)), r))) % Prime
    BY <1>1, ThetaRow
  <2> QED
    BY <1>1, <1>2, <1>3, <1>6, <2>1
<1>8. Linearise(arg).A[j][3 + r]
        = (Delta(3 + r, j) + t * RotateChange(a, TurnBy(arg, c), Accel(arg), NegUnit(j - 12), r)) % Prime
  <2>1. Derivative(state_error_pred(arg, e, n)[3 + r])
          = (c[3 + r] + arg.dt * RotateChange(a, TurnBy(arg, c), Accel(arg), AccelBy(c, m), r)) % Prime
    BY <1>1, VelocityChange
  <2> QED
    BY <1>1, <1>2, <1>3, <1>5, <1>6, <2>1
<1>9. Linearise(arg).A[j][6 + r] = (Delta(6 + r, j) + arg.dt * Delta(3 + r, j)) % Prime
  <2>1. Derivative(state_error_pred(arg, e, n)[6 + r]) = (c[6 + r] + arg.dt * c[3 + r]) % Prime
    BY <1>1, PositionChange
  <2> QED
    BY <1>2, <1>3, <1>5, <2>1
<1>10. \A i \in Int : Delta(i, j) % Prime = Delta(i, j)
  BY ModSmall DEF Delta
<1>11. /\ Linearise(arg).A[j][9 + r] = Delta(9 + r, j)
       /\ Linearise(arg).A[j][12 + r] = Delta(12 + r, j)
  <2>1. /\ Derivative(state_error_pred(arg, e, n)[9 + r]) = c[9 + r] % Prime
        /\ Derivative(state_error_pred(arg, e, n)[12 + r]) = c[12 + r] % Prime
    BY <1>1, BiasChange
  <2> QED
    BY <1>2, <1>3, <1>5, <1>10, <2>1
<1>12. /\ Norm(arg.state) = NormOf(a) % Prime
       /\ \A k \in 0 .. 2 :
             /\ GyroCoefficient(arg, r, k) = (0 - t * RotationEntry(a, r, k)) % Prime
             /\ AccelCoefficient(arg, r, k) = (0 - t * UnitEntry(a, r, k)) % Prime
             /\ TurnCoefficient(arg, r, k) = (t * TurnOf(a, Accel(arg), r, k)) % Prime
  BY <1>6, RotationsAre, CoefficientsAre
<1> HIDE DEF a
<1>13. CASE j \in 0 .. 2
  <2>1. j - 9 \notin 0 .. 2 /\ j - 12 \notin 0 .. 2 /\ Delta(3 + r, j) = 0
    BY <1>13 DEF Delta
  <2>2. TurnBy(arg, c) = Times4(HalfInt, TurnAbout(a, j))
    BY <1>1, <1>13
  <2>3. Linearise(arg).A[j][r] = IF r = j THEN NormOf(a) % Prime ELSE 0
    BY <1>4, <1>7, <1>13, <2>1, <2>2, TurnedAttitude
  <2>4. Linearise(arg).A[j][3 + r] = (t * TurnOf(a, Accel(arg), r, j)) % Prime
    BY <1>4, <1>8, <1>13, <2>1, <2>2, TurnedVelocity
  <2> QED
    BY <1>9, <1>11, <1>12, <1>13, <2>3, <2>4 DEF AttitudeCoefficient, VelocityCoefficient
<1>14. CASE j \notin 0 .. 2
  <2>1. TurnBy(arg, c) = Zero4
    BY <1>1, <1>14
  <2>2. Linearise(arg).A[j][r]
          = IF j - 9 \in 0 .. 2 THEN (0 - t * RotationEntry(a, r, j - 9)) % Prime ELSE 0
    BY <1>4, <1>7, <2>1, DrivenAttitude
  <2>3. Linearise(arg).A[j][3 + r]
          = IF j - 12 \in 0 .. 2 THEN (0 - t * UnitEntry(a, r, j - 12)) % Prime ELSE Delta(3 + r, j) % Prime
    <3>1. PICK u \in Int : u = Delta(3 + r, j)
      BY DEF Delta
    <3>2. j - 12 \in 0 .. 2 => u = 0
      BY <3>1 DEF Delta
    <3>3. PICK k \in Int : k = j - 12
      OBVIOUS
    <3>4. VelocityEntry(u, t, a, Zero4, Accel(arg), NegUnit(k), r)
            = IF k \in 0 .. 2 THEN (0 - t * UnitEntry(a, r, k)) % Prime ELSE u % Prime
      BY <1>4, <3>2, <3>3, DrivenVelocity
    <3> QED
      BY <1>8, <2>1, <3>1, <3>3, <3>4 DEF VelocityEntry
  <2>4. (j - 9 \in 0 .. 2 <=> j \in 9 .. 11) /\ (j - 12 \in 0 .. 2 <=> j \in 12 .. 14)
    OBVIOUS
  <2>5. Linearise(arg).A[j][r] = IF j \in 9 .. 11 THEN GyroCoefficient(arg, r, j - 9) ELSE 0
    BY <1>12, <2>2, <2>4
  <2>6. Linearise(arg).A[j][3 + r]
          = IF j \in 12 .. 14 THEN AccelCoefficient(arg, r, j - 12) ELSE Delta(3 + r, j)
    BY <1>10, <1>12, <2>3, <2>4
  <2> QED
    BY <1>9, <1>11, <1>14, <2>5, <2>6 DEF AttitudeCoefficient, VelocityCoefficient
<1> QED
  BY <1>13, <1>14

\* The columns of G.
LEMMA NoiseCoefficients ==
    ASSUME NEW arg, IsInput(arg), NEW j \in 0 .. 5, NEW r \in 0 .. 2
    PROVE  /\ Linearise(arg).G[j][r] = IF j \in 3 .. 5 THEN GyroCoefficient(arg, r, j - 3) ELSE 0
           /\ Linearise(arg).G[j][3 + r] = IF j \in 0 .. 2 THEN AccelCoefficient(arg, r, j) ELSE 0
           /\ Linearise(arg).G[j][6 + r] = 0 /\ Linearise(arg).G[j][9 + r] = 0
           /\ Linearise(arg).G[j][12 + r] = 0
<1> DEFINE e == AllZero(Tangent)
           n == Along(j, 0 .. 5)
           a == Quat(arg)
<1>1. PICK c, m :
         /\ IsAlong(e, n, c, m)
         /\ \A i \in 0 .. 14 : c[i] = 0
         /\ TurnBy(arg, c) = Zero4
         /\ GyroBy(c, m) = NegUnit(j - 3) /\ AccelBy(c, m) = NegUnit(j)
  BY AlongNoise
<1>2. \A i \in 0 .. 14 : Linearise(arg).G[j][i] = Derivative(state_error_pred(arg, e, n)[i])
  BY Layout DEF Linearise
<1> HIDE DEF e, n
<1>3. \A i \in 0 .. 2 : /\ i \in 0 .. 14 /\ 3 + i \in 0 .. 14 /\ 6 + i \in 0 .. 14
                        /\ 9 + i \in 0 .. 14 /\ 12 + i \in 0 .. 14
  OBVIOUS
<1>4. a \in Integral /\ Accel(arg) \in [0 .. 2 -> Int] /\ arg.dt \in Int
  BY InputsInt DEF IsInput
<1>5. c[3 + r] = 0 /\ c[6 + r] = 0 /\ c[9 + r] = 0 /\ c[12 + r] = 0
  BY <1>1, <1>3
<1>6. PICK t \in Int : t = arg.dt
  BY <1>4
<1>7. Linearise(arg).G[j][r] = IF j - 3 \in 0 .. 2 THEN (0 - t * RotationEntry(a, r, j - 3)) % Prime ELSE 0
  <2>1. Derivative(state_error_pred(arg, e, n)[r])
          = (2 * (Ham(TurnBy(arg, c), Conj4(a))[r + 1]
                    + World(a, Scaled(HalfInt * arg.dt, GyroBy(c, m)), r))) % Prime
    BY <1>1, ThetaRow
  <2> QED
    BY <1>1, <1>2, <1>3, <1>4, <1>6, <2>1, DrivenAttitude
<1>8. Linearise(arg).G[j][3 + r] = IF j \in 0 .. 2 THEN (0 - t * UnitEntry(a, r, j)) % Prime ELSE 0
  <2>1. Derivative(state_error_pred(arg, e, n)[3 + r])
          = (c[3 + r] + arg.dt * RotateChange(a, TurnBy(arg, c), Accel(arg), AccelBy(c, m), r)) % Prime
    BY <1>1, VelocityChange
  <2>2. Linearise(arg).G[j][3 + r]
          = (0 + t * RotateChange(a, Zero4, Accel(arg), NegUnit(j), r)) % Prime
    BY <1>1, <1>2, <1>3, <1>5, <1>6, <2>1
  <2>3. VelocityEntry(0, t, a, Zero4, Accel(arg), NegUnit(j), r)
          = IF j \in 0 .. 2 THEN (0 - t * UnitEntry(a, r, j)) % Prime ELSE 0 % Prime
    <3>1. 0 \in Int /\ t \in Int
      OBVIOUS
    <3> QED
      BY <1>4, <3>1, DrivenVelocity
  <2> QED
    BY <2>2, <2>3, ModSmall DEF VelocityEntry
<1>9. /\ Linearise(arg).G[j][6 + r] = 0 /\ Linearise(arg).G[j][9 + r] = 0
      /\ Linearise(arg).G[j][12 + r] = 0
  <2>1. /\ Derivative(state_error_pred(arg, e, n)[6 + r]) = (c[6 + r] + arg.dt * c[3 + r]) % Prime
        /\ Derivative(state_error_pred(arg, e, n)[9 + r]) = c[9 + r] % Prime
        /\ Derivative(state_error_pred(arg, e, n)[12 + r]) = c[12 + r] % Prime
    BY <1>1, PositionChange, BiasChange
  <2>2. 0 + t * 0 = 0
    OBVIOUS
  <2> QED
    BY <1>2, <1>3, <1>5, <1>6, <2>1, <2>2, ModSmall
<1>10. \A k \in 0 .. 2 : /\ GyroCoefficient(arg, r, k) = (0 - t * RotationEntry(a, r, k)) % Prime
                         /\ AccelCoefficient(arg, r, k) = (0 - t * UnitEntry(a, r, k)) % Prime
  BY <1>6, CoefficientsAre
<1> HIDE DEF a
<1>11. j - 3 \in 0 .. 2 <=> j \in 3 .. 5
  OBVIOUS
<1> QED
  BY <1>7, <1>8, <1>9, <1>10, <1>11

(***************************************************************************)
(* The sums over the errors                                                *)
(***************************************************************************)
\* The sum over a row of A of a vector of errors.
Weighted(arg, i, v) == SumOverTangent([k \in Tangent |-> Linearise(arg).A[k][i] * v[k]])

\* A sum in blocks of three.
LEMMA SumBlocks ==
    ASSUME NEW f, \A k \in 0 .. 14 : f[k] \in Int
    PROVE  SumOverTangent(f)
             = ((f[0] + f[1] + f[2]) + (f[3] + f[4] + f[5]) + (f[6] + f[7] + f[8])
                  + (f[9] + f[10] + f[11]) + (f[12] + f[13] + f[14])) % Prime
<1>1. f[0] + f[1] + f[2] + f[3] + f[4] + f[5] + f[6] + f[7] + f[8] + f[9]
        + f[10] + f[11] + f[12] + f[13] + f[14]
        = (f[0] + f[1] + f[2]) + (f[3] + f[4] + f[5]) + (f[6] + f[7] + f[8])
            + (f[9] + f[10] + f[11]) + (f[12] + f[13] + f[14])
  OBVIOUS
<1> QED
  BY <1>1 DEF SumOverTangent

\* The coefficients are integers.
LEMMA CoefficientsInt ==
    ASSUME NEW arg, IsInput(arg), NEW r \in 0 .. 2, NEW k \in 0 .. 2
    PROVE  /\ GyroCoefficient(arg, r, k) \in Int /\ AccelCoefficient(arg, r, k) \in Int
           /\ TurnCoefficient(arg, r, k) \in Int /\ Norm(arg.state) \in Int
<1>1. PICK t \in Int, x \in Int, y \in Int, z \in Int :
         /\ t = arg.dt /\ x = RotationEntry(Quat(arg), r, k) /\ y = UnitEntry(Quat(arg), r, k)
         /\ z = TurnOf(Quat(arg), Accel(arg), r, k)
  BY InputsInt, EntriesInt, CoefficientsAre DEF IsInput
<1>2. PICK a \in Int, b \in Int, c \in Int, d \in Int :
         a = 0 - t * x /\ b = 0 - t * y /\ c = t * z /\ d = NormOf(Quat(arg))
  BY RotationsAre
<1>3. a % Prime \in Int /\ b % Prime \in Int /\ c % Prime \in Int /\ d % Prime \in Int
  BY ModIs
<1>4. /\ GyroCoefficient(arg, r, k) = a % Prime /\ AccelCoefficient(arg, r, k) = b % Prime
      /\ TurnCoefficient(arg, r, k) = c % Prime
  BY <1>1, <1>2, CoefficientsAre
<1>5. Norm(arg.state) = d % Prime
  BY <1>2, RotationsAre
<1> QED
  BY <1>3, <1>4, <1>5

\* Three reduced products, and their sum.
Products(f, g) == SumOfThree([k \in Axes |-> (f[k] * g[k]) % Prime])

\* They are the reduction of the sum of the products.
LEMMA ProductsAre ==
    ASSUME NEW f \in [0 .. 2 -> Int], NEW g \in [0 .. 2 -> Int]
    PROVE  /\ Products(f, g) = (f[0] * g[0] + f[1] * g[1] + f[2] * g[2]) % Prime
           /\ f[0] * g[0] + f[1] * g[1] + f[2] * g[2] \in Int /\ Products(f, g) \in Int
<1> DEFINE h == [k \in 0 .. 2 |-> f[k] * g[k]]
<1>1. h \in [0 .. 2 -> Int]
  OBVIOUS
<1>2. Products(f, g) = SumOfThree([k \in Axes |-> h[k] % Prime])
  BY DEF Products, Axes
<1>3. h[0] = f[0] * g[0] /\ h[1] = f[1] * g[1] /\ h[2] = f[2] * g[2]
  OBVIOUS
<1> HIDE DEF h
<1>4. PICK s \in Int : s = h[0] + h[1] + h[2]
  BY <1>1
<1>5. Products(f, g) = s % Prime
  BY <1>1, <1>2, <1>4, SumOfThreeIs
<1> QED
  BY <1>3, <1>4, <1>5, ModIs

\* The coefficients of row r, as vectors.
GyroRow(arg, r)  == [k \in 0 .. 2 |-> GyroCoefficient(arg, r, k)]
TurnRow(arg, r)  == [k \in 0 .. 2 |-> TurnCoefficient(arg, r, k)]
AccelRow(arg, r) == [k \in 0 .. 2 |-> AccelCoefficient(arg, r, k)]
\* Three members of a vector of errors.
Three(v, a) == [k \in 0 .. 2 |-> v[a + k]]

\* All of these are vectors of integers.
LEMMA RowsInt ==
    ASSUME NEW arg, IsInput(arg), NEW r \in 0 .. 2
    PROVE  /\ GyroRow(arg, r) \in [0 .. 2 -> Int] /\ TurnRow(arg, r) \in [0 .. 2 -> Int]
           /\ AccelRow(arg, r) \in [0 .. 2 -> Int]
           /\ \A v \in [0 .. 14 -> Int] :
                 Three(v, 0) \in [0 .. 2 -> Int] /\ Three(v, 9) \in [0 .. 2 -> Int]
                   /\ Three(v, 12) \in [0 .. 2 -> Int]
<1>1. \A k \in 0 .. 2 : /\ GyroCoefficient(arg, r, k) \in Int /\ AccelCoefficient(arg, r, k) \in Int
                        /\ TurnCoefficient(arg, r, k) \in Int
  BY CoefficientsInt
<1>2. \A k \in 0 .. 2 : 0 + k \in 0 .. 14 /\ 9 + k \in 0 .. 14 /\ 12 + k \in 0 .. 14
  OBVIOUS
<1>3. ASSUME NEW v \in [0 .. 14 -> Int]
      PROVE  Three(v, 0) \in [0 .. 2 -> Int] /\ Three(v, 9) \in [0 .. 2 -> Int]
               /\ Three(v, 12) \in [0 .. 2 -> Int]
  BY <1>2 DEF Three
<1> QED
  BY <1>1, <1>3 DEF GyroRow, TurnRow, AccelRow

\* The row of an attitude error.
LEMMA AttitudeWeighted ==
    ASSUME NEW arg, IsInput(arg), NEW v \in [0 .. 14 -> Int], NEW r \in 0 .. 2
    PROVE  /\ Norm(arg.state) * v[r] + Products(GyroRow(arg, r), Three(v, 9)) \in Int
           /\ Weighted(arg, r, v)
                = (Norm(arg.state) * v[r] + Products(GyroRow(arg, r), Three(v, 9))) % Prime
<1> DEFINE f == [k \in 0 .. 14 |-> Linearise(arg).A[k][r] * v[k]]
           g == GyroRow(arg, r)
           w == Three(v, 9)
<1>1. PICK n \in Int : n = Norm(arg.state)
  BY CoefficientsInt
<1>2. PICK g0 \in Int, g1 \in Int, g2 \in Int : g0 = g[0] /\ g1 = g[1] /\ g2 = g[2]
  BY RowsInt
<1>3. PICK x \in Int, y0 \in Int, y1 \in Int, y2 \in Int :
         x = v[r] /\ y0 = v[9] /\ y1 = v[10] /\ y2 = v[11]
  <2>1. r \in 0 .. 14
    OBVIOUS
  <2>2. v[r] \in Int /\ v[9] \in Int /\ v[10] \in Int /\ v[11] \in Int
    BY <2>1
  <2> QED
    BY <2>2
<1>4. w[0] = y0 /\ w[1] = y1 /\ w[2] = y2
  BY <1>3 DEF Three
<1>5. \A k \in 0 .. 14 : Linearise(arg).A[k][r] = AttitudeCoefficient(arg, r, k)
  BY ErrorCoefficients
<1>6. \A k \in 0 .. 14 : f[k] = AttitudeCoefficient(arg, r, k) * v[k] /\ v[k] \in Int
  BY <1>5
<1> HIDE DEF f
<1>7. \A k \in 0 .. 2 : AttitudeCoefficient(arg, r, k) = IF r = k THEN n ELSE 0
  BY <1>1 DEF AttitudeCoefficient
<1>8. \A k \in 0 .. 14 : k \in 3 .. 8 \/ k \in 12 .. 14 => AttitudeCoefficient(arg, r, k) = 0
  BY DEF AttitudeCoefficient
<1>9. /\ AttitudeCoefficient(arg, r, 9) = g0 /\ AttitudeCoefficient(arg, r, 10) = g1
      /\ AttitudeCoefficient(arg, r, 11) = g2
  BY <1>2 DEF AttitudeCoefficient, GyroRow
<1> HIDE DEF g, w
<1>10. \A k \in 0 .. 14 : k \in 3 .. 8 \/ k \in 12 .. 14 => f[k] = 0
  <2>1. \A z \in Int : 0 * z = 0
    OBVIOUS
  <2> QED
    BY <1>6, <1>8, <2>1
<1>11. f[9] = g0 * y0 /\ f[10] = g1 * y1 /\ f[11] = g2 * y2
  BY <1>3, <1>6, <1>9
<1>12. \A k \in 0 .. 2 : f[k] = IF r = k THEN n * x ELSE 0
  <2>1. \A k \in 0 .. 2 : k \in 0 .. 14
    OBVIOUS
  <2>2. \A z \in Int : 0 * z = 0
    OBVIOUS
  <2> QED
    BY <1>3, <1>6, <1>7, <2>1, <2>2
<1>13. PICK p \in Int, q0 \in Int, q1 \in Int, q2 \in Int :
          p = n * x /\ q0 = g0 * y0 /\ q1 = g1 * y1 /\ q2 = g2 * y2
  OBVIOUS
<1>14. f[0] + f[1] + f[2] = p
  <2>1. r = 0 \/ r = 1 \/ r = 2
    OBVIOUS
  <2>2. /\ f[0] = IF r = 0 THEN p ELSE 0
        /\ f[1] = IF r = 1 THEN p ELSE 0
        /\ f[2] = IF r = 2 THEN p ELSE 0
    BY <1>12, <1>13
  <2> QED
    BY <2>1, <2>2
<1>15. PICK s \in Int : s = q0 + q1 + q2
  OBVIOUS
<1>16. SumOverTangent(f) = (p + 0 + 0 + s + 0) % Prime
  <2>1. \A k \in 0 .. 14 : f[k] \in Int
    <3>1. \A k \in 0 .. 2 : f[k] \in Int
      BY <1>12, <1>13
    <3>2. f[9] \in Int /\ f[10] \in Int /\ f[11] \in Int
      BY <1>11, <1>13
    <3>3. \A k \in 0 .. 14 : k \in 0 .. 2 \/ k = 9 \/ k = 10 \/ k = 11 \/ k \in 3 .. 8 \/ k \in 12 .. 14
      OBVIOUS
    <3> QED
      BY <1>10, <3>1, <3>2, <3>3
  <2>2. f[3] + f[4] + f[5] = 0 /\ f[6] + f[7] + f[8] = 0 /\ f[12] + f[13] + f[14] = 0
    BY <1>10
  <2>3. f[9] + f[10] + f[11] = s
    BY <1>11, <1>13, <1>15
  <2>4. SumOverTangent(f)
          = ((f[0] + f[1] + f[2]) + (f[3] + f[4] + f[5]) + (f[6] + f[7] + f[8])
               + (f[9] + f[10] + f[11]) + (f[12] + f[13] + f[14])) % Prime
    BY <2>1, SumBlocks
  <2> QED
    BY <1>14, <2>2, <2>3, <2>4
<1>17. Products(g, w) = s % Prime
  <2>1. g \in [0 .. 2 -> Int] /\ w \in [0 .. 2 -> Int]
    BY RowsInt DEF g, w
  <2> QED
    BY <1>2, <1>4, <1>13, <1>15, <2>1, ProductsAre
<1>18. PICK t \in Int : t = s % Prime
  BY ModIs
<1>19. (t + p) % Prime = (s + p) % Prime
  BY <1>18, ModArith
<1>20. p + 0 + 0 + s + 0 = s + p /\ t + p = p + t
  OBVIOUS
<1>21. Weighted(arg, r, v) = SumOverTangent(f)
  BY Layout DEF Weighted, f
<1> QED
  BY <1>1, <1>3, <1>13, <1>16, <1>17, <1>18, <1>19, <1>20, <1>21 DEF g, w

\* The row of a velocity error.
LEMMA VelocityWeighted ==
    ASSUME NEW arg, IsInput(arg), NEW v \in [0 .. 14 -> Int], NEW r \in 0 .. 2
    PROVE  /\ v[3 + r] + Products(TurnRow(arg, r), Three(v, 0)) + Products(AccelRow(arg, r), Three(v, 12))
                \in Int
           /\ Weighted(arg, 3 + r, v)
                = (v[3 + r] + Products(TurnRow(arg, r), Three(v, 0))
                     + Products(AccelRow(arg, r), Three(v, 12))) % Prime
<1> DEFINE f == [k \in 0 .. 14 |-> Linearise(arg).A[k][3 + r] * v[k]]
           g == TurnRow(arg, r)
           h == AccelRow(arg, r)
           w == Three(v, 0)
           u == Three(v, 12)
           A(k) == VelocityCoefficient(arg, r, k)
<1>1. PICK g0 \in Int, g1 \in Int, g2 \in Int : g0 = g[0] /\ g1 = g[1] /\ g2 = g[2]
  BY RowsInt
<1>2. PICK h0 \in Int, h1 \in Int, h2 \in Int : h0 = h[0] /\ h1 = h[1] /\ h2 = h[2]
  BY RowsInt
<1>3. PICK x \in Int, w0 \in Int, w1 \in Int, w2 \in Int, u0 \in Int, u1 \in Int, u2 \in Int :
         x = v[3 + r] /\ w0 = v[0] /\ w1 = v[1] /\ w2 = v[2] /\ u0 = v[12] /\ u1 = v[13] /\ u2 = v[14]
  <2>1. 3 + r \in 0 .. 14
    OBVIOUS
  <2>2. /\ v[3 + r] \in Int /\ v[0] \in Int /\ v[1] \in Int /\ v[2] \in Int
        /\ v[12] \in Int /\ v[13] \in Int /\ v[14] \in Int
    BY <2>1
  <2> QED
    BY <2>2
<1>4. w[0] = w0 /\ w[1] = w1 /\ w[2] = w2 /\ u[0] = u0 /\ u[1] = u1 /\ u[2] = u2
  BY <1>3 DEF Three
<1>5. \A k \in 0 .. 14 : Linearise(arg).A[k][3 + r] = A(k)
  BY ErrorCoefficients
<1>6. \A k \in 0 .. 14 : f[k] = A(k) * v[k] /\ v[k] \in Int
  BY <1>5
<1> HIDE DEF f
<1>7. A(0) = g0 /\ A(1) = g1 /\ A(2) = g2 /\ A(12) = h0 /\ A(13) = h1 /\ A(14) = h2
  BY <1>1, <1>2 DEF VelocityCoefficient, TurnRow, AccelRow
<1>8. \A k \in 3 .. 5 : A(k) = IF k = 3 + r THEN 1 ELSE 0
  BY DEF VelocityCoefficient, Delta
<1>9. \A k \in 6 .. 11 : A(k) = 0
  BY DEF VelocityCoefficient, Delta
<1> HIDE DEF g, h, w, u, A
<1>10. \A k \in 6 .. 11 : f[k] = 0
  <2>1. \A z \in Int : 0 * z = 0
    OBVIOUS
  <2>2. \A k \in 6 .. 11 : k \in 0 .. 14
    OBVIOUS
  <2> QED
    BY <1>6, <1>9, <2>1, <2>2
<1>11. /\ f[0] = g0 * w0 /\ f[1] = g1 * w1 /\ f[2] = g2 * w2
       /\ f[12] = h0 * u0 /\ f[13] = h1 * u1 /\ f[14] = h2 * u2
  BY <1>3, <1>6, <1>7
<1>12. \A k \in 3 .. 5 : f[k] = IF k = 3 + r THEN x ELSE 0
  <2>1. \A k \in 3 .. 5 : k \in 0 .. 14
    OBVIOUS
  <2>2. \A z \in Int : 0 * z = 0 /\ 1 * z = z
    OBVIOUS
  <2> QED
    BY <1>3, <1>6, <1>8, <2>1, <2>2
<1>13. PICK p0 \in Int, p1 \in Int, p2 \in Int, q0 \in Int, q1 \in Int, q2 \in Int :
          /\ p0 = g0 * w0 /\ p1 = g1 * w1 /\ p2 = g2 * w2
          /\ q0 = h0 * u0 /\ q1 = h1 * u1 /\ q2 = h2 * u2
  OBVIOUS
<1>14. f[3] + f[4] + f[5] = x
  <2>1. r = 0 \/ r = 1 \/ r = 2
    OBVIOUS
  <2>2. /\ f[3] = IF r = 0 THEN x ELSE 0
        /\ f[4] = IF r = 1 THEN x ELSE 0
        /\ f[5] = IF r = 2 THEN x ELSE 0
    BY <1>12
  <2> QED
    BY <2>1, <2>2
<1>15. PICK s \in Int, t \in Int : s = p0 + p1 + p2 /\ t = q0 + q1 + q2
  OBVIOUS
<1>16. SumOverTangent(f) = (s + x + 0 + 0 + t) % Prime
  <2>1. \A k \in 0 .. 14 : f[k] \in Int
    <3>1. \A k \in 3 .. 5 : f[k] \in Int
      BY <1>12
    <3>2. /\ f[0] \in Int /\ f[1] \in Int /\ f[2] \in Int
          /\ f[12] \in Int /\ f[13] \in Int /\ f[14] \in Int
      BY <1>11, <1>13
    <3>3. \A k \in 0 .. 14 : \/ k = 0 \/ k = 1 \/ k = 2 \/ k \in 3 .. 5 \/ k \in 6 .. 11
                             \/ k = 12 \/ k = 13 \/ k = 14
      OBVIOUS
    <3> QED
      BY <1>10, <3>1, <3>2, <3>3
  <2>2. f[6] + f[7] + f[8] = 0 /\ f[9] + f[10] + f[11] = 0
    BY <1>10
  <2>3. f[0] + f[1] + f[2] = s /\ f[12] + f[13] + f[14] = t
    BY <1>11, <1>13, <1>15
  <2>4. SumOverTangent(f)
          = ((f[0] + f[1] + f[2]) + (f[3] + f[4] + f[5]) + (f[6] + f[7] + f[8])
               + (f[9] + f[10] + f[11]) + (f[12] + f[13] + f[14])) % Prime
    BY <2>1, SumBlocks
  <2> QED
    BY <1>14, <2>2, <2>3, <2>4
<1>17. Products(g, w) = s % Prime /\ Products(h, u) = t % Prime
  <2>1. /\ g \in [0 .. 2 -> Int] /\ w \in [0 .. 2 -> Int]
        /\ h \in [0 .. 2 -> Int] /\ u \in [0 .. 2 -> Int]
    BY RowsInt DEF g, w, h, u
  <2>2. Products(g, w) = (g[0] * w[0] + g[1] * w[1] + g[2] * w[2]) % Prime
    BY <2>1, ProductsAre
  <2>3. Products(h, u) = (h[0] * u[0] + h[1] * u[1] + h[2] * u[2]) % Prime
    BY <2>1, ProductsAre
  <2> QED
    BY <1>1, <1>2, <1>4, <1>13, <1>15, <2>2, <2>3
<1>18. PICK S \in Int, T \in Int : S = s % Prime /\ T = t % Prime
  BY ModIs
<1>19. (x + S + T) % Prime = (s + x + 0 + 0 + t) % Prime
  <2>1. PICK a \in Int, b \in Int : a = x + S /\ b = x + s
    OBVIOUS
  <2>2. (S + x) % Prime = (s + x) % Prime
    BY <1>18, ModArith
  <2>3. a % Prime = b % Prime /\ T % Prime = t % Prime
    <3>1. S + x = a /\ s + x = b
      BY <2>1
    <3>2. T % Prime = t % Prime
      BY <1>18, ModSmall
    <3> QED
      BY <2>2, <3>1, <3>2
  <2>4. (a + T) % Prime = ((a % Prime) + (T % Prime)) % Prime
    BY ModBoth
  <2>5. (b + t) % Prime = ((b % Prime) + (t % Prime)) % Prime
    BY ModBoth
  <2>6. x + S + T = a + T /\ s + x + 0 + 0 + t = b + t
    BY <2>1
  <2> QED
    BY <2>3, <2>4, <2>5, <2>6
<1>20. Weighted(arg, 3 + r, v) = SumOverTangent(f)
  BY Layout DEF Weighted, f
<1> QED
  BY <1>3, <1>16, <1>17, <1>18, <1>19, <1>20 DEF g, h, w, u

\* The row of a position error, and those of the biases.
LEMMA OtherWeighted ==
    ASSUME NEW arg, IsInput(arg), NEW v \in [0 .. 14 -> Int], NEW r \in 0 .. 2
    PROVE  /\ Weighted(arg, 6 + r, v) = (v[6 + r] + v[3 + r] * arg.dt) % Prime
           /\ Weighted(arg, 9 + r, v) = v[9 + r] % Prime
           /\ Weighted(arg, 12 + r, v) = v[12 + r] % Prime
<1>1. \A k \in 0 .. 14 : v[k] \in Int
  OBVIOUS
<1>2. Weighted(arg, 6 + r, v) = (v[6 + r] + v[3 + r] * arg.dt) % Prime
  <2> DEFINE f == [k \in 0 .. 14 |-> Linearise(arg).A[k][6 + r] * v[k]]
  <2>1. PICK t \in Int : t = arg.dt
    BY DEF IsInput
  <2>2. PICK x \in Int, y \in Int : x = v[6 + r] /\ y = v[3 + r]
    <3>1. 6 + r \in 0 .. 14 /\ 3 + r \in 0 .. 14
      OBVIOUS
    <3>2. v[6 + r] \in Int /\ v[3 + r] \in Int
      BY <1>1, <3>1
    <3> QED
      BY <3>2
  <2>3. \A k \in 0 .. 14 : Linearise(arg).A[k][6 + r] = (Delta(6 + r, k) + t * Delta(3 + r, k)) % Prime
    BY <2>1, ErrorCoefficients
  <2>4. 0 + t * 0 = 0 /\ 1 + t * 0 = 1 /\ 0 + t * 1 = t
    OBVIOUS
  <2>5. \A k \in 0 .. 14 : (Delta(6 + r, k) + t * Delta(3 + r, k)) % Prime
           = IF k = 6 + r THEN 1 ELSE IF k = 3 + r THEN t % Prime ELSE 0
    BY <2>4, ModSmall DEF Delta
  <2>6. \A k \in 0 .. 14 :
           f[k] = (IF k = 6 + r THEN 1 ELSE IF k = 3 + r THEN t % Prime ELSE 0) * v[k]
    BY <2>3, <2>5
  <2> HIDE DEF f
  <2>7. PICK T \in Int : T = t % Prime
    BY ModIs
  <2>8. PICK p \in Int : p = T * y
    OBVIOUS
  <2>9. \A z \in Int : 0 * z = 0 /\ 1 * z = z
    OBVIOUS
  <2>10. \A k \in 0 .. 14 : f[k] = IF k = 6 + r THEN x ELSE IF k = 3 + r THEN p ELSE 0
    BY <1>1, <2>2, <2>6, <2>7, <2>8, <2>9
  <2>11. SumOverTangent(f) = (x + p) % Prime
    <3>1. r = 0 \/ r = 1 \/ r = 2
      OBVIOUS
    <3>2. \A k \in 0 .. 14 : f[k] \in Int
      BY <2>10
    <3>3. /\ f[0] + f[1] + f[2] = 0 /\ f[9] + f[10] + f[11] = 0 /\ f[12] + f[13] + f[14] = 0
          /\ f[3] + f[4] + f[5] = p /\ f[6] + f[7] + f[8] = x
      BY <2>10, <3>1
    <3>4. SumOverTangent(f)
            = ((f[0] + f[1] + f[2]) + (f[3] + f[4] + f[5]) + (f[6] + f[7] + f[8])
                 + (f[9] + f[10] + f[11]) + (f[12] + f[13] + f[14])) % Prime
      BY <3>2, SumBlocks
    <3>5. 0 + p + x + 0 + 0 = x + p
      OBVIOUS
    <3> QED
      BY <3>3, <3>4, <3>5
  <2>12. (x + p) % Prime = (x + y * t) % Prime
    <3>1. p % Prime = (y * t) % Prime
      <4>1. (T * y) % Prime = (t * y) % Prime /\ t * y = y * t
        BY <2>7, ModArith
      <4> QED
        BY <2>8, <4>1
    <3>2. PICK q \in Int : q = y * t
      OBVIOUS
    <3>3. /\ (x + p) % Prime = ((x % Prime) + (p % Prime)) % Prime
          /\ (x + q) % Prime = ((x % Prime) + (q % Prime)) % Prime
      BY ModBoth
    <3> QED
      BY <3>1, <3>2, <3>3
  <2>13. Weighted(arg, 6 + r, v) = SumOverTangent(f)
    BY Layout DEF Weighted, f
  <2> QED
    BY <2>1, <2>2, <2>11, <2>12, <2>13
<1>3. ASSUME NEW a \in 0 .. 14, \A k \in 0 .. 14 : Linearise(arg).A[k][a] = Delta(a, k)
      PROVE  Weighted(arg, a, v) = v[a] % Prime
  <2> DEFINE f == [k \in 0 .. 14 |-> Linearise(arg).A[k][a] * v[k]]
  <2>1. \A z \in Int : 0 * z = 0 /\ 1 * z = z
    OBVIOUS
  <2>2. \A k \in 0 .. 14 : f[k] = Delta(a, k) * v[k]
    BY <1>3
  <2>3. f = [k \in 0 .. 14 |-> f[k]]
    OBVIOUS
  <2>4. Weighted(arg, a, v) = SumOverTangent(f)
    BY Layout DEF Weighted
  <2> HIDE DEF f
  <2>5. \A k \in 0 .. 14 : f[k] = IF k = a THEN v[a] ELSE 0
    BY <1>1, <2>1, <2>2 DEF Delta
  <2>6. f \in [0 .. 14 -> Int]
    <3>1. \A k \in 0 .. 14 : f[k] \in Int
      BY <1>1, <2>5
    <3> QED
      BY <2>3, <3>1
  <2>7. SumOverTangent(f) = f[a] % Prime
    BY <2>5, <2>6, SumSingle
  <2> QED
    BY <2>4, <2>5, <2>7
<1>4. Weighted(arg, 9 + r, v) = v[9 + r] % Prime
  <2>1. 9 + r \in 0 .. 14
    OBVIOUS
  <2> QED
    BY <1>3, <2>1, ErrorCoefficients
<1>5. Weighted(arg, 12 + r, v) = v[12 + r] % Prime
  <2>1. 12 + r \in 0 .. 14
    OBVIOUS
  <2> QED
    BY <1>3, <2>1, ErrorCoefficients
<1> QED
  BY <1>2, <1>4, <1>5

\* The row of an error, for the column v of the covariance.
LEMMA ProductsOf ==
    ASSUME NEW arg, NEW r \in 0 .. 2, NEW v
    PROVE  /\ Products(GyroRow(arg, r), Three(v, 9))
                = SumOfThree([k \in Axes |-> (GyroCoefficient(arg, r, k) * v[9 + k]) % Prime])
           /\ Products(TurnRow(arg, r), Three(v, 0))
                = SumOfThree([k \in Axes |-> (TurnCoefficient(arg, r, k) * v[k]) % Prime])
           /\ Products(AccelRow(arg, r), Three(v, 12))
                = SumOfThree([k \in Axes |-> (AccelCoefficient(arg, r, k) * v[12 + k]) % Prime])
<1>1. \A k \in 0 .. 2 : 0 + k = k
  OBVIOUS
<1> QED
  BY <1>1 DEF Products, GyroRow, TurnRow, AccelRow, Three, Axes

\* An entry of A P is that of the generated function.
LEMMA PredictedRow ==
    ASSUME NEW arg, IsInput(arg), NEW i \in 0 .. 14, NEW l \in 0 .. 14
    PROVE  /\ SumOverTangent([k \in Tangent |-> Linearise(arg).A[k][i] * arg.P[k][l]]) = Row(arg, i, l)
           /\ Row(arg, i, l) \in Int
<1> DEFINE v == [k \in 0 .. 14 |-> arg.P[k][l]]
           w == SumOverTangent([k \in Tangent |-> Linearise(arg).A[k][i] * arg.P[k][l]])
<1>1. w = Weighted(arg, i, v)
  BY Layout DEF Weighted
<1>2. \A k \in 0 .. 14 : arg.P[k][l] \in Scalar
  BY DEF IsInput
<1>3. \A k \in 0 .. 14 : arg.P[k][l] \in Int /\ arg.P[k][l] % Prime = arg.P[k][l]
  <2>1. \A x \in Scalar : x \in Int /\ x = Prime * 0 + x
    BY PrimeAssumption DEF Scalar
  <2>2. \A x \in Scalar : x % Prime = x
    <3> SUFFICES ASSUME NEW x \in Scalar PROVE x % Prime = x
      OBVIOUS
    <3>1. x \in Int /\ 0 \in Int /\ x = Prime * 0 + x
      BY <2>1
    <3> QED
      BY <3>1, ModUnique
  <2> QED
    BY <1>2, <2>1, <2>2
<1>4. v \in [0 .. 14 -> Int] /\ \A k \in 0 .. 14 : v[k] = arg.P[k][l]
  BY <1>3
<1> HIDE DEF v, w
<1>5. CASE i \in 0 .. 2
  <2>1. Weighted(arg, i, v) = (Norm(arg.state) * v[i] + Products(GyroRow(arg, i), Three(v, 9))) % Prime
    BY <1>4, <1>5, AttitudeWeighted
  <2>2. \A k \in 0 .. 2 : v[9 + k] = arg.P[9 + k][l]
    <3>1. \A k \in 0 .. 2 : 9 + k \in 0 .. 14
      OBVIOUS
    <3> QED
      BY <1>4, <3>1
  <2>3. Products(GyroRow(arg, i), Three(v, 9))
          = SumOfThree([k \in Axes |-> (GyroCoefficient(arg, i, k) * arg.P[9 + k][l]) % Prime])
    <3>1. Products(GyroRow(arg, i), Three(v, 9))
            = SumOfThree([k \in Axes |-> (GyroCoefficient(arg, i, k) * v[9 + k]) % Prime])
      BY <1>5, ProductsOf
    <3>2. [k \in Axes |-> (GyroCoefficient(arg, i, k) * v[9 + k]) % Prime]
            = [k \in Axes |-> (GyroCoefficient(arg, i, k) * arg.P[9 + k][l]) % Prime]
      BY <2>2 DEF Axes
    <3> QED
      BY <3>1, <3>2
  <2>4. v[i] = arg.P[i][l]
    BY <1>4
  <2>5. Row(arg, i, l) = w
    BY <1>1, <1>5, <2>1, <2>3, <2>4 DEF Row, AttitudeRow
  <2>6. w \in Int
    <3>1. Norm(arg.state) * v[i] + Products(GyroRow(arg, i), Three(v, 9)) \in Int
      BY <1>4, <1>5, AttitudeWeighted
    <3> QED
      BY <1>1, <2>1, <3>1, ModIs
  <2> QED
    BY <2>5, <2>6 DEF w
<1>6. CASE i \in 3 .. 5
  <2> DEFINE x == v[i] + Products(TurnRow(arg, i - 3), Three(v, 0)) + Products(AccelRow(arg, i - 3), Three(v, 12))
  <2>1. PICK r \in 0 .. 2 : r = i - 3 /\ 3 + r = i
    BY <1>6
  <2>2. x \in Int /\ Weighted(arg, i, v) = x % Prime
    BY <1>4, <2>1, VelocityWeighted
  <2>3. \A k \in 0 .. 2 : v[k] = arg.P[k][l] /\ v[12 + k] = arg.P[12 + k][l]
    <3>1. \A k \in 0 .. 2 : k \in 0 .. 14 /\ 12 + k \in 0 .. 14
      OBVIOUS
    <3> QED
      BY <1>4, <3>1
  <2>4. /\ Products(TurnRow(arg, r), Three(v, 0))
             = SumOfThree([k \in Axes |-> (TurnCoefficient(arg, r, k) * arg.P[k][l]) % Prime])
        /\ Products(AccelRow(arg, r), Three(v, 12))
             = SumOfThree([k \in Axes |-> (AccelCoefficient(arg, r, k) * arg.P[12 + k][l]) % Prime])
    <3>1. /\ Products(TurnRow(arg, r), Three(v, 0))
               = SumOfThree([k \in Axes |-> (TurnCoefficient(arg, r, k) * v[k]) % Prime])
          /\ Products(AccelRow(arg, r), Three(v, 12))
               = SumOfThree([k \in Axes |-> (AccelCoefficient(arg, r, k) * v[12 + k]) % Prime])
      BY ProductsOf
    <3>2. [k \in Axes |-> (TurnCoefficient(arg, r, k) * v[k]) % Prime]
            = [k \in Axes |-> (TurnCoefficient(arg, r, k) * arg.P[k][l]) % Prime]
      BY <2>3 DEF Axes
    <3>3. [k \in Axes |-> (AccelCoefficient(arg, r, k) * v[12 + k]) % Prime]
            = [k \in Axes |-> (AccelCoefficient(arg, r, k) * arg.P[12 + k][l]) % Prime]
      BY <2>3 DEF Axes
    <3> QED
      BY <3>1, <3>2, <3>3
  <2>5. v[i] = arg.P[3 + r][l]
    BY <1>4, <2>1
  <2>6. Row(arg, i, l) = VelocityRow(arg, r, l)
    BY <1>6, <2>1 DEF Row
  <2>7. VelocityRow(arg, r, l) = x % Prime
    BY <2>1, <2>4, <2>5 DEF VelocityRow
  <2> HIDE DEF x
  <2> QED
    BY <1>1, <2>2, <2>6, <2>7, ModIs DEF w
<1>7. CASE i \in 6 .. 8
  <2>1. PICK r \in 0 .. 2 : 6 + r = i /\ 3 + r = i - 3
    BY <1>7
  <2>2. PICK t \in Int : t = arg.dt
    BY DEF IsInput
  <2>3. PICK x \in Int, y \in Int : x = v[i] /\ y = v[i - 3] /\ x = arg.P[i][l] /\ y = arg.P[i - 3][l]
    <3>1. i - 3 \in 0 .. 14
      BY <1>7
    <3>2. v[i] = arg.P[i][l] /\ v[i - 3] = arg.P[i - 3][l] /\ v[i] \in Int /\ v[i - 3] \in Int
      BY <1>4, <3>1
    <3> QED
      BY <3>2
  <2>4. Weighted(arg, 6 + r, v) = (v[6 + r] + v[3 + r] * arg.dt) % Prime
    BY <1>4, OtherWeighted
  <2>5. Weighted(arg, i, v) = (x + y * t) % Prime
    BY <2>1, <2>2, <2>3, <2>4
  <2>6. Row(arg, i, l) = (x + y * t) % Prime
    BY <1>7, <2>2, <2>3 DEF Row
  <2>7. PICK z \in Int : z = x + y * t
    OBVIOUS
  <2> QED
    BY <1>1, <2>5, <2>6, <2>7, ModIs DEF w
<1>8. CASE i \in 9 .. 14
  <2>1. \A r \in 0 .. 2 : /\ Weighted(arg, 9 + r, v) = v[9 + r] % Prime
                          /\ Weighted(arg, 12 + r, v) = v[12 + r] % Prime
    BY <1>4, OtherWeighted
  <2>2. Weighted(arg, i, v) = v[i] % Prime
    <3>1. CASE i \in 9 .. 11
      <4>1. PICK r \in 0 .. 2 : 9 + r = i
        BY <3>1
      <4>2. Weighted(arg, 9 + r, v) = v[9 + r] % Prime
        BY <2>1
      <4> QED
        BY <4>1, <4>2
    <3>2. CASE i \in 12 .. 14
      <4>1. PICK r \in 0 .. 2 : 12 + r = i
        BY <3>2
      <4>2. Weighted(arg, 12 + r, v) = v[12 + r] % Prime
        BY <2>1
      <4> QED
        BY <4>1, <4>2
    <3> QED
      BY <1>8, <3>1, <3>2
  <2>3. Row(arg, i, l) = arg.P[i][l]
    BY <1>8 DEF Row
  <2> QED
    BY <1>1, <1>3, <1>4, <2>2, <2>3 DEF w
<1> QED
  BY <1>5, <1>6, <1>7, <1>8

(***************************************************************************)
(* The sums over the noise                                                 *)
(***************************************************************************)
\* A sum over three noises with the variances v.
NoiseProducts(f, g, v) == SumOfThree([k \in Axes |-> (((f[k] * g[k]) % Prime) * v[k]) % Prime])

\* What one noise of variance v adds, by its coefficients a and b.
NoiseTerm(a, v, b) == ((a * v) % Prime) * b

\* The order of the factors does not matter.
LEMMA NoiseProductsAre ==
    ASSUME NEW f \in [0 .. 2 -> Int], NEW g \in [0 .. 2 -> Int], NEW v \in [0 .. 2 -> Int]
    PROVE  /\ NoiseProducts(f, g, v)
                = (NoiseTerm(f[0], v[0], g[0]) + NoiseTerm(f[1], v[1], g[1])
                     + NoiseTerm(f[2], v[2], g[2])) % Prime
           /\ NoiseProducts(f, g, v) \in Int
           /\ \A k \in 0 .. 2 : NoiseTerm(f[k], v[k], g[k]) \in Int
<1>1. ASSUME NEW a \in Int, NEW b \in Int, NEW c \in Int
      PROVE  /\ ((a * c) % Prime) * b \in Int
             /\ (((a * c) % Prime) * b) % Prime = (((a * b) % Prime) * c) % Prime
  <2>1. PICK x \in Int, y \in Int, z \in Int : x = a * c /\ y = a * b /\ z = x * b
    OBVIOUS
  <2>2. (x * b) = (y * c)
    <3>1. (a * c) * b = (a * b) * c
      OBVIOUS
    <3> QED
      BY <2>1, <3>1
  <2>3. ((x % Prime) * b) % Prime = (x * b) % Prime /\ ((y % Prime) * c) % Prime = (y * c) % Prime
    BY ModArith
  <2>4. x % Prime \in Int
    BY ModIs
  <2>5. (x % Prime) * b \in Int
    BY <2>4
  <2> QED
    BY <2>1, <2>2, <2>3, <2>5
<1> DEFINE h == [k \in 0 .. 2 |-> ((f[k] * v[k]) % Prime) * g[k]]
<1>2. \A k \in 0 .. 2 : f[k] \in Int /\ g[k] \in Int /\ v[k] \in Int
  OBVIOUS
<1>3. \A k \in 0 .. 2 : /\ ((f[k] * v[k]) % Prime) * g[k] \in Int
                        /\ (((f[k] * v[k]) % Prime) * g[k]) % Prime = (((f[k] * g[k]) % Prime) * v[k]) % Prime
  <2> SUFFICES ASSUME NEW k \in 0 .. 2
               PROVE  /\ ((f[k] * v[k]) % Prime) * g[k] \in Int
                      /\ (((f[k] * v[k]) % Prime) * g[k]) % Prime = (((f[k] * g[k]) % Prime) * v[k]) % Prime
    OBVIOUS
  <2>1. PICK a \in Int, b \in Int, c \in Int : a = f[k] /\ b = g[k] /\ c = v[k]
    BY <1>2
  <2> QED
    BY <1>1, <2>1
<1>4. h \in [0 .. 2 -> Int]
  BY <1>3
<1>5. NoiseProducts(f, g, v) = SumOfThree([k \in Axes |-> h[k] % Prime])
  BY <1>3 DEF NoiseProducts, Axes
<1>6. /\ h[0] = ((f[0] * v[0]) % Prime) * g[0] /\ h[1] = ((f[1] * v[1]) % Prime) * g[1]
      /\ h[2] = ((f[2] * v[2]) % Prime) * g[2]
  OBVIOUS
<1> HIDE DEF h
<1>7. PICK s \in Int : s = h[0] + h[1] + h[2]
  BY <1>4
<1>8. NoiseProducts(f, g, v) = s % Prime
  BY <1>4, <1>5, <1>7, SumOfThreeIs
<1> QED
  BY <1>3, <1>6, <1>7, <1>8, ModIs DEF NoiseTerm

\* The sum over the noise of an entry of G V G^T.
NoiseSum(arg, i, j) ==
    SumOverNoise([k \in 0 .. 5 |->
        ((Linearise(arg).G[k][i] * var_u(arg)[k]) % Prime) * Linearise(arg).G[k][j]])

\* The noise of an attitude error, and of a velocity error; no other entry has
\* any.
LEMMA NoiseSums ==
    ASSUME NEW arg, IsInput(arg), NEW r \in 0 .. 2, NEW c \in 0 .. 2
    PROVE  /\ NoiseSum(arg, r, c)
                = NoiseProducts(GyroRow(arg, r), GyroRow(arg, c), [k \in 0 .. 2 |-> arg.gyro_var])
           /\ NoiseSum(arg, 3 + r, 3 + c)
                = NoiseProducts(AccelRow(arg, r), AccelRow(arg, c), arg.accel_var)
           /\ NoiseSum(arg, r, 3 + c) = 0
           /\ \A i \in 0 .. 14 : /\ NoiseSum(arg, i, 6 + c) = 0 /\ NoiseSum(arg, i, 9 + c) = 0
                                 /\ NoiseSum(arg, i, 12 + c) = 0
<1> DEFINE G(k, i) == Linearise(arg).G[k][i]
           V(k) == var_u(arg)[k]
           F(i, j) == [k \in 0 .. 5 |-> NoiseTerm(G(k, i), V(k), G(k, j))]
<1>1. arg.accel_var \in [0 .. 2 -> Int] /\ arg.gyro_var \in Int
  BY DEF IsInput
<1>2. /\ V(0) = arg.accel_var[0] /\ V(1) = arg.accel_var[1] /\ V(2) = arg.accel_var[2]
      /\ V(3) = arg.gyro_var /\ V(4) = arg.gyro_var /\ V(5) = arg.gyro_var
  BY DEF var_u
<1>3. \A k \in 0 .. 5 : V(k) \in Int
  <2>1. \A k \in 0 .. 5 : k = 0 \/ k = 1 \/ k = 2 \/ k = 3 \/ k = 4 \/ k = 5
    OBVIOUS
  <2>2. arg.accel_var[0] \in Int /\ arg.accel_var[1] \in Int /\ arg.accel_var[2] \in Int
    BY <1>1
  <2> QED
    BY <1>1, <1>2, <2>1, <2>2
<1>4. \A i \in 0 .. 2, k \in 0 .. 5 :
         /\ G(k, i) = IF k \in 3 .. 5 THEN GyroCoefficient(arg, i, k - 3) ELSE 0
         /\ G(k, 3 + i) = IF k \in 0 .. 2 THEN AccelCoefficient(arg, i, k) ELSE 0
         /\ G(k, 6 + i) = 0 /\ G(k, 9 + i) = 0 /\ G(k, 12 + i) = 0
  BY NoiseCoefficients
<1>5. \A i, j : NoiseSum(arg, i, j)
         = (F(i, j)[0] + F(i, j)[1] + F(i, j)[2] + F(i, j)[3] + F(i, j)[4] + F(i, j)[5]) % Prime
  BY DEF NoiseSum, SumOverNoise, NoiseTerm
<1>6. \A i, j : \A k \in 0 .. 5 : F(i, j)[k] = NoiseTerm(G(k, i), V(k), G(k, j))
  OBVIOUS
<1>7. \A i \in 0 .. 2, k \in 0 .. 2 :
         GyroCoefficient(arg, i, k) \in Int /\ AccelCoefficient(arg, i, k) \in Int
  BY CoefficientsInt
<1> HIDE DEF F, G, V
<1>8. \A i \in 0 .. 2, k \in 0 .. 5 : G(k, i) \in Int /\ G(k, 3 + i) \in Int
  <2>1. \A k \in 3 .. 5 : k - 3 \in 0 .. 2
    OBVIOUS
  <2> QED
    BY <1>4, <1>7, <2>1
<1>9. \A a, b \in Int : NoiseTerm(a, b, 0) = 0 /\ NoiseTerm(0, b, a) = 0
  <2> SUFFICES ASSUME NEW a \in Int, NEW b \in Int
               PROVE  NoiseTerm(a, b, 0) = 0 /\ NoiseTerm(0, b, a) = 0
    OBVIOUS
  <2>1. PICK x \in Int, y \in Int : x = a * b /\ y = x % Prime
    BY ModIs
  <2>2. y * 0 = 0 /\ 0 * a = 0 /\ 0 * b = 0
    OBVIOUS
  <2> QED
    BY <2>1, <2>2, ModSmall DEF NoiseTerm
<1>10. 0 + 0 + 0 + 0 + 0 + 0 = 0
  OBVIOUS
<1>11. NoiseSum(arg, r, c)
         = NoiseProducts(GyroRow(arg, r), GyroRow(arg, c), [k \in 0 .. 2 |-> arg.gyro_var])
  <2> DEFINE f == GyroRow(arg, r)
             g == GyroRow(arg, c)
             v == [k \in 0 .. 2 |-> arg.gyro_var]
  <2>1. f \in [0 .. 2 -> Int] /\ g \in [0 .. 2 -> Int] /\ v \in [0 .. 2 -> Int]
    BY <1>1, RowsInt
  <2>2. /\ G(3, r) = f[0] /\ G(4, r) = f[1] /\ G(5, r) = f[2]
        /\ G(3, c) = g[0] /\ G(4, c) = g[1] /\ G(5, c) = g[2]
        /\ V(3) = v[0] /\ V(4) = v[1] /\ V(5) = v[2]
    BY <1>2, <1>4 DEF GyroRow
  <2>3. G(0, r) = 0 /\ G(1, r) = 0 /\ G(2, r) = 0
    BY <1>4
  <2> HIDE DEF f, g, v
  <2>4. F(r, c)[0] = 0 /\ F(r, c)[1] = 0 /\ F(r, c)[2] = 0
    <3>1. ASSUME NEW k \in 0 .. 2 PROVE F(r, c)[k] = 0
      <4>1. k \in 0 .. 5 /\ G(k, r) = 0
        BY <2>3
      <4>2. G(k, c) \in Int /\ V(k) \in Int
        BY <1>3, <1>8, <4>1
      <4> QED
        BY <1>6, <1>9, <4>1, <4>2
    <3> QED
      BY <3>1
  <2>5. /\ F(r, c)[3] = NoiseTerm(f[0], v[0], g[0])
        /\ F(r, c)[4] = NoiseTerm(f[1], v[1], g[1])
        /\ F(r, c)[5] = NoiseTerm(f[2], v[2], g[2])
    BY <1>6, <2>2
  <2>6. PICK x \in Int, y \in Int, z \in Int :
           x = F(r, c)[3] /\ y = F(r, c)[4] /\ z = F(r, c)[5]
    <3>1. \A k \in 0 .. 2 : NoiseTerm(f[k], v[k], g[k]) \in Int
      BY <2>1, NoiseProductsAre
    <3>2. F(r, c)[3] \in Int /\ F(r, c)[4] \in Int /\ F(r, c)[5] \in Int
      BY <2>5, <3>1
    <3> QED
      BY <3>2
  <2>7. NoiseProducts(f, g, v) = (x + y + z) % Prime
    BY <2>1, <2>5, <2>6, NoiseProductsAre
  <2>8. NoiseSum(arg, r, c) = (0 + 0 + 0 + x + y + z) % Prime
    BY <1>5, <2>4, <2>6
  <2>9. 0 + 0 + 0 + x + y + z = x + y + z
    OBVIOUS
  <2> QED
    BY <2>7, <2>8, <2>9 DEF f, g, v
<1>12. NoiseSum(arg, 3 + r, 3 + c) = NoiseProducts(AccelRow(arg, r), AccelRow(arg, c), arg.accel_var)
  <2> DEFINE f == AccelRow(arg, r)
             g == AccelRow(arg, c)
             v == arg.accel_var
             i == 3 + r
             j == 3 + c
  <2>1. f \in [0 .. 2 -> Int] /\ g \in [0 .. 2 -> Int] /\ v \in [0 .. 2 -> Int]
    BY <1>1, RowsInt
  <2>2. /\ G(0, i) = f[0] /\ G(1, i) = f[1] /\ G(2, i) = f[2]
        /\ G(0, j) = g[0] /\ G(1, j) = g[1] /\ G(2, j) = g[2]
        /\ V(0) = v[0] /\ V(1) = v[1] /\ V(2) = v[2]
    BY <1>2, <1>4 DEF AccelRow
  <2>3. \A k \in 3 .. 5 : G(k, i) = 0
    BY <1>4
  <2>4. \A k \in 0 .. 5 : G(k, j) \in Int
    BY <1>8
  <2> HIDE DEF f, g, v, i, j
  <2>5. F(i, j)[3] = 0 /\ F(i, j)[4] = 0 /\ F(i, j)[5] = 0
    <3>1. ASSUME NEW k \in 3 .. 5 PROVE F(i, j)[k] = 0
      <4>1. k \in 0 .. 5 /\ G(k, i) = 0
        BY <2>3
      <4>2. G(k, j) \in Int /\ V(k) \in Int
        BY <1>3, <2>4, <4>1
      <4> QED
        BY <1>6, <1>9, <4>1, <4>2
    <3> QED
      BY <3>1
  <2>6. /\ F(i, j)[0] = NoiseTerm(f[0], v[0], g[0])
        /\ F(i, j)[1] = NoiseTerm(f[1], v[1], g[1])
        /\ F(i, j)[2] = NoiseTerm(f[2], v[2], g[2])
    BY <1>6, <2>2
  <2>7. PICK x \in Int, y \in Int, z \in Int :
           x = F(i, j)[0] /\ y = F(i, j)[1] /\ z = F(i, j)[2]
    <3>1. \A k \in 0 .. 2 : NoiseTerm(f[k], v[k], g[k]) \in Int
      BY <2>1, NoiseProductsAre
    <3>2. F(i, j)[0] \in Int /\ F(i, j)[1] \in Int /\ F(i, j)[2] \in Int
      BY <2>6, <3>1
    <3> QED
      BY <3>2
  <2>8. NoiseProducts(f, g, v) = (x + y + z) % Prime
    BY <2>1, <2>6, <2>7, NoiseProductsAre
  <2>9. NoiseSum(arg, i, j) = (x + y + z + 0 + 0 + 0) % Prime
    BY <1>5, <2>5, <2>7
  <2>10. x + y + z + 0 + 0 + 0 = x + y + z
    OBVIOUS
  <2> QED
    BY <2>8, <2>9, <2>10 DEF f, g, v, i, j
<1>13. ASSUME NEW i, NEW j, \A k \in 0 .. 5 : F(i, j)[k] = 0
       PROVE  NoiseSum(arg, i, j) = 0
  <2>1. /\ F(i, j)[0] = 0 /\ F(i, j)[1] = 0 /\ F(i, j)[2] = 0
        /\ F(i, j)[3] = 0 /\ F(i, j)[4] = 0 /\ F(i, j)[5] = 0
    BY <1>13
  <2> QED
    BY <1>5, <1>10, <2>1, ModSmall
<1>14. NoiseSum(arg, r, 3 + c) = 0
  <2>1. ASSUME NEW k \in 0 .. 5 PROVE F(r, 3 + c)[k] = 0
    <3>1. F(r, 3 + c)[k] = NoiseTerm(G(k, r), V(k), G(k, 3 + c))
      BY <1>6
    <3>2. G(k, r) \in Int /\ G(k, 3 + c) \in Int /\ V(k) \in Int
      BY <1>3, <1>8
    <3>3. G(k, r) = 0 \/ G(k, 3 + c) = 0
      BY <1>4
    <3> QED
      BY <1>9, <3>1, <3>2, <3>3
  <2> QED
    BY <1>13, <2>1
<1>15. ASSUME NEW i \in 0 .. 14
       PROVE  /\ NoiseSum(arg, i, 6 + c) = 0 /\ NoiseSum(arg, i, 9 + c) = 0
              /\ NoiseSum(arg, i, 12 + c) = 0
  <2>1. \A k \in 0 .. 5 : G(k, i) \in Int
    <3>1. CASE i \in 0 .. 2
      BY <1>8, <3>1
    <3>2. CASE i \in 3 .. 5
      <4>1. PICK n \in 0 .. 2 : 3 + n = i
        BY <3>2
      <4>2. \A k \in 0 .. 5 : G(k, 3 + n) \in Int
        BY <1>8
      <4> QED
        BY <4>1, <4>2
    <3>3. CASE i \in 6 .. 14
      <4>1. PICK n \in 0 .. 2 : 6 + n = i \/ 9 + n = i \/ 12 + n = i
        <5>1. CASE i \in 6 .. 8
          <6>1. i - 6 \in 0 .. 2 /\ 6 + (i - 6) = i
            BY <5>1
          <6> QED
            BY <6>1
        <5>2. CASE i \in 9 .. 11
          <6>1. i - 9 \in 0 .. 2 /\ 9 + (i - 9) = i
            BY <5>2
          <6> QED
            BY <6>1
        <5>3. CASE i \in 12 .. 14
          <6>1. i - 12 \in 0 .. 2 /\ 12 + (i - 12) = i
            BY <5>3
          <6> QED
            BY <6>1
        <5> QED
          BY <3>3, <5>1, <5>2, <5>3
      <4>2. \A k \in 0 .. 5 : G(k, 6 + n) = 0 /\ G(k, 9 + n) = 0 /\ G(k, 12 + n) = 0
        BY <1>4
      <4> QED
        BY <4>1, <4>2
    <3> QED
      BY <3>1, <3>2, <3>3
  <2>2. ASSUME NEW j, \A k \in 0 .. 5 : G(k, j) = 0
        PROVE  NoiseSum(arg, i, j) = 0
    <3>1. ASSUME NEW k \in 0 .. 5 PROVE F(i, j)[k] = 0
      <4>1. G(k, i) \in Int /\ V(k) \in Int /\ G(k, j) = 0
        BY <1>3, <2>1, <2>2
      <4> QED
        BY <1>6, <1>9, <4>1
    <3> QED
      BY <1>13, <3>1
  <2> QED
    BY <1>4, <2>2
<1> QED
  BY <1>11, <1>12, <1>14, <1>15

(***************************************************************************)
(* The covariance                                                          *)
(***************************************************************************)
\* The entries of A are integers.
LEMMA JacobianInt ==
    ASSUME NEW arg, IsInput(arg), NEW k \in 0 .. 14, NEW i \in 0 .. 14
    PROVE  Linearise(arg).A[k][i] \in Int
<1>1. \A r \in 0 .. 2 : /\ Linearise(arg).A[k][r] = AttitudeCoefficient(arg, r, k)
                        /\ Linearise(arg).A[k][3 + r] = VelocityCoefficient(arg, r, k)
                        /\ Linearise(arg).A[k][6 + r] = (Delta(6 + r, k) + arg.dt * Delta(3 + r, k)) % Prime
                        /\ Linearise(arg).A[k][9 + r] = Delta(9 + r, k)
                        /\ Linearise(arg).A[k][12 + r] = Delta(12 + r, k)
  BY ErrorCoefficients
<1>2. \A n \in Int : Delta(n, k) \in Int
  BY DEF Delta
<1>3. \A r \in 0 .. 2, l \in 0 .. 2 :
         /\ GyroCoefficient(arg, r, l) \in Int /\ AccelCoefficient(arg, r, l) \in Int
         /\ TurnCoefficient(arg, r, l) \in Int /\ Norm(arg.state) \in Int
  BY CoefficientsInt
<1>4. (k \in 9 .. 11 => k - 9 \in 0 .. 2) /\ (k \in 12 .. 14 => k - 12 \in 0 .. 2)
  OBVIOUS
<1>5. \A r \in 0 .. 2 : AttitudeCoefficient(arg, r, k) \in Int
  BY <1>3, <1>4 DEF AttitudeCoefficient
<1>6. \A r \in 0 .. 2 : VelocityCoefficient(arg, r, k) \in Int
  <2> SUFFICES ASSUME NEW r \in 0 .. 2 PROVE VelocityCoefficient(arg, r, k) \in Int
    OBVIOUS
  <2>1. Delta(3 + r, k) \in Int
    BY <1>2
  <2> QED
    BY <1>3, <1>4, <2>1 DEF VelocityCoefficient
<1>7. \A r \in 0 .. 2 : (Delta(6 + r, k) + arg.dt * Delta(3 + r, k)) % Prime \in Int
  <2> SUFFICES ASSUME NEW r \in 0 .. 2
               PROVE  (Delta(6 + r, k) + arg.dt * Delta(3 + r, k)) % Prime \in Int
    OBVIOUS
  <2>1. Delta(6 + r, k) \in Int /\ Delta(3 + r, k) \in Int
    BY DEF Delta
  <2>2. arg.dt \in Int
    BY DEF IsInput
  <2>3. PICK t \in Int, x \in Int, y \in Int : t = arg.dt /\ x = Delta(6 + r, k) /\ y = Delta(3 + r, k)
    BY <2>1, <2>2
  <2>4. PICK z \in Int : z = x + t * y
    OBVIOUS
  <2> QED
    BY <2>3, <2>4, ModIs
<1>8. \A r \in 0 .. 2 : /\ Linearise(arg).A[k][r] \in Int /\ Linearise(arg).A[k][3 + r] \in Int
                        /\ Linearise(arg).A[k][6 + r] \in Int /\ Linearise(arg).A[k][9 + r] \in Int
                        /\ Linearise(arg).A[k][12 + r] \in Int
  <2>1. \A r \in 0 .. 2 : 9 + r \in Int /\ 12 + r \in Int
    OBVIOUS
  <2> QED
    BY <1>1, <1>2, <1>5, <1>6, <1>7, <2>1
<1>9. PICK r \in 0 .. 2 : r = i \/ 3 + r = i \/ 6 + r = i \/ 9 + r = i \/ 12 + r = i
  <2>1. i \in 0 .. 2 \/ i - 3 \in 0 .. 2 \/ i - 6 \in 0 .. 2 \/ i - 9 \in 0 .. 2 \/ i - 12 \in 0 .. 2
    OBVIOUS
  <2>2. 3 + (i - 3) = i /\ 6 + (i - 6) = i /\ 9 + (i - 9) = i /\ 12 + (i - 12) = i
    OBVIOUS
  <2> QED
    BY <2>1, <2>2
<1> QED
  BY <1>8, <1>9

\* The entries of A P are reduced.
LEMMA RowReduced ==
    ASSUME NEW arg, IsInput(arg), NEW i \in 0 .. 14, NEW l \in 0 .. 14
    PROVE  Row(arg, i, l) % Prime = Row(arg, i, l)
<1> DEFINE f == [k \in 0 .. 14 |-> Linearise(arg).A[k][i] * arg.P[k][l]]
<1>1. \A k \in 0 .. 14 : Linearise(arg).A[k][i] \in Int /\ arg.P[k][l] \in Int
  <2>1. Scalar \subseteq Int
    BY PrimeAssumption DEF Scalar
  <2> QED
    BY <2>1, JacobianInt DEF IsInput
<1>2. \A k \in 0 .. 14 : f[k] \in Int
  BY <1>1
<1>3. Row(arg, i, l) = SumOverTangent(f)
  BY PredictedRow, Layout
<1> HIDE DEF f
<1>4. PICK n \in Int : n = (f[0] + f[1] + f[2]) + (f[3] + f[4] + f[5]) + (f[6] + f[7] + f[8])
                             + (f[9] + f[10] + f[11]) + (f[12] + f[13] + f[14])
  BY <1>2
<1>5. SumOverTangent(f) = n % Prime
  BY <1>2, <1>4, SumBlocks
<1> QED
  BY <1>3, <1>5, ModSmall

\* An entry of the covariance is the weighted sum of a row of A P, and noise.
LEMMA EntryIs ==
    ASSUME NEW arg, IsInput(arg), NEW i \in 0 .. 14, NEW j \in 0 .. 14, i <= j
    PROVE  predict_covariance(arg, Linearise(arg))[i][j]
             = (Weighted(arg, j, [l \in 0 .. 14 |-> Row(arg, i, l)]) + NoiseSum(arg, i, j)) % Prime
<1> DEFINE L == Linearise(arg)
           AP(l) == SumOverTangent([k \in Tangent |-> L.A[k][i] * arg.P[k][l]])
           R == [l \in 0 .. 14 |-> Row(arg, i, l)]
<1> HIDE DEF L
<1>1. predict_covariance(arg, L)[i][j]
        = (SumOverTangent([l \in Tangent |-> AP(l) * L.A[l][j]])
             + SumOverNoise([k \in 0 .. 5 |-> ((L.G[k][i] * var_u(arg)[k]) % Prime) * L.G[k][j]])) % Prime
  <2>1. i \in Tangent /\ j \in Tangent /\ ~ (i > j)
    BY Layout
  <2>2. predict_covariance(arg, L)[i][j]
          = (SumOverTangent([l \in Tangent |->
                 SumOverTangent([k \in Tangent |-> L.A[k][i] * arg.P[k][l]]) * L.A[l][j]])
               + SumOverNoise([k \in 0 .. 5 |-> ((L.G[k][i] * var_u(arg)[k]) % Prime) * L.G[k][j]])) % Prime
    BY <2>1, Zenon DEF predict_covariance
  <2> QED
    BY <2>2 DEF AP
<1>2. \A l \in 0 .. 14 : AP(l) = Row(arg, i, l) /\ Row(arg, i, l) \in Int
  BY PredictedRow DEF L
<1>3. \A l \in 0 .. 14 : L.A[l][j] \in Int
  BY JacobianInt DEF L
<1> HIDE DEF AP
<1>4. \A l \in 0 .. 14 : AP(l) * L.A[l][j] = L.A[l][j] * R[l]
  <2> SUFFICES ASSUME NEW l \in 0 .. 14 PROVE AP(l) * L.A[l][j] = L.A[l][j] * R[l]
    OBVIOUS
  <2>1. PICK x \in Int, y \in Int : x = AP(l) /\ y = L.A[l][j] /\ R[l] = x
    BY <1>2, <1>3
  <2>2. x * y = y * x
    OBVIOUS
  <2> QED
    BY <2>1, <2>2
<1> HIDE DEF R
<1>5. [l \in Tangent |-> AP(l) * L.A[l][j]] = [l \in Tangent |-> L.A[l][j] * R[l]]
  BY <1>4, Layout
<1>6. SumOverTangent([l \in Tangent |-> AP(l) * L.A[l][j]]) = Weighted(arg, j, R)
  BY <1>5 DEF Weighted, L
<1>7. SumOverNoise([k \in 0 .. 5 |-> ((L.G[k][i] * var_u(arg)[k]) % Prime) * L.G[k][j]])
        = NoiseSum(arg, i, j)
  BY DEF NoiseSum, L
<1> QED
  BY <1>1, <1>6, <1>7 DEF L, R

\* Each entry of the covariance is that of the generated function.
LEMMA PredictedEntry ==
    ASSUME NEW arg, IsInput(arg), NEW i \in 0 .. 14, NEW j \in 0 .. 14
    PROVE  predict_covariance(arg, Linearise(arg))[i][j] = generated_predict_covariance(arg)[i][j]
<1> DEFINE R == [l \in 0 .. 14 |-> Row(arg, i, l)]
           E == predict_covariance(arg, Linearise(arg))[i][j]
           W == Weighted(arg, j, R)
           V == [k \in 0 .. 2 |-> arg.gyro_var]
<1>1. CASE i > j
  <2>1. i \in Tangent /\ j \in Tangent
    BY Layout
  <2>2. E = 0
    BY <1>1, <2>1, Zenon DEF predict_covariance
  <2>3. ~ (i <= j)
    BY <1>1
  <2>4. generated_predict_covariance(arg)[i][j] = 0
    BY <1>1, <2>1, <2>3 DEF generated_predict_covariance
  <2> QED
    BY <2>2, <2>4
<1>2. ASSUME i <= j PROVE E = (W + NoiseSum(arg, i, j)) % Prime
  BY <1>2, EntryIs
<1>3. \A l \in 0 .. 14 : Row(arg, i, l) \in Int
  BY PredictedRow
<1>4. R \in [0 .. 14 -> Int] /\ \A l \in 0 .. 14 : R[l] = Row(arg, i, l)
  BY <1>3
<1> HIDE DEF R, E, W, V
<1>5. CASE i <= j /\ j \in 0 .. 2
  <2>1. generated_predict_covariance(arg)[i][j] = AttitudeColumn(arg, i, j)
    BY <1>5, Layout DEF generated_predict_covariance
  <2>2. i \in 0 .. 2
    BY <1>5
  <2>3. PICK x \in Int : /\ x = Norm(arg.state) * R[j] + Products(GyroRow(arg, j), Three(R, 9))
                         /\ W = x % Prime
    BY <1>4, <1>5, AttitudeWeighted DEF W
  <2>4. PICK y \in Int : /\ y = NoiseProducts(GyroRow(arg, i), GyroRow(arg, j), V)
                         /\ NoiseSum(arg, i, j) = y
    <3>1. V \in [0 .. 2 -> Int]
      BY DEF IsInput, V
    <3>2. GyroRow(arg, i) \in [0 .. 2 -> Int] /\ GyroRow(arg, j) \in [0 .. 2 -> Int]
      BY <1>5, <2>2, RowsInt
    <3>3. NoiseProducts(GyroRow(arg, i), GyroRow(arg, j), V) \in Int
      BY <3>1, <3>2, NoiseProductsAre
    <3>4. NoiseSum(arg, i, j) = NoiseProducts(GyroRow(arg, i), GyroRow(arg, j), V)
      BY <1>5, <2>2, NoiseSums DEF V
    <3> QED
      BY <3>3, <3>4
  <2>5. E = (x + y) % Prime
    BY <1>2, <1>5, <2>3, <2>4, ModArith
  <2>6. Products(GyroRow(arg, j), Three(R, 9))
          = SumOfThree([k \in Axes |-> (GyroCoefficient(arg, j, k) * Row(arg, i, 9 + k)) % Prime])
    <3>1. Products(GyroRow(arg, j), Three(R, 9))
            = SumOfThree([k \in Axes |-> (GyroCoefficient(arg, j, k) * R[9 + k]) % Prime])
      BY <1>5, ProductsOf
    <3>2. \A k \in 0 .. 2 : 9 + k \in 0 .. 14
      OBVIOUS
    <3>3. [k \in Axes |-> (GyroCoefficient(arg, j, k) * R[9 + k]) % Prime]
            = [k \in Axes |-> (GyroCoefficient(arg, j, k) * Row(arg, i, 9 + k)) % Prime]
      BY <1>4, <3>2 DEF Axes
    <3> QED
      BY <3>1, <3>3
  <2>7. NoiseProducts(GyroRow(arg, i), GyroRow(arg, j), V)
          = SumOfThree([k \in Axes |->
               (((GyroCoefficient(arg, i, k) * GyroCoefficient(arg, j, k)) % Prime) * arg.gyro_var) % Prime])
    BY DEF NoiseProducts, GyroRow, V, Axes
  <2>8. AttitudeColumn(arg, i, j) = (x + y) % Prime
    BY <1>4, <2>3, <2>4, <2>6, <2>7 DEF AttitudeColumn
  <2> QED
    BY <2>1, <2>5, <2>8 DEF E
<1>6. CASE i <= j /\ j \in 3 .. 5
  <2>1. PICK c \in 0 .. 2 : 3 + c = j /\ c = j - 3
    <3>1. j - 3 \in 0 .. 2 /\ 3 + (j - 3) = j
      BY <1>6
    <3> QED
      BY <3>1
  <2>2. generated_predict_covariance(arg)[i][j] = VelocityColumn(arg, i, c)
    BY <1>6, <2>1, Layout DEF generated_predict_covariance
  <2>3. PICK x \in Int : /\ x = R[3 + c] + Products(TurnRow(arg, c), Three(R, 0))
                                  + Products(AccelRow(arg, c), Three(R, 12))
                         /\ W = x % Prime
    BY <1>4, <2>1, VelocityWeighted DEF W
  <2>4. PICK y \in Int : /\ y = (IF i < 3 THEN 0 ELSE AccelNoise(arg, i - 3, c))
                         /\ NoiseSum(arg, i, j) = y
    <3>1. CASE i < 3
      <4>1. i \in 0 .. 2
        BY <3>1
      <4>2. NoiseSum(arg, i, 3 + c) = 0
        BY <4>1, NoiseSums
      <4> QED
        BY <2>1, <3>1, <4>2
    <3>2. CASE ~ (i < 3)
      <4>1. PICK r \in 0 .. 2 : 3 + r = i /\ r = i - 3
        <5>1. i - 3 \in 0 .. 2 /\ 3 + (i - 3) = i
          BY <1>6, <3>2
        <5> QED
          BY <5>1
      <4>2. NoiseSum(arg, 3 + r, 3 + c) = NoiseProducts(AccelRow(arg, r), AccelRow(arg, c), arg.accel_var)
        BY NoiseSums
      <4>3. /\ AccelRow(arg, r) \in [0 .. 2 -> Int] /\ AccelRow(arg, c) \in [0 .. 2 -> Int]
            /\ arg.accel_var \in [0 .. 2 -> Int]
        BY RowsInt DEF IsInput
      <4>4. NoiseProducts(AccelRow(arg, r), AccelRow(arg, c), arg.accel_var) \in Int
        BY <4>3, NoiseProductsAre
      <4>5. AccelNoise(arg, r, c) = NoiseProducts(AccelRow(arg, r), AccelRow(arg, c), arg.accel_var)
        BY DEF AccelNoise, NoiseProducts, AccelRow, Axes
      <4> QED
        BY <2>1, <3>2, <4>1, <4>2, <4>4, <4>5
    <3> QED
      BY <3>1, <3>2
  <2>5. E = (x + y) % Prime
    <3>1. E = ((x % Prime) + y) % Prime
      BY <1>2, <1>6, <2>3, <2>4
    <3> QED
      BY <3>1, ModArith
  <2>6. /\ Products(TurnRow(arg, c), Three(R, 0))
             = SumOfThree([k \in Axes |-> (TurnCoefficient(arg, c, k) * Row(arg, i, k)) % Prime])
        /\ Products(AccelRow(arg, c), Three(R, 12))
             = SumOfThree([k \in Axes |-> (AccelCoefficient(arg, c, k) * Row(arg, i, 12 + k)) % Prime])
    <3>1. /\ Products(TurnRow(arg, c), Three(R, 0))
               = SumOfThree([k \in Axes |-> (TurnCoefficient(arg, c, k) * R[k]) % Prime])
          /\ Products(AccelRow(arg, c), Three(R, 12))
               = SumOfThree([k \in Axes |-> (AccelCoefficient(arg, c, k) * R[12 + k]) % Prime])
      BY ProductsOf
    <3>2. \A k \in 0 .. 2 : k \in 0 .. 14 /\ 12 + k \in 0 .. 14
      OBVIOUS
    <3>3. [k \in Axes |-> (TurnCoefficient(arg, c, k) * R[k]) % Prime]
            = [k \in Axes |-> (TurnCoefficient(arg, c, k) * Row(arg, i, k)) % Prime]
      BY <1>4, <3>2 DEF Axes
    <3>4. [k \in Axes |-> (AccelCoefficient(arg, c, k) * R[12 + k]) % Prime]
            = [k \in Axes |-> (AccelCoefficient(arg, c, k) * Row(arg, i, 12 + k)) % Prime]
      BY <1>4, <3>2 DEF Axes
    <3> QED
      BY <3>1, <3>3, <3>4
  <2>7. R[3 + c] = Row(arg, i, 3 + c)
    BY <1>4, <2>1
  <2>8. VelocityColumn(arg, i, c) = (x + y) % Prime
    BY <2>3, <2>4, <2>6, <2>7 DEF VelocityColumn
  <2> QED
    BY <2>2, <2>5, <2>8 DEF E
<1>7. \A n \in Int : ((n % Prime) + 0) % Prime = n % Prime
  <2> SUFFICES ASSUME NEW n \in Int PROVE ((n % Prime) + 0) % Prime = n % Prime
    OBVIOUS
  <2>1. (n % Prime) + 0 = n % Prime
    BY ModIs
  <2> QED
    BY ModIs, ModArith
<1>8. CASE i <= j /\ j \in 6 .. 8
  <2>1. PICK c \in 0 .. 2 : 6 + c = j /\ c = j - 6
    <3>1. j - 6 \in 0 .. 2 /\ 6 + (j - 6) = j
      BY <1>8
    <3> QED
      BY <3>1
  <2>2. generated_predict_covariance(arg)[i][j] = PositionColumn(arg, i, c)
    BY <1>8, <2>1, Layout DEF generated_predict_covariance
  <2>3. PICK a \in Int, b \in Int, t \in Int :
           /\ a = Row(arg, i, 6 + c) /\ b = Row(arg, i, 3 + c) /\ t = arg.dt
           /\ R[6 + c] = a /\ R[3 + c] = b
    <3>1. 6 + c \in 0 .. 14 /\ 3 + c \in 0 .. 14 /\ arg.dt \in Int
      BY DEF IsInput
    <3> QED
      BY <1>3, <1>4, <3>1
  <2>4. W = (a + b * t) % Prime
    BY <1>4, <2>1, <2>3, OtherWeighted DEF W
  <2>5. PICK x \in Int : x = a + b * t
    OBVIOUS
  <2>6. NoiseSum(arg, i, j) = 0
    BY <2>1, NoiseSums
  <2>7. E = x % Prime
    BY <1>2, <1>7, <1>8, <2>4, <2>5, <2>6
  <2>8. PositionColumn(arg, i, c) = x % Prime
    BY <2>3, <2>5 DEF PositionColumn
  <2> QED
    BY <2>2, <2>7, <2>8 DEF E
<1>9. CASE i <= j /\ j \in 9 .. 14
  <2>1. generated_predict_covariance(arg)[i][j] = Row(arg, i, j)
    BY <1>9, Layout DEF generated_predict_covariance, BiasColumn
  <2>2. PICK c \in 0 .. 2 : 9 + c = j \/ 12 + c = j
    <3>1. j - 9 \in 0 .. 2 \/ j - 12 \in 0 .. 2
      BY <1>9
    <3>2. 9 + (j - 9) = j /\ 12 + (j - 12) = j
      OBVIOUS
    <3> QED
      BY <3>1, <3>2
  <2>3. W = R[j] % Prime
    <3>1. Weighted(arg, 9 + c, R) = R[9 + c] % Prime /\ Weighted(arg, 12 + c, R) = R[12 + c] % Prime
      BY <1>4, OtherWeighted
    <3> QED
      BY <2>2, <3>1 DEF W
  <2>4. PICK x \in Int : x = Row(arg, i, j) /\ R[j] = x
    BY <1>3, <1>4
  <2>5. NoiseSum(arg, i, j) = 0
    BY <2>2, NoiseSums
  <2>6. E = x % Prime
    BY <1>2, <1>7, <1>9, <2>3, <2>4, <2>5
  <2>7. x % Prime = x
    BY <2>4, RowReduced
  <2> QED
    BY <2>1, <2>4, <2>6, <2>7 DEF E
<1>10. i > j \/ (i <= j /\ j \in 0 .. 2) \/ (i <= j /\ j \in 3 .. 5) \/ (i <= j /\ j \in 6 .. 8)
         \/ (i <= j /\ j \in 9 .. 14)
  OBVIOUS
<1> QED
  BY <1>1, <1>5, <1>6, <1>8, <1>9, <1>10 DEF E

\* The derivation and the generated function return the same matrix.
LEMMA PredictionIsGenerated ==
    ASSUME NEW arg, IsInput(arg)
    PROVE  predict_covariance(arg, Linearise(arg)) = generated_predict_covariance(arg)
<1> DEFINE M == predict_covariance(arg, Linearise(arg))
           N == generated_predict_covariance(arg)
<1>1. \A i \in 0 .. 14, j \in 0 .. 14 : M[i][j] = N[i][j]
  BY PredictedEntry
<1>2. M = [i \in 0 .. 14 |-> [j \in 0 .. 14 |-> M[i][j]]]
  BY Layout DEF predict_covariance
<1>3. N = [i \in 0 .. 14 |-> [j \in 0 .. 14 |-> N[i][j]]]
  BY Layout DEF generated_predict_covariance
<1> HIDE DEF M, N
<1>4. M = N
  BY <1>1, <1>2, <1>3
<1> QED
  BY <1>4 DEF M, N

(***************************************************************************)
(* The theorem on the prediction                                           *)
(***************************************************************************)
\* The Jacobians are those of the argument once they are derived, and a result
\* is that of the last call on it.
PredictionInv ==
    /\ ekf_arg \in EkfArguments
    /\ ekf_called # "start" => ekf_jacobians = Linearise(ekf_arg)
    /\ ekf_called = "predict_covariance" => ekf_result = generated_predict_covariance(ekf_arg)

\* Only Derive writes the Jacobians, once, and the argument never changes.
LEMMA PredictionInvHolds == EkfSpec => []PredictionInv
<1>1. EkfInit => PredictionInv
  BY DEF EkfInit, PredictionInv
<1>2. PredictionInv /\ [EkfNext]_ekfVars => PredictionInv'
  <2> SUFFICES ASSUME PredictionInv, [EkfNext]_ekfVars PROVE PredictionInv'
    OBVIOUS
  <2>1. CASE Derive
    BY <2>1 DEF PredictionInv, Derive
  <2>2. CASE CallPredictCovariance
    BY <2>2 DEF PredictionInv, CallPredictCovariance
  <2>3. ASSUME NEW sensor \in Sensors, CallInnovVarAndH(sensor) PROVE PredictionInv'
    <3>1. sensor # "predict_covariance" /\ sensor # "start"
      BY DEF Sensors
    <3> QED
      BY <2>3, <3>1 DEF PredictionInv, CallInnovVarAndH
  <2>4. CASE UNCHANGED ekfVars
    BY <2>4 DEF PredictionInv, ekfVars
  <2> QED
    BY <2>1, <2>2, <2>3, <2>4 DEF EkfNext
<1> QED
  BY <1>1, <1>2, PTL DEF EkfSpec

\* The generated predict_covariance is the upper triangle of
\* A P A^T + G V G^T for the Jacobians of the error kinematics, for every
\* state, covariance and input, in every field.
THEOREM PredictionCorrect == EkfSpec => []PredictionIsLinearised
<1>1. PredictionInv => PredictionIsLinearised
  <2> SUFFICES ASSUME PredictionInv, ekf_called = "predict_covariance"
               PROVE  ekf_result = predict_covariance(ekf_arg, ekf_jacobians)
    BY DEF PredictionIsLinearised
  <2>1. /\ ekf_arg \in EkfArguments /\ ekf_jacobians = Linearise(ekf_arg)
        /\ ekf_result = generated_predict_covariance(ekf_arg)
    BY DEF PredictionInv
  <2>2. IsInput(ekf_arg)
    BY <2>1, InputsAre
  <2> QED
    BY <2>1, <2>2, PredictionIsGenerated
<1> QED
  BY <1>1, PredictionInvHolds, PTL
=============================================================================
