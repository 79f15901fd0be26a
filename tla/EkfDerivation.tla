---------------------------- MODULE EkfDerivation ----------------------------
(***************************************************************************)
(* ekf_derivation.py: the kinematics of the filter, their linearisation    *)
(* around a nominal state, the prediction of the covariance, the           *)
(* measurement models and their Jacobians.  A Jacobian is found by         *)
(* evaluating the kinematics on numbers with an infinitesimal part.        *)
(*                                                                         *)
(* The arguments of the functions come as one record: state, P, accel,     *)
(* accel_var, gyro, gyro_var, dt, meas, mag_ref, R, of scalars.            *)
(***************************************************************************)
EXTENDS DualNumbers, EkfState

Tangent == 0 .. TANGENT_DIM - 1
Storage == 0 .. STATE_DIM - 1
Axes    == 0 .. 2

LiftV3(v) == [i \in Axes |-> Lift(v[i])]

\* vstate_to_state of the nominal state, as numbers.
Nominal(arg) == vstate_to_state([i \in Storage |-> Lift(arg.state[i])])

\* A vector of an error state, and of the noise, member by member.
ErrorOf(e) ==
    [key \in Keys |-> [j \in Axes |-> e[BuildTangentStateIndex[key].idx + j]]]
NoiseOf(n) == [accel |-> [j \in Axes |-> n[j]], gyro |-> [j \in Axes |-> n[3 + j]]]

(***************************************************************************)
(* 4. Prediction of the covariance                                         *)
(***************************************************************************)

\* The true state of a nominal state and an error: a small rotation in the
\* world frame, and differences.
TrueState(state, error) ==
    [key \in Keys |->
        IF key = "quat_nominal"
          THEN QuatTimes(Quaternion(Times(Half, error[key]), One), state[key])
          ELSE Plus(state[key], error[key])]

\* One step of the kinematics.  g cancels in the error, any value will do.
Propagate(state, accel, gyro, dt) ==
    LET q == state["quat_nominal"]
        g == V3(Zero, Zero, Lift(10))
    IN  [key \in Keys |->
            CASE key = "quat_nominal" ->
                    QuatTimes(q, Quaternion(Times(Half ** dt, gyro), One))
              [] key = "vel" -> Plus(state[key], Times(dt, Plus(Rotate(q, accel), g)))
              [] key = "pos" -> Plus(state[key], Times(dt, state["vel"]))
              [] OTHER -> state[key]]

PredictedTrue(arg, error, noise, dt) ==
    LET state_t == TrueState(Nominal(arg), error)
    IN  Propagate(state_t,
            Minus(Minus(LiftV3(arg.accel), state_t["accel_bias"]), noise.accel),
            Minus(Minus(LiftV3(arg.gyro), state_t["gyro_bias"]), noise.gyro), dt)

PredictedNominal(arg, dt) ==
    LET state == Nominal(arg)
    IN  Propagate(state, Minus(LiftV3(arg.accel), state["accel_bias"]),
                         Minus(LiftV3(arg.gyro), state["gyro_bias"]), dt)

\* The rotation from the predicted nominal to the predicted true attitude,
\* without its terms in dt^2.
ThetaPred(arg, error, noise) ==
    LET dt      == Lift(arg.dt) ** TAU
        delta_q == QuatTimes(PredictedTrue(arg, error, noise, dt)["quat_nominal"],
                             conj(PredictedNominal(arg, dt)["quat_nominal"]))
    IN  [i \in Axes |-> AtOne(Twice(Xyz(delta_q)[i]))]

state_error_pred(arg, e, n) ==
    LET error   == ErrorOf(e)
        noise   == NoiseOf(n)
        state_t == PredictedTrue(arg, error, noise, Lift(arg.dt))
        state   == PredictedNominal(arg, Lift(arg.dt))
        pred    == [key \in Keys |->
                       IF key = "quat_nominal" THEN ThetaPred(arg, error, noise)
                                               ELSE Minus(state_t[key], state[key])]
    IN  [i \in Tangent |->
            LET key == OwnerOf(TangentStart, i)
            IN  pred[key][i - BuildTangentStateIndex[key].idx]]

\* Zero but for EPS at index j.
Along(j, dom) == [i \in dom |-> IF i = j THEN EPS ELSE Zero]
AllZero(dom)  == [i \in dom |-> Zero]

\* The columns of the Jacobians A and G: A[j][i] is the derivative of the
\* i-th error after the prediction along the j-th before it.
Linearise(arg) ==
    [A |-> [j \in Tangent |->
              LET pred == state_error_pred(arg, Along(j, Tangent), AllZero(0 .. 5))
              IN  [i \in Tangent |-> Derivative(pred[i])]],
     G |-> [j \in 0 .. 5 |->
              LET pred == state_error_pred(arg, AllZero(Tangent), Along(j, 0 .. 5))
              IN  [i \in Tangent |-> Derivative(pred[i])]]]

\* The inner products of vectors of the noise, of errors, and of states.
SumOverNoise(f)   == (f[0] + f[1] + f[2] + f[3] + f[4] + f[5]) % Prime
SumOverTangent(f) == (f[0] + f[1] + f[2] + f[3] + f[4] + f[5] + f[6] + f[7] + f[8] + f[9]
                        + f[10] + f[11] + f[12] + f[13] + f[14]) % Prime
SumOverStorage(f) == (SumOverTangent(f) + f[15]) % Prime

var_u(arg) == [k \in 0 .. 5 |-> IF k < 3 THEN arg.accel_var[k] ELSE arg.gyro_var]

\* The upper triangle of A P A^T + G var_u G^T.
predict_covariance(arg, lin) ==
    LET AP(i, l) == SumOverTangent([k \in Tangent |-> lin.A[k][i] * arg.P[k][l]])
        Entry(i, j) ==
            (SumOverTangent([l \in Tangent |-> AP(i, l) * lin.A[l][j]])
               + SumOverNoise([k \in 0 .. 5 |->
                     ((lin.G[k][i] * var_u(arg)[k]) % Prime) * lin.G[k][j]])) % Prime
    IN  [i \in Tangent |-> [j \in Tangent |-> IF i > j THEN 0 ELSE Entry(i, j)]]

(***************************************************************************)
(* 6. The measurement models: what the state predicts for each component   *)
(* of the measurement.                                                     *)
(***************************************************************************)
Sensors == {"gps_pos", "gps_vel", "mag", "baro", "lidar"}

Components(sensor) == IF sensor \in {"baro", "lidar"} THEN {0} ELSE Axes

MeasPred(sensor, arg, state) ==
    CASE sensor = "gps_pos" -> state["pos"]
      [] sensor = "gps_vel" -> state["vel"]
      [] sensor = "mag"     -> RotateBack(state["quat_nominal"], LiftV3(arg.mag_ref))
      [] OTHER              -> [i \in {0} |-> Zero -- state["pos"][2]]

(***************************************************************************)
(* 5. The chain rule: the Jacobian in the 16 numbers of the state, times   *)
(* the matrix that maps an error to a change of these numbers.  Both use   *)
(* symforce's order of the quaternion, x, y, z, w.                         *)
(***************************************************************************)
StoredState(flat) ==
    [key \in Keys |->
        IF key = "quat_nominal"
          THEN [x |-> flat[0], y |-> flat[1], z |-> flat[2], w |-> flat[3]]
          ELSE [j \in Axes |-> flat[offset(key) + j]]]

dh_dx(sensor, arg, c) ==
    LET flat == Data(Nominal(arg))
    IN  [k \in Storage |->
            Derivative(MeasPred(sensor, arg,
                StoredState([flat EXCEPT ![k] = @ ++ EPS]))[c])]

dx_derror(arg) ==
    LET q == Nominal(arg)["quat_nominal"]
        Column(j) == QuatTimes(Quaternion([i \in Axes |-> IF i = j THEN Half ELSE Zero], Zero), q)
    IN  [k \in Storage |-> [j \in Tangent |->
            IF k < 4
              THEN IF j < 3 THEN LET p == Column(j) IN Value(<<p.x, p.y, p.z, p.w>>[k + 1]) ELSE 0
              ELSE IF j >= 3 /\ k = j + 1 THEN 1 ELSE 0]]

jacobian_chain_rule(sensor, arg, c) ==
    LET dh == dh_dx(sensor, arg, c)
        dx == dx_derror(arg)
    IN  [j \in Tangent |-> SumOverStorage([k \in Storage |-> dh[k] * dx[k][j]])]

\* innov, innov_var and H of a sensor.
compute_innov_var_and_h(sensor, arg) ==
    LET H == [c \in Components(sensor) |-> jacobian_chain_rule(sensor, arg, c)]
        HP(c, l) == SumOverTangent([k \in Tangent |-> H[c][k] * arg.P[k][l]])
    IN  [innov     |-> [c \in Components(sensor) |->
                          (Value(MeasPred(sensor, arg, Nominal(arg))[c]) - arg.meas[c]) % Prime],
         innov_var |-> [c \in Components(sensor) |->
                          (SumOverTangent([l \in Tangent |-> HP(c, l) * H[c][l]])
                             + arg.R) % Prime],
         H         |-> H]
=============================================================================
