---------------------------- MODULE EkfGenerated ----------------------------
(***************************************************************************)
(* The functions symforce generated from ekf_derivation.py, as they stand  *)
(* in the repository: arithmetic on the state vector s, P and the          *)
(* measurement, with every zero of a Jacobian left out.  Common            *)
(* subexpressions are named by what they are.  The functions refuse        *)
(* arguments of another shape with an IndexError; here the arguments have  *)
(* the declared shapes.                                                    *)
(***************************************************************************)
EXTENDS EkfDerivation

Halved(a) == (a * Half[1]) % Prime

\* f[0] + f[1] + f[2].
SumOfThree(f) == (f[0] + f[1] + f[2]) % Prime

(***************************************************************************)
(* predict_covariance                                                      *)
(***************************************************************************)

\* _tmp23: the squared norm of the quaternion.
Norm(s) == (s[0] * s[0] + s[1] * s[1] + s[2] * s[2] + s[3] * s[3]) % Prime

\* The entries of the rotation matrix off the diagonal.
Mixed(s, r, k) ==
    LET turn == 2 * s[0] * s[4 - r - k]
    IN  (2 * s[r + 1] * s[k + 1]
           + (IF <<r, k>> \in {<<0, 1>>, <<1, 2>>, <<2, 0>>} THEN -turn ELSE turn)) % Prime

\* The rotation matrix in the form that scales with the norm.
Rotation(s, r, k) ==
    IF r = k THEN (2 * (s[0] * s[0] + s[r + 1] * s[r + 1]) - Norm(s)) % Prime
             ELSE Mixed(s, r, k)

\* The rotation matrix in the form for unit quaternions: _tmp79, 58 and 54;
\* _tmp101, 112 and 106; _tmp71, 72 and 132.
UnitRotation(s, r, k) ==
    IF r = k THEN (1 - 2 * (Norm(s) - s[0] * s[0] - s[r + 1] * s[r + 1])) % Prime
             ELSE Mixed(s, r, k)

\* Mutant: the sign of the gyroscope's bias is lost.
GyroCoefficient_Sign(arg, r, k) == (Rotation(arg.state, r, k) * arg.dt) % Prime

\* Attitude error r from gyroscope bias k: _tmp8, 15 and 20; _tmp29, 36 and
\* 34; _tmp43, 44 and 45.
GyroCoefficient(arg, r, k) == (-(Rotation(arg.state, r, k) * arg.dt)) % Prime

\* The acceleration in the world frame.
Acceleration(arg, r) ==
    SumOfThree([k \in Axes |->
        (Rotation(arg.state, r, k) * ((arg.accel[k] - arg.state[13 + k]) % Prime)) % Prime])

\* Velocity error r from attitude error k: _tmp75 and 69; _tmp110 and 104;
\* _tmp131 and 129.
TurnCoefficient(arg, r, k) ==
    LET turned == Acceleration(arg, 3 - r - k) * arg.dt
    IN  CASE r = k -> 0
          [] <<r, k>> \in {<<0, 1>>, <<1, 2>>, <<2, 0>>} -> turned % Prime
          [] OTHER -> (-turned) % Prime

\* Velocity error r from accelerometer bias k.
AccelCoefficient(arg, r, k) == (-(UnitRotation(arg.state, r, k) * arg.dt)) % Prime

\* The rows of A P, by the kind of error.
AttitudeRow(arg, r, c) ==
    (Norm(arg.state) * arg.P[r][c]
       + SumOfThree([k \in Axes |-> (GyroCoefficient(arg, r, k) * arg.P[9 + k][c]) % Prime]))
    % Prime

VelocityRow(arg, r, c) ==
    (arg.P[3 + r][c]
       + SumOfThree([k \in Axes |-> (TurnCoefficient(arg, r, k) * arg.P[k][c]) % Prime])
       + SumOfThree([k \in Axes |-> (AccelCoefficient(arg, r, k) * arg.P[12 + k][c]) % Prime]))
    % Prime

Row(arg, r, c) ==
    CASE r < 3       -> AttitudeRow(arg, r, c)
      [] r \in 3 .. 5 -> VelocityRow(arg, r - 3, c)
      [] r \in 6 .. 8 -> (arg.P[r][c] + arg.P[r - 3][c] * arg.dt) % Prime
      [] OTHER       -> arg.P[r][c]

\* The columns of the result, by the kind of error: _res[_, 0..2], 3..5 and
\* 6..8.  The others are the rows as they are.
AttitudeColumn(arg, r, c) ==
    (Norm(arg.state) * Row(arg, r, c)
       + SumOfThree([k \in Axes |-> (GyroCoefficient(arg, c, k) * Row(arg, r, 9 + k)) % Prime])
       + SumOfThree([k \in Axes |->
            (((GyroCoefficient(arg, r, k) * GyroCoefficient(arg, c, k)) % Prime)
                * arg.gyro_var) % Prime])) % Prime

AccelNoise(arg, r, c) ==
    SumOfThree([k \in Axes |->
        (((AccelCoefficient(arg, r, k) * AccelCoefficient(arg, c, k)) % Prime)
            * arg.accel_var[k]) % Prime])

VelocityColumn(arg, r, c) ==
    (Row(arg, r, 3 + c)
       + SumOfThree([k \in Axes |-> (TurnCoefficient(arg, c, k) * Row(arg, r, k)) % Prime])
       + SumOfThree([k \in Axes |-> (AccelCoefficient(arg, c, k) * Row(arg, r, 12 + k)) % Prime])
       + (IF r < 3 THEN 0 ELSE AccelNoise(arg, r - 3, c))) % Prime

PositionColumn(arg, r, c) == (Row(arg, r, 6 + c) + Row(arg, r, 3 + c) * arg.dt) % Prime

BiasColumn(arg, r, c) == Row(arg, r, c)

generated_predict_covariance(arg) ==
    [r \in Tangent |-> [c \in Tangent |->
        CASE r > c        -> 0
          [] r <= c /\ c < 3       -> AttitudeColumn(arg, r, c)
          [] r <= c /\ c \in 3 .. 5 -> VelocityColumn(arg, r, c - 3)
          [] r <= c /\ c \in 6 .. 8 -> PositionColumn(arg, r, c - 6)
          [] r <= c /\ c > 8       -> BiasColumn(arg, r, c)]]

(***************************************************************************)
(* compute_*_innov_var_and_h                                               *)
(***************************************************************************)

\* A row of H that is k at index i and zero elsewhere.
Single(i, k) == [j \in Tangent |-> IF j = i THEN k % Prime ELSE 0]

\* Mutant: the position's numbers are taken one too early, where they would
\* be if the quaternion had three.
generated_gps_pos_Early(arg) ==
    [innov     |-> [c \in Axes |-> (arg.state[6 + c] - arg.meas[c]) % Prime],
     innov_var |-> [c \in Axes |-> (arg.P[6 + c][6 + c] + arg.R) % Prime],
     H         |-> [c \in Axes |-> Single(6 + c, 1)]]

generated_gps_pos(arg) ==
    [innov     |-> [c \in Axes |-> (arg.state[7 + c] - arg.meas[c]) % Prime],
     innov_var |-> [c \in Axes |-> (arg.P[6 + c][6 + c] + arg.R) % Prime],
     H         |-> [c \in Axes |-> Single(6 + c, 1)]]

generated_gps_vel(arg) ==
    [innov     |-> [c \in Axes |-> (arg.state[4 + c] - arg.meas[c]) % Prime],
     innov_var |-> [c \in Axes |-> (arg.P[3 + c][3 + c] + arg.R) % Prime],
     H         |-> [c \in Axes |-> Single(3 + c, 1)]]

\* Mutant: the height's Jacobian has the sign of z.
generated_baro_Sign(arg) ==
    [innov     |-> [c \in {0} |-> (-arg.meas[0] - arg.state[9]) % Prime],
     innov_var |-> [c \in {0} |-> (arg.P[8][8] + arg.R) % Prime],
     H         |-> [c \in {0} |-> Single(8, 1)]]

generated_baro(arg) ==
    [innov     |-> [c \in {0} |-> (-arg.meas[0] - arg.state[9]) % Prime],
     innov_var |-> [c \in {0} |-> (arg.P[8][8] + arg.R) % Prime],
     H         |-> [c \in {0} |-> Single(8, -1)]]

generated_lidar(arg) ==
    [innov     |-> [c \in {0} |-> (-arg.meas[0] - arg.state[9]) % Prime],
     innov_var |-> [c \in {0} |-> (arg.P[8][8] + arg.R) % Prime],
     H         |-> [c \in {0} |-> Single(8, -1)]]

\* The derivatives of component c of the field in the body frame along the
\* numbers w, x, y, z of the quaternion: for component 0, twice _tmp25,
\* _tmp28, _tmp16 and _tmp21.
FieldDerivative(s, m, c) ==
    CASE c = 0 -> [w |-> 2 * (m[1] * s[3] - m[2] * s[2]),
                   x |-> 2 * (m[2] * s[3] + m[1] * s[2]),
                   y |-> 2 * (m[1] * s[1] - m[2] * s[0]) - 4 * m[0] * s[2],
                   z |-> 2 * (m[2] * s[1] + m[1] * s[0]) - 4 * m[0] * s[3]]
      [] c = 1 -> [w |-> 2 * (m[2] * s[1] - m[0] * s[3]),
                   x |-> 2 * (m[2] * s[0] + m[0] * s[2]) - 4 * m[1] * s[1],
                   y |-> 2 * (m[2] * s[3] + m[0] * s[1]),
                   z |-> 2 * (m[2] * s[2] - m[0] * s[0]) - 4 * m[1] * s[3]]
      [] c = 2 -> [w |-> 2 * (m[0] * s[2] - m[1] * s[1]),
                   x |-> 2 * (m[0] * s[3] - m[1] * s[0]) - 4 * m[2] * s[1],
                   y |-> 2 * (m[1] * s[3] + m[0] * s[0]) - 4 * m[2] * s[2],
                   z |-> 2 * (m[1] * s[2] + m[0] * s[1])]

\* _tmp32, 33 and 30; _tmp45, 47 and 48; _tmp58, 55 and 57.
FieldTurn(s, m, c) ==
    LET D  == FieldDerivative(s, m, c)
        dw == D.w % Prime
        dx == D.x % Prime
        dy == D.y % Prime
        dz == D.z % Prime
    IN  V3(Halved((s[0] * dx - s[1] * dw + s[2] * dz - s[3] * dy) % Prime),
           Halved((s[0] * dy - s[2] * dw + s[3] * dx - s[1] * dz) % Prime),
           Halved((s[0] * dz - s[3] * dw + s[1] * dy - s[2] * dx) % Prime))

generated_mag(arg) ==
    LET s == arg.state
        m == arg.mag_ref
        T(c) == FieldTurn(s, m, c)
        TP(c, l) == SumOfThree([k \in Axes |-> (T(c)[k] * arg.P[k][l]) % Prime])
    IN  [innov |-> [c \in Axes |->
            (SumOfThree([k \in Axes |-> (UnitRotation(s, k, c) * m[k]) % Prime]) - arg.meas[c])
            % Prime],
         innov_var |-> [c \in Axes |->
            (SumOfThree([l \in Axes |-> (TP(c, l) * T(c)[l]) % Prime]) + arg.R) % Prime],
         H |-> [c \in Axes |-> [j \in Tangent |-> IF j < 3 THEN T(c)[j] ELSE 0]]]

generated_innov_var_and_h(sensor, arg) ==
    CASE sensor = "gps_pos" -> generated_gps_pos(arg)
      [] sensor = "gps_vel" -> generated_gps_vel(arg)
      [] sensor = "mag"     -> generated_mag(arg)
      [] sensor = "baro"    -> generated_baro(arg)
      [] sensor = "lidar"   -> generated_lidar(arg)
=============================================================================
