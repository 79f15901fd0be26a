---------------------------- MODULE EkfFunctions ----------------------------
(***************************************************************************)
(* The generated functions of the EKF beside the derivation they come      *)
(* from.  ekf_derivation.py linearises the kinematics once, before it      *)
(* generates any function; a function then evaluates arguments that the    *)
(* generator never saw.  Here the two meet: each of the six functions is   *)
(* called on an argument, and the result is compared with the derivation   *)
(* evaluated on the same argument.                                         *)
(***************************************************************************)
EXTENDS EkfGenerated

CONSTANT EkfArguments    \* the arguments the functions are called with

\* The functions refuse arguments of another shape.
ASSUME EkfArgumentsAssumption ==
    \A arg \in EkfArguments :
        /\ arg.state \in [Storage -> Scalar]
        /\ arg.P \in [Tangent -> [Tangent -> Scalar]]
        /\ arg.accel \in [Axes -> Scalar] /\ arg.accel_var \in [Axes -> Scalar]
        /\ arg.gyro \in [Axes -> Scalar] /\ arg.gyro_var \in Scalar
        /\ arg.meas \in [Axes -> Scalar] /\ arg.mag_ref \in [Axes -> Scalar]
        /\ arg.dt \in Scalar /\ arg.R \in Scalar

VARIABLES ekf_arg,        \* the argument of the calls
          ekf_jacobians,  \* A and G at this argument, once derived
          ekf_called,     \* the last step: "start", "derive", or the function called
          ekf_result      \* what it returned

ekfVars == <<ekf_arg, ekf_jacobians, ekf_called, ekf_result>>

EkfInit ==
    /\ ekf_arg \in EkfArguments
    /\ ekf_called = "start"
    /\ ekf_jacobians = << >>
    /\ ekf_result = << >>

\* The derivation's A and G.
Derive ==
    /\ ekf_called = "start"
    /\ ekf_called' = "derive"
    /\ ekf_jacobians' = Linearise(ekf_arg)
    /\ UNCHANGED <<ekf_arg, ekf_result>>

CallPredictCovariance ==
    /\ ekf_called # "start"
    /\ ekf_called' = "predict_covariance"
    /\ ekf_result' = generated_predict_covariance(ekf_arg)
    /\ UNCHANGED <<ekf_arg, ekf_jacobians>>

CallInnovVarAndH(sensor) ==
    /\ ekf_called # "start"
    /\ ekf_called' = sensor
    /\ ekf_result' = generated_innov_var_and_h(sensor, ekf_arg)
    /\ UNCHANGED <<ekf_arg, ekf_jacobians>>

EkfNext ==
    \/ Derive
    \/ CallPredictCovariance
    \/ \E sensor \in Sensors : CallInnovVarAndH(sensor)

EkfSpec == EkfInit /\ [][EkfNext]_ekfVars

-----------------------------------------------------------------------------
\* The 144 common subexpressions and 120 entries of the generated
\* predict_covariance (generated/predict_covariance.py) are the upper triangle
\* of A P A^T + G V G^T for the Jacobians of the error kinematics, whatever
\* the state, the covariance (symmetric or not) and the inputs: no sign, index
\* or factor was lost on the way through symforce.
PredictionIsLinearised ==
    ekf_called = "predict_covariance" =>
        ekf_result = predict_covariance(ekf_arg, ekf_jacobians)

\* What each generated compute_*_innov_var_and_h returns is the innovation,
\* its variance and the Jacobian of the measurement model of that sensor.
MeasurementsAreDerived ==
    ekf_called \in Sensors =>
        ekf_result = compute_innov_var_and_h(ekf_called, ekf_arg)

\* The measurement update and the prediction mean the same error: the H that a
\* measurement function returns, found through the 16 numbers of the state and
\* the matrix of jacobian_chain_rule (ekf_derivation.py:185), is the derivative
\* of the measurement along the error that predict_covariance defines
\* (ekf_derivation.py:111-117), for every one of the 15 errors.
OneErrorState ==
    ekf_called \in Sensors =>
        \A c \in Components(ekf_called), j \in Tangent :
            ekf_result.H[c][j] =
                Derivative(MeasPred(ekf_called, ekf_arg,
                    TrueState(Nominal(ekf_arg), ErrorOf(Along(j, Tangent))))[c])

\* What the comments say of the layout: the struct mirrors the state
\* (code_generation.py:75), and a function that is called with the vector its
\* Data() returns, in the order w, x, y, z (ekf_derivation.py:69-70), sees the
\* state that the struct holds.
FunctionsReadWhatDataWrites ==
    ekf_called \in Sensors \cup {"predict_covariance"} =>
        LET sample == vstate_to_state(ekf_arg.state)
        IN  vstate_to_state(Data(sample)) = sample
=============================================================================
