-------------------------- MODULE HilSensorStream --------------------------
(***************************************************************************)
(* What the autopilot may rely on when it reads HIL_SENSOR messages: there *)
(* is one for every sample of the IMU, in order, and it carries the        *)
(* newest sample of the magnetometer, whole, and of the barometer at one   *)
(* moment.  Samples are numbered; 0 stands for the simulated field and the *)
(* pressure at sea level, before there is any.                             *)
(***************************************************************************)
EXTENDS Integers

VARIABLES
    mag, baro,    \* newest samples of the slower sensors
    frame         \* the HIL_SENSOR sent last

vars == <<mag, baro, frame>>

Init ==
    /\ mag = 0 /\ baro = 0
    /\ frame = [imu |-> 0, mag |-> [axis \in 1 .. 3 |-> 0], baro |-> 0]

NewMag  == mag' = mag + 1 /\ UNCHANGED <<baro, frame>>
NewBaro == baro' = baro + 1 /\ UNCHANGED <<mag, frame>>

Tick ==
    /\ frame' = [imu |-> frame.imu + 1, mag |-> [axis \in 1 .. 3 |-> mag], baro |-> baro]
    /\ UNCHANGED <<mag, baro>>

Next == NewMag \/ NewBaro \/ Tick

Spec == Init /\ [][Next]_vars
=============================================================================
