----------------------------- MODULE EkfState -----------------------------
(***************************************************************************)
(* The layout of the EKF's state: the order in which its members lie in    *)
(* the flat state vector (16 numbers, the quaternion has four) and in the  *)
(* error state (15 numbers, a rotation error has three), and the           *)
(* conversions between the vector and the members, one in each direction.  *)
(***************************************************************************)
EXTENDS Integers, Sequences

State == <<"quat_nominal", "vel", "pos", "gyro_bias", "accel_bias">>
Keys  == {State[n] : n \in 1 .. Len(State)}

storage_dim(key) == IF key = "quat_nominal" THEN 4 ELSE 3
tangent_dim(key) == 3

\* Where the n-th member starts; the entry after the last is the dimension.
StorageStart[n \in 1 .. Len(State) + 1] ==
    IF n = 1 THEN 0 ELSE StorageStart[n - 1] + storage_dim(State[n - 1])

TangentStart[n \in 1 .. Len(State) + 1] ==
    IF n = 1 THEN 0 ELSE TangentStart[n - 1] + tangent_dim(State[n - 1])

STATE_DIM   == StorageStart[Len(State) + 1]
TANGENT_DIM == TangentStart[Len(State) + 1]

Position(key) == CHOOSE n \in 1 .. Len(State) : State[n] = key
offset(key)   == StorageStart[Position(key)]

BuildTangentStateIndex ==
    [key \in Keys |-> [idx |-> TangentStart[Position(key)], dof |-> tangent_dim(key)]]

\* The member that owns index i of a vector laid out by start.
OwnerOf(start, i) ==
    State[CHOOSE n \in 1 .. Len(State) : start[n] <= i /\ i < start[n + 1]]

(***************************************************************************)
(* A member of a state is a quaternion, a record of w, x, y, z, or three   *)
(* numbers, indexed from 0 as in the code.                                 *)
(***************************************************************************)

\* The method Data() of the generated struct StateSample writes the
\* quaternion as x, y, z, w.
Data(sample) ==
    [i \in 0 .. STATE_DIM - 1 |->
        LET key == OwnerOf(StorageStart, i)
            j   == i - offset(key)
        IN  IF key = "quat_nominal"
              THEN LET q == sample[key] IN <<q.x, q.y, q.z, q.w>>[j + 1]
              ELSE sample[key][j]]

\* The functions of the filter read it as w, x, y, z.
vstate_to_state(v) ==
    [key \in Keys |->
        IF key = "quat_nominal"
          THEN [w |-> v[0], x |-> v[1], y |-> v[2], z |-> v[3]]
          ELSE [j \in 0 .. 2 |-> v[offset(key) + j]]]
=============================================================================
