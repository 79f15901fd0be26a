---------------------------- MODULE ScriptProofs ----------------------------
(***************************************************************************)
(* Theorems about the Python programs under scripts/: the Gazebo bridge,   *)
(* for every number of motors, of messages and of scans, the generator of  *)
(* the parameters, for every set of modules, whatever they are called, and *)
(* the generator of the topics, for every set of .topic files; each for    *)
(* any number of edits, runs and interruptions.                            *)
(***************************************************************************)
EXTENDS GazeboBridge, ParamGenerator, TopicGenerator, FiniteSetTheorems, TLAPS


(***************************************************************************)
(* simulation/gazebo/infinity_gazebo_bridge.py                             *)
(***************************************************************************)
\* Before the autopilot's address is known the constructor waits, and nothing
\* else has begun.
Addressed ==
    /\ unaddressed = FALSE
    /\ ~peer => main = "connect" /\ subscribed = 0 /\ cb = "idle" /\ rx = "none"

\* No message was handled after Ctrl-C as long as the receiver may still
\* handle one.
Stopping ==
    /\ after_stop \in 0 .. 1
    /\ _running \/ rx \in {"recv", "handle"} => after_stop = 0

\* How far _send_hil_sensor has got.  The samples it has read are still the
\* newest, for no callback runs beside it.
Sending ==
    /\ cb = "idle" => _imu = frame.imu
    /\ cb # "idle" => _imu = frame.imu + 1
    /\ cb \in {"mag y", "mag z", "baro", "send"} => field[1] = _mag
    /\ cb \in {"mag z", "baro", "send"} => field[2] = _mag
    /\ cb \in {"baro", "send"} => field[3] = _mag
    /\ cb = "send" => pressure = _baro

-----------------------------------------------------------------------------
\* A control is clamped, NaN included.
LEMMA NormRange ==
    ASSUME NEW control \in Int \cup {NaN}
    PROVE  Norm(control) \in 0 .. FULL
<1>1. FULL \in Int /\ FULL >= 0 /\ FULL # NaN /\ NaN \notin Int
  BY MotorAssumption, ControlAssumption
<1>2. CASE control = NaN
  <2>1. py_min(FULL, control) = FULL
    BY <1>2 DEF py_min, Less
  <2> QED
    BY <1>1, <2>1 DEF Norm, py_max, Less
<1>3. CASE control \in Int
  <2>1. control # NaN
    BY <1>1, <1>3
  <2>2. py_min(FULL, control) = IF control < FULL THEN control ELSE FULL
    BY <1>1, <2>1 DEF py_min, Less
  <2>3. py_min(FULL, control) \in Int /\ py_min(FULL, control) <= FULL
    BY <1>1, <1>3, <2>2
  <2>4. py_min(FULL, control) # NaN /\ 0 # NaN
    BY <1>1, <2>3
  <2>5. Norm(control) = IF 0 < py_min(FULL, control) THEN py_min(FULL, control) ELSE 0
    BY <2>4 DEF Norm, py_max, Less
  <2> QED
    BY <1>1, <2>3, <2>5
<1> QED
  BY <1>2, <1>3

\* A command is neither of the other messages.
LEMMA MessageKinds ==
    ASSUME NEW m \in Messages
    PROVE  /\ m # Other => m \in {Heartbeat} \cup Commands
           /\ m \in Commands => \A i \in Motors : m.controls[i] \in Int \cup {NaN}
  BY ControlAssumption DEF Commands, Messages

\* Reading one component of the field.
LEMMA ReadComponent ==
    ASSUME field \in Fields, _mag \in Nat
    PROVE  /\ field' = [field EXCEPT ![1] = _mag] =>
                field' \in Fields /\ field'[1] = _mag /\ field'[2] = field[2] /\ field'[3] = field[3]
           /\ field' = [field EXCEPT ![2] = _mag] =>
                field' \in Fields /\ field'[2] = _mag /\ field'[1] = field[1] /\ field'[3] = field[3]
           /\ field' = [field EXCEPT ![3] = _mag] =>
                field' \in Fields /\ field'[3] = _mag /\ field'[1] = field[1] /\ field'[2] = field[2]
  BY DEF Fields

\* What is left of the socket's buffer, and what is taken from it.
LEMMA ReceivesType ==
    ASSUME TypeOK, Receives
    PROVE  /\ inbox' \in Seq(Messages) /\ Len(inbox') <= MaxInbox
           /\ Head(inbox) \in Messages
           /\ peer' = TRUE
<1>1. inbox \in Seq(Messages) /\ inbox # << >> /\ inbox' = Tail(inbox) /\ Len(inbox) <= MaxInbox
  BY DEF TypeOK, Receives
<1>2. MaxInbox \in Int
  BY BoundAssumption
<1>3. Tail(inbox) \in Seq(Messages) /\ Head(inbox) \in Messages
  BY <1>1
<1>4. Len(Tail(inbox)) = Len(inbox) - 1 /\ Len(inbox) \in Int
  BY <1>1
<1> QED
  BY <1>1, <1>2, <1>3, <1>4 DEF Receives

\* A message that arrives keeps the types.
LEMMA ArriveType ==
    ASSUME TypeOK, NEW m \in Messages, Arrive(m)
    PROVE  inbox' \in Seq(Messages) /\ Len(inbox') <= MaxInbox
<1>1. inbox \in Seq(Messages) /\ inbox' = Append(inbox, m) /\ Len(inbox) < MaxInbox
  BY DEF TypeOK, Arrive
<1>2. MaxInbox \in Int /\ m \in Messages
  BY BoundAssumption
<1>3. Append(inbox, m) \in Seq(Messages) /\ Len(Append(inbox, m)) = Len(inbox) + 1 /\ Len(inbox) \in Int
  BY <1>1, <1>2
<1> QED
  BY <1>1, <1>2, <1>3

-----------------------------------------------------------------------------
\* The types.
LEMMA TypeNext == TypeOK /\ [Next]_vars => TypeOK'
<1> SUFFICES ASSUME TypeOK, [Next]_vars PROVE TypeOK'
  OBVIOUS
<1> USE DEF mainVars, linkVars, rxVars, hilVars, gzVars
<1>1. CASE WaitHeartbeat
  <2>1. Receives
    BY <1>1 DEF WaitHeartbeat
  <2> QED
    BY <1>1, <2>1, ReceivesType DEF WaitHeartbeat, TypeOK
<1>2. CASE Subscribe
  <2>1. subscribed \in 0 .. Len(GZ_TOPICS)
    BY DEF TypeOK
  <2>2. subscribed < Len(GZ_TOPICS) /\ subscribed' = subscribed + 1
    BY <1>2 DEF Subscribe
  <2>3. Len(GZ_TOPICS) \in Nat
    BY DEF GZ_TOPICS
  <2>4. subscribed' \in 0 .. Len(GZ_TOPICS)
    BY <2>1, <2>2, <2>3
  <2> QED
    BY <1>2, <2>4, Zenon DEF Subscribe, TypeOK
<1>3. CASE StartReceiver
  BY <1>3 DEF StartReceiver, TypeOK
<1>4. CASE Interrupted
  BY <1>4 DEF Interrupted, TypeOK
<1>5. CASE ProcessEnds
  BY <1>5 DEF ProcessEnds, TypeOK
<1>6. CASE RxLoop
  BY <1>6 DEF RxLoop, TypeOK
<1>7. CASE RxReceives
  <2>1. Receives
    BY <1>7 DEF RxReceives
  <2>2. Head(inbox) \in Messages
    BY <2>1, ReceivesType
  <2>3. Head(inbox) # Other => Head(inbox) \in {Heartbeat} \cup Commands
    BY <2>2, MessageKinds
  <2> QED
    BY <1>7, <2>1, <2>3, ReceivesType DEF RxReceives, TypeOK
<1>8. CASE RxTimesOut
  BY <1>8 DEF RxTimesOut, TypeOK
<1>9. CASE RxCommand
  <2>1. after_stop \in Nat
    BY DEF TypeOK
  <2>2. rx' # "handle" /\ (after_stop' = after_stop \/ after_stop' = after_stop + 1)
    BY <1>9 DEF RxCommand
  <2>3. after_stop' \in Nat
    BY <2>1, <2>2
  <2> QED
    BY <1>9, <2>2, <2>3, Zenon DEF RxCommand, TypeOK
<1>10. CASE RxHeartbeat
  <2>1. after_stop \in Nat
    BY DEF TypeOK
  <2>2. rx' # "handle" /\ (after_stop' = after_stop \/ after_stop' = after_stop + 1)
    BY <1>10 DEF RxHeartbeat
  <2>3. after_stop' \in Nat
    BY <2>1, <2>2
  <2> QED
    BY <1>10, <2>2, <2>3, Zenon DEF RxHeartbeat, TypeOK
<1>11. CASE ReadMagX
  <2>1. field' = [field EXCEPT ![1] = _mag]
    BY <1>11 DEF ReadMagX, ReadMag
  <2>2. field' \in Fields
    BY <2>1, ReadComponent DEF TypeOK
  <2> QED
    BY <1>11, <2>2 DEF ReadMagX, ReadMag, TypeOK
<1>12. CASE ReadMagY
  <2>1. field' = [field EXCEPT ![2] = _mag]
    BY <1>12 DEF ReadMagY, ReadMag
  <2>2. field' \in Fields
    BY <2>1, ReadComponent DEF TypeOK
  <2> QED
    BY <1>12, <2>2 DEF ReadMagY, ReadMag, TypeOK
<1>13. CASE ReadMagZ
  <2>1. field' = [field EXCEPT ![3] = _mag]
    BY <1>13 DEF ReadMagZ, ReadMag
  <2>2. field' \in Fields
    BY <2>1, ReadComponent DEF TypeOK
  <2> QED
    BY <1>13, <2>2 DEF ReadMagZ, ReadMag, TypeOK
<1>14. CASE NoMag
  BY <1>14 DEF NoMag, Field, Fields, TypeOK
<1>15. CASE ReadBaro
  BY <1>15 DEF ReadBaro, TypeOK
<1>16. CASE SendHilSensor
  BY <1>16 DEF SendHilSensor, Sends, Frames, TypeOK
<1>17. CASE OnImu
  BY <1>17 DEF OnImu, Delivers, TypeOK
<1>18. CASE OnBaro
  BY <1>18 DEF OnBaro, Delivers, TypeOK
<1>19. CASE OnMag
  BY <1>19 DEF OnMag, Delivers, TypeOK
<1>20. CASE OnGps
  BY <1>20 DEF OnGps, Delivers, Sends, TypeOK
<1>21. ASSUME NEW ranges \in LaserScans, NEW time \in EpochTimes, OnLidar(ranges, time)
      PROVE  TypeOK'
  BY <1>21 DEF OnLidar, Delivers, Sends, TypeOK
<1>22. ASSUME NEW m \in Messages, Arrive(m) PROVE TypeOK'
  <2>1. inbox' \in Seq(Messages) /\ Len(inbox') <= MaxInbox
    BY <1>22, ArriveType
  <2> QED
    BY <1>22, <2>1 DEF Arrive, TypeOK
<1>23. CASE UNCHANGED vars
  <2>1. /\ alive' = alive /\ _running' = _running /\ main' = main /\ subscribed' = subscribed
        /\ peer' = peer /\ inbox' = inbox /\ rx' = rx /\ rx_msg' = rx_msg
        /\ cb' = cb /\ _imu' = _imu /\ _mag' = _mag /\ _baro' = _baro
        /\ field' = field /\ pressure' = pressure /\ frame' = frame
        /\ after_stop' = after_stop
    BY <1>23 DEF vars
  <2> QED
    BY <2>1, Zenon DEF TypeOK
<1> QED
  BY <1>1, <1>2, <1>3, <1>4, <1>5, <1>6, <1>7, <1>8, <1>9, <1>10, <1>11, <1>12, <1>13, <1>14, <1>15, <1>16, <1>17, <1>18, <1>19, <1>20, <1>21, <1>22, <1>23
     DEF Next, Main, Receiver, Sender, Callback

\* The address is known before anything is sent: the constructor waits for it.
LEMMA AddressedNext == TypeOK /\ Addressed /\ [Next]_vars => Addressed'
<1> SUFFICES ASSUME TypeOK /\ Addressed, [Next]_vars PROVE Addressed'
  OBVIOUS
<1> USE DEF Addressed, mainVars, linkVars, rxVars, hilVars, gzVars
<1>1. CASE WaitHeartbeat
  BY <1>1 DEF WaitHeartbeat, Receives
<1>2. CASE Subscribe
  BY <1>2 DEF Subscribe
<1>3. CASE StartReceiver
  BY <1>3 DEF StartReceiver
<1>4. CASE Interrupted
  BY <1>4 DEF Interrupted
<1>5. CASE ProcessEnds
  BY <1>5 DEF ProcessEnds
<1>6. CASE RxLoop
  BY <1>6 DEF RxLoop
<1>7. CASE RxReceives
  BY <1>7 DEF RxReceives, Receives
<1>8. CASE RxTimesOut
  BY <1>8 DEF RxTimesOut
<1>9. CASE RxCommand
  BY <1>9 DEF RxCommand
<1>10. CASE RxHeartbeat
  BY <1>10 DEF RxHeartbeat, Sends
<1>11. CASE ReadMagX
  BY <1>11 DEF ReadMagX, ReadMag
<1>12. CASE ReadMagY
  BY <1>12 DEF ReadMagY, ReadMag
<1>13. CASE ReadMagZ
  BY <1>13 DEF ReadMagZ, ReadMag
<1>14. CASE NoMag
  BY <1>14 DEF NoMag, Field
<1>15. CASE ReadBaro
  BY <1>15 DEF ReadBaro
<1>16. CASE SendHilSensor
  BY <1>16 DEF SendHilSensor, Sends
<1>17. CASE OnImu
  <2>1. subscribed # 0
    BY <1>17 DEF OnImu, Delivers, TypeOK
  <2> QED
    BY <1>17, <2>1 DEF OnImu, Delivers
<1>18. CASE OnBaro
  BY <1>18 DEF OnBaro, Delivers
<1>19. CASE OnMag
  BY <1>19 DEF OnMag, Delivers
<1>20. CASE OnGps
  <2>1. subscribed # 0
    BY <1>20 DEF OnGps, Delivers, TypeOK
  <2> QED
    BY <1>20, <2>1 DEF OnGps, Delivers, Sends
<1>21. ASSUME NEW ranges \in LaserScans, NEW time \in EpochTimes, OnLidar(ranges, time)
      PROVE  Addressed'
  <2>1. subscribed # 0
    BY <1>21 DEF OnLidar, Delivers, TypeOK
  <2> QED
    BY <1>21, <2>1 DEF OnLidar, Delivers, Sends
<1>22. ASSUME NEW m \in Messages, Arrive(m) PROVE Addressed'
  BY <1>22 DEF Arrive
<1>23. CASE UNCHANGED vars
  BY <1>23 DEF vars
<1> QED
  BY <1>1, <1>2, <1>3, <1>4, <1>5, <1>6, <1>7, <1>8, <1>9, <1>10, <1>11, <1>12, <1>13, <1>14, <1>15, <1>16, <1>17, <1>18, <1>19, <1>20, <1>21, <1>22, <1>23
     DEF Next, Main, Receiver, Sender, Callback

\* The receiver tests the flag between two messages.
LEMMA StoppingNext == TypeOK /\ Stopping /\ [Next]_vars => Stopping'
<1> SUFFICES ASSUME TypeOK /\ Stopping, [Next]_vars PROVE Stopping'
  OBVIOUS
<1> USE DEF Stopping, mainVars, linkVars, rxVars, hilVars, gzVars
<1>1. CASE WaitHeartbeat
  BY <1>1 DEF WaitHeartbeat, Receives
<1>2. CASE Subscribe
  BY <1>2 DEF Subscribe
<1>3. CASE StartReceiver
  BY <1>3 DEF StartReceiver
<1>4. CASE Interrupted
  BY <1>4 DEF Interrupted
<1>5. CASE ProcessEnds
  BY <1>5 DEF ProcessEnds
<1>6. CASE RxLoop
  BY <1>6 DEF RxLoop
<1>7. CASE RxReceives
  BY <1>7 DEF RxReceives, Receives
<1>8. CASE RxTimesOut
  BY <1>8 DEF RxTimesOut
<1>9. CASE RxCommand
  BY <1>9 DEF RxCommand
<1>10. CASE RxHeartbeat
  BY <1>10 DEF RxHeartbeat, Sends
<1>11. CASE ReadMagX
  BY <1>11 DEF ReadMagX, ReadMag
<1>12. CASE ReadMagY
  BY <1>12 DEF ReadMagY, ReadMag
<1>13. CASE ReadMagZ
  BY <1>13 DEF ReadMagZ, ReadMag
<1>14. CASE NoMag
  BY <1>14 DEF NoMag, Field
<1>15. CASE ReadBaro
  BY <1>15 DEF ReadBaro
<1>16. CASE SendHilSensor
  BY <1>16 DEF SendHilSensor, Sends
<1>17. CASE OnImu
  BY <1>17 DEF OnImu, Delivers
<1>18. CASE OnBaro
  BY <1>18 DEF OnBaro, Delivers
<1>19. CASE OnMag
  BY <1>19 DEF OnMag, Delivers
<1>20. CASE OnGps
  BY <1>20 DEF OnGps, Delivers, Sends
<1>21. ASSUME NEW ranges \in LaserScans, NEW time \in EpochTimes, OnLidar(ranges, time)
      PROVE  Stopping'
  BY <1>21 DEF OnLidar, Delivers, Sends
<1>22. ASSUME NEW m \in Messages, Arrive(m) PROVE Stopping'
  BY <1>22 DEF Arrive
<1>23. CASE UNCHANGED vars
  BY <1>23 DEF vars
<1> QED
  BY <1>1, <1>2, <1>3, <1>4, <1>5, <1>6, <1>7, <1>8, <1>9, <1>10, <1>11, <1>12, <1>13, <1>14, <1>15, <1>16, <1>17, <1>18, <1>19, <1>20, <1>21, <1>22, <1>23
     DEF Next, Main, Receiver, Sender, Callback

\* A callback reads the caches while no other callback changes them.
LEMMA SendingNext == TypeOK /\ Sending /\ [Next]_vars => Sending'
<1> SUFFICES ASSUME TypeOK /\ Sending, [Next]_vars PROVE Sending'
  OBVIOUS
<1> USE DEF Sending, mainVars, linkVars, rxVars, hilVars, gzVars
<1>1. CASE WaitHeartbeat
  BY <1>1 DEF WaitHeartbeat, Receives
<1>2. CASE Subscribe
  BY <1>2 DEF Subscribe
<1>3. CASE StartReceiver
  BY <1>3 DEF StartReceiver
<1>4. CASE Interrupted
  BY <1>4 DEF Interrupted
<1>5. CASE ProcessEnds
  BY <1>5 DEF ProcessEnds
<1>6. CASE RxLoop
  BY <1>6 DEF RxLoop
<1>7. CASE RxReceives
  BY <1>7 DEF RxReceives, Receives
<1>8. CASE RxTimesOut
  BY <1>8 DEF RxTimesOut
<1>9. CASE RxCommand
  BY <1>9 DEF RxCommand
<1>10. CASE RxHeartbeat
  BY <1>10 DEF RxHeartbeat, Sends
<1>11. CASE ReadMagX
  <2>1. field' = [field EXCEPT ![1] = _mag]
    BY <1>11 DEF ReadMagX, ReadMag
  <2>2. field \in Fields /\ _mag \in Nat
    BY DEF TypeOK
  <2>3. field'[1] = _mag /\ field'[2] = field[2] /\ field'[3] = field[3]
    BY <2>1, <2>2, ReadComponent
  <2> QED
    BY <1>11, <2>3 DEF ReadMagX, ReadMag
<1>12. CASE ReadMagY
  <2>1. field' = [field EXCEPT ![2] = _mag]
    BY <1>12 DEF ReadMagY, ReadMag
  <2>2. field \in Fields /\ _mag \in Nat
    BY DEF TypeOK
  <2>3. field'[2] = _mag /\ field'[1] = field[1] /\ field'[3] = field[3]
    BY <2>1, <2>2, ReadComponent
  <2> QED
    BY <1>12, <2>3 DEF ReadMagY, ReadMag
<1>13. CASE ReadMagZ
  <2>1. field' = [field EXCEPT ![3] = _mag]
    BY <1>13 DEF ReadMagZ, ReadMag
  <2>2. field \in Fields /\ _mag \in Nat
    BY DEF TypeOK
  <2>3. field'[3] = _mag /\ field'[1] = field[1] /\ field'[2] = field[2]
    BY <2>1, <2>2, ReadComponent
  <2> QED
    BY <1>13, <2>3 DEF ReadMagZ, ReadMag
<1>14. CASE NoMag
  BY <1>14 DEF NoMag, Field
<1>15. CASE ReadBaro
  BY <1>15 DEF ReadBaro
<1>16. CASE SendHilSensor
  BY <1>16 DEF SendHilSensor, Sends
<1>17. CASE OnImu
  BY <1>17 DEF OnImu, Delivers
<1>18. CASE OnBaro
  BY <1>18 DEF OnBaro, Delivers
<1>19. CASE OnMag
  BY <1>19 DEF OnMag, Delivers
<1>20. CASE OnGps
  BY <1>20 DEF OnGps, Delivers, Sends
<1>21. ASSUME NEW ranges \in LaserScans, NEW time \in EpochTimes, OnLidar(ranges, time)
      PROVE  Sending'
  BY <1>21 DEF OnLidar, Delivers, Sends
<1>22. ASSUME NEW m \in Messages, Arrive(m) PROVE Sending'
  BY <1>22 DEF Arrive
<1>23. CASE UNCHANGED vars
  BY <1>23 DEF vars
<1> QED
  BY <1>1, <1>2, <1>3, <1>4, <1>5, <1>6, <1>7, <1>8, <1>9, <1>10, <1>11, <1>12, <1>13, <1>14, <1>15, <1>16, <1>17, <1>18, <1>19, <1>20, <1>21, <1>22, <1>23
     DEF Next, Main, Receiver, Sender, Callback

\* Every published speed is a clamped control.
LEMMA MotorsNext == TypeOK /\ MotorsWithinLimits /\ [Next]_vars => MotorsWithinLimits'
<1> SUFFICES ASSUME TypeOK /\ MotorsWithinLimits, [Next]_vars PROVE MotorsWithinLimits'
  OBVIOUS
<1> USE DEF MotorsWithinLimits, mainVars, linkVars, rxVars, hilVars, gzVars
<1>1. CASE WaitHeartbeat
  BY <1>1 DEF WaitHeartbeat, Receives
<1>2. CASE Subscribe
  BY <1>2 DEF Subscribe
<1>3. CASE StartReceiver
  BY <1>3 DEF StartReceiver
<1>4. CASE Interrupted
  BY <1>4 DEF Interrupted
<1>5. CASE ProcessEnds
  BY <1>5 DEF ProcessEnds
<1>6. CASE RxLoop
  BY <1>6 DEF RxLoop
<1>7. CASE RxReceives
  BY <1>7 DEF RxReceives, Receives
<1>8. CASE RxTimesOut
  BY <1>8 DEF RxTimesOut
<1>9. CASE RxCommand
  <2>1. rx_msg \in Commands
    BY <1>9 DEF RxCommand, TypeOK
  <2>2. \A i \in Motors : rx_msg.controls[i] \in Int \cup {NaN}
    BY <2>1, MessageKinds DEF Messages
  <2>3. \A i \in Motors : Norm(rx_msg.controls[i]) \in 0 .. FULL
    BY <2>2, NormRange
  <2> QED
    BY <1>9, <2>3 DEF RxCommand
<1>10. CASE RxHeartbeat
  BY <1>10 DEF RxHeartbeat, Sends
<1>11. CASE ReadMagX
  BY <1>11 DEF ReadMagX, ReadMag
<1>12. CASE ReadMagY
  BY <1>12 DEF ReadMagY, ReadMag
<1>13. CASE ReadMagZ
  BY <1>13 DEF ReadMagZ, ReadMag
<1>14. CASE NoMag
  BY <1>14 DEF NoMag, Field
<1>15. CASE ReadBaro
  BY <1>15 DEF ReadBaro
<1>16. CASE SendHilSensor
  BY <1>16 DEF SendHilSensor, Sends
<1>17. CASE OnImu
  BY <1>17 DEF OnImu, Delivers
<1>18. CASE OnBaro
  BY <1>18 DEF OnBaro, Delivers
<1>19. CASE OnMag
  BY <1>19 DEF OnMag, Delivers
<1>20. CASE OnGps
  BY <1>20 DEF OnGps, Delivers, Sends
<1>21. ASSUME NEW ranges \in LaserScans, NEW time \in EpochTimes, OnLidar(ranges, time)
      PROVE  MotorsWithinLimits'
  BY <1>21 DEF OnLidar, Delivers, Sends
<1>22. ASSUME NEW m \in Messages, Arrive(m) PROVE MotorsWithinLimits'
  BY <1>22 DEF Arrive
<1>23. CASE UNCHANGED vars
  BY <1>23 DEF vars
<1> QED
  BY <1>1, <1>2, <1>3, <1>4, <1>5, <1>6, <1>7, <1>8, <1>9, <1>10, <1>11, <1>12, <1>13, <1>14, <1>15, <1>16, <1>17, <1>18, <1>19, <1>20, <1>21, <1>22, <1>23
     DEF Next, Main, Receiver, Sender, Callback

-----------------------------------------------------------------------------
\* The initial state.
LEMMA InitHolds == Init => TypeOK /\ MotorsWithinLimits /\ Addressed /\ Stopping /\ Sending
<1> SUFFICES ASSUME Init PROVE TypeOK /\ MotorsWithinLimits /\ Addressed /\ Stopping /\ Sending
  OBVIOUS
<1>1. TypeOK
  <2>1. Field(0) \in Fields /\ NoFrame \in Frames
    BY DEF Field, Fields, NoFrame, Frames
  <2>2. inbox \in Seq(Messages) /\ Len(inbox) <= MaxInbox
    BY BoundAssumption DEF Init
  <2>3. subscribed \in 0 .. Len(GZ_TOPICS)
    BY DEF Init, GZ_TOPICS
  <2> QED
    BY <2>1, <2>2, <2>3 DEF Init, TypeOK
<1>2. MotorsWithinLimits /\ Addressed /\ Stopping
  BY DEF Init, MotorsWithinLimits, Addressed, Stopping
<1>3. Sending
  BY DEF Init, Sending, NoFrame
<1> QED
  BY <1>1, <1>2, <1>3

\* Whoever acts, the HIL_SENSOR messages, the magnetometer and the barometer
\* take a step of the stream or stay as they are.
LEMMA StreamNext == TypeOK /\ Sending /\ [Next]_vars => [Stream!Next]_(Stream!vars)
<1> SUFFICES ASSUME TypeOK /\ Sending, [Next]_vars PROVE [Stream!Next]_(Stream!vars)
  OBVIOUS
<1> USE DEF Stream!vars, mainVars, linkVars, rxVars, hilVars, gzVars
<1>1. CASE WaitHeartbeat
  BY <1>1 DEF WaitHeartbeat, Receives
<1>2. CASE Subscribe
  BY <1>2 DEF Subscribe
<1>3. CASE StartReceiver
  BY <1>3 DEF StartReceiver
<1>4. CASE Interrupted
  BY <1>4 DEF Interrupted
<1>5. CASE ProcessEnds
  BY <1>5 DEF ProcessEnds
<1>6. CASE RxLoop
  BY <1>6 DEF RxLoop
<1>7. CASE RxReceives
  BY <1>7 DEF RxReceives, Receives
<1>8. CASE RxTimesOut
  BY <1>8 DEF RxTimesOut
<1>9. CASE RxCommand
  BY <1>9 DEF RxCommand
<1>10. CASE RxHeartbeat
  BY <1>10 DEF RxHeartbeat, Sends
<1>11. CASE ReadMagX
  BY <1>11 DEF ReadMagX, ReadMag
<1>12. CASE ReadMagY
  BY <1>12 DEF ReadMagY, ReadMag
<1>13. CASE ReadMagZ
  BY <1>13 DEF ReadMagZ, ReadMag
<1>14. CASE NoMag
  BY <1>14 DEF NoMag
<1>15. CASE ReadBaro
  BY <1>15 DEF ReadBaro
<1>16. CASE SendHilSensor
  <2>1. cb = "send" /\ _imu = frame.imu + 1 /\ pressure = _baro
    BY <1>16 DEF SendHilSensor, Sending
  <2>2. field[1] = _mag /\ field[2] = _mag /\ field[3] = _mag
    BY <2>1 DEF Sending
  <2>3. field \in [1 .. 3 -> Nat]
    BY DEF TypeOK, Fields
  <2>4. field = [axis \in 1 .. 3 |-> _mag]
    BY <2>2, <2>3
  <2>5. frame' = [imu |-> frame.imu + 1, mag |-> [axis \in 1 .. 3 |-> _mag], baro |-> _baro]
    BY <1>16, <2>1, <2>4 DEF SendHilSensor
  <2>6. UNCHANGED <<_mag, _baro>>
    BY <1>16 DEF SendHilSensor
  <2> QED
    BY <2>5, <2>6 DEF Stream!Next, Stream!Tick
<1>17. CASE OnImu
  BY <1>17 DEF OnImu, Delivers
<1>18. CASE OnBaro
  BY <1>18 DEF OnBaro, Delivers, Stream!Next, Stream!NewBaro
<1>19. CASE OnMag
  BY <1>19 DEF OnMag, Delivers, Stream!Next, Stream!NewMag
<1>20. CASE OnGps
  BY <1>20 DEF OnGps, Delivers
<1>21. ASSUME NEW ranges \in LaserScans, NEW time \in EpochTimes, OnLidar(ranges, time)
      PROVE  [Stream!Next]_(Stream!vars)
  BY <1>21 DEF OnLidar, Delivers
<1>22. ASSUME NEW m \in Messages, Arrive(m) PROVE [Stream!Next]_(Stream!vars)
  BY <1>22 DEF Arrive
<1>23. CASE UNCHANGED vars
  BY <1>23 DEF vars
<1> QED
  BY <1>1, <1>2, <1>3, <1>4, <1>5, <1>6, <1>7, <1>8, <1>9, <1>10, <1>11, <1>12, <1>13, <1>14, <1>15, <1>16, <1>17, <1>18, <1>19, <1>20, <1>21, <1>22, <1>23
     DEF Next, Main, Receiver, Sender, Callback

-----------------------------------------------------------------------------
\* The state of the bridge stays within its types, the socket's buffer within
\* its bound, and the receiver never handles a message of another type.
THEOREM BridgeTypeCorrect == Spec => []TypeOK
<1>1. Init => TypeOK
  BY InitHolds
<1>2. TypeOK /\ [Next]_vars => TypeOK'
  BY TypeNext
<1> QED
  BY <1>1, <1>2, PTL DEF Spec

\* A motor is told a speed between 0 and MAX_RADS, whatever arrives
\* (infinity_gazebo_bridge.py:267).
THEOREM MotorsSafe == Spec => []MotorsWithinLimits
<1>1. Init => MotorsWithinLimits
  BY InitHolds
<1>2. TypeOK /\ MotorsWithinLimits /\ [Next]_vars => MotorsWithinLimits'
  BY MotorsNext
<1> QED
  BY <1>1, <1>2, BridgeTypeCorrect, PTL DEF Spec

\* Nothing is sent before the first heartbeat has told the address
\* (infinity_gazebo_bridge.py:66-89).
THEOREM AddressKnown == Spec => []EverythingAddressed
<1>1. Init => Addressed
  BY InitHolds
<1>2. TypeOK /\ Addressed /\ [Next]_vars => Addressed'
  BY AddressedNext
<1>3. Addressed => EverythingAddressed
  BY DEF Addressed, EverythingAddressed
<1> QED
  BY <1>1, <1>2, <1>3, BridgeTypeCorrect, PTL DEF Spec

\* At most one message is handled after Ctrl-C
\* (infinity_gazebo_bridge.py:242-258, 286-288).
THEOREM StopIsPrompt == Spec => []StopsWithinOneMessage
<1>1. Init => Stopping
  BY InitHolds
<1>2. TypeOK /\ Stopping /\ [Next]_vars => Stopping'
  BY StoppingNext
<1>3. Stopping => StopsWithinOneMessage
  BY DEF Stopping, StopsWithinOneMessage
<1> QED
  BY <1>1, <1>2, <1>3, BridgeTypeCorrect, PTL DEF Spec

\* The bridge implements the stream of HIL_SENSOR messages: one per IMU sample,
\* each with the newest magnetometer sample, whole, and barometer sample.
THEOREM ImplementsStream == Spec => HilSensorStreamSpec
<1>1. Init => Stream!Init /\ Sending
  <2>1. Init => Stream!Init
    BY DEF Init, Stream!Init, NoFrame, Field
  <2> QED
    BY <2>1, InitHolds
<1>2. TypeOK /\ Sending /\ [Next]_vars => Sending'
  BY SendingNext
<1>3. TypeOK /\ Sending /\ [Next]_vars => [Stream!Next]_(Stream!vars)
  BY StreamNext
<1> QED
  BY <1>1, <1>2, <1>3, BridgeTypeCorrect, PTL DEF Spec, Stream!Spec, HilSensorStreamSpec

(***************************************************************************)
(* params/generate_params.py                                               *)
(***************************************************************************)
\* The entries that can come up.
Entry == UNION {{Entries(content)[i] : i \in DOMAIN content.definitions} : content \in YamlContents}

\* Every entry has a name of its own.
Distinct(entries) == \A i, j \in DOMAIN entries : entries[i].name = entries[j].name => i = j

\* What the generator holds.  The header and the table of a run that ended
\* well are of one collection.
Generated ==
    /\ params \in Seq(Entry)
    /\ pg_pc \in {"idle", "collect", "hpp", "cpp"}
    /\ pg_pc # "idle" => pg_result # "ok"
    /\ pg_pc = "cpp" => hpp = params
    /\ pg_result = "ok" => hpp = cpp /\ hpp \in Seq(Entry)

\* The firmware's two tables are one, without two rows for a name.
Installed ==
    /\ installs \in Nat
    /\ firmware.enum \in Seq(Entry)
    /\ firmware.table = firmware.enum
    /\ Distinct(firmware.enum)

\* Every record is under the name of the parameter it was saved for, and what
\* the installed build saved is for one of its parameters.
Recorded ==
    \A record \in param_flash :
        /\ record.key = record.by.name
        /\ record.build \in 0 .. installs
        /\ record.build = installs => \E j \in DOMAIN firmware.enum : firmware.enum[j] = record.by

YamlOK ==
    /\ yaml_files \in [YamlPaths -> YamlContents \cup {NoFile}]
    /\ pg_files \subseteq YamlPaths

GenInv == YamlOK /\ Generated /\ Installed /\ Recorded

\* A module.yaml yields entries.
LEMMA EntriesOfFile ==
    ASSUME NEW content \in YamlContents
    PROVE  Entries(content) \in Seq(Entry)
<1>1. content.definitions \in Seq(Seq(STRING))
  BY YamlAssumption DEF YamlSchema
<1>2. DOMAIN content.definitions = 1 .. Len(content.definitions)
      /\ Len(content.definitions) \in Nat
  BY <1>1
<1>3. Entries(content) = [i \in 1 .. Len(content.definitions) |-> Entries(content)[i]]
  BY <1>2 DEF Entries
<1>4. \A i \in 1 .. Len(content.definitions) : Entries(content)[i] \in Entry
  BY <1>2 DEF Entry
<1> QED
  BY <1>2, <1>3, <1>4

\* GenInv holds at first.
LEMMA GenInvInit == ParamInit => GenInv
  BY DEF ParamInit, GenInv, YamlOK, Generated, Installed, Recorded, Distinct, NoFirmware

\* Every step keeps GenInv.
LEMMA GenInvNext == GenInv /\ [ParamNext]_pgVars => GenInv'
<1> SUFFICES ASSUME GenInv, [ParamNext]_pgVars PROVE GenInv'
  OBVIOUS
<1> USE DEF GenInv, YamlOK, Generated
<1>1. CASE StartParams
  BY <1>1 DEF StartParams, Installed, Recorded, Distinct
<1>2. ASSUME NEW path \in YamlPaths, CollectFile(path) PROVE GenInv'
  <2>1. yaml_files[path] \in YamlContents
    BY <1>2 DEF CollectFile
  <2>2. Entries(yaml_files[path]) \in Seq(Entry)
    BY <2>1, EntriesOfFile
  <2>3. params' \in Seq(Entry)
    BY <1>2, <2>2 DEF CollectFile
  <2> QED
    BY <1>2, <2>3 DEF CollectFile, Installed, Recorded, Distinct
<1>3. CASE OpenHpp
  BY <1>3 DEF OpenHpp, Installed, Recorded, Distinct
<1>4. CASE WriteHpp
  BY <1>4 DEF WriteHpp, Installed, Recorded, Distinct
<1>5. CASE WriteCpp
  BY <1>5 DEF WriteCpp, Installed, Recorded, Distinct
<1>6. CASE ParamsStopped
  BY <1>6 DEF ParamsStopped, Installed, Recorded, Distinct
<1>7. ASSUME NEW path \in YamlPaths, NEW content \in YamlContents \cup {NoFile},
             EditYaml(path, content)
      PROVE  GenInv'
  BY <1>7 DEF EditYaml, Installed, Recorded, Distinct
<1>8. CASE Install
  <2>1. Installed'
    BY <1>8 DEF Install, Compiles, Installed, Distinct
  <2>2. Recorded'
    <3>1. installs' = installs + 1 /\ param_flash' = param_flash /\ installs \in Nat
      BY <1>8 DEF Install, Installed
    <3>2. ASSUME NEW record \in param_flash
          PROVE  record.key = record.by.name /\ record.build \in 0 .. installs'
                   /\ record.build # installs'
      BY <3>1 DEF Recorded
    <3> QED
      BY <3>1, <3>2 DEF Recorded
  <2> QED
    BY <1>8, <2>1, <2>2 DEF Install
<1>9. ASSUME NEW i \in DOMAIN firmware.enum, SaveParam(i) PROVE GenInv'
  <2>1. Installed'
    BY <1>9 DEF SaveParam, Installed, Distinct
  <2>2. firmware.table[i] = firmware.enum[i] /\ installs \in 0 .. installs
    BY DEF Installed
  <2>3. ASSUME NEW record \in param_flash'
        PROVE  /\ record.key = record.by.name
               /\ record.build \in 0 .. installs
               /\ record.build = installs => \E j \in DOMAIN firmware.enum : firmware.enum[j] = record.by
    <3>1. record \in param_flash
            \/ record = [key |-> firmware.table[i].name, by |-> firmware.enum[i],
                         build |-> installs]
      BY <1>9 DEF SaveParam
    <3> QED
      BY <3>1, <2>2 DEF Recorded
  <2>4. Recorded'
    BY <1>9, <2>3 DEF SaveParam, Recorded
  <2> QED
    BY <1>9, <2>1, <2>4 DEF SaveParam
<1>10. CASE UNCHANGED pgVars
  BY <1>10 DEF pgVars, Installed, Recorded, Distinct
<1> QED
  BY <1>1, <1>2, <1>3, <1>4, <1>5, <1>6, <1>7, <1>8, <1>9, <1>10 DEF ParamNext

\* The row found for a key has the name the record was saved under; within the
\* build that saved it there is only one such row.
LEMMA GenInvImplies == GenInv => SavedValuesStrayOnlyByCollision
<1> SUFFICES ASSUME GenInv, NEW record \in param_flash, NEW i \in DOMAIN firmware.enum,
                    Finds(record.key, i)
             PROVE  \/ record.by.owner = firmware.enum[i].owner
                    \/ record.build # installs /\ record.by.name = firmware.enum[i].name
  BY DEF SavedValuesStrayOnlyByCollision
<1>1. firmware.enum[i].name = record.by.name
  BY DEF GenInv, Installed, Recorded, Finds
<1>2. CASE record.build = installs
  <2>1. PICK j \in DOMAIN firmware.enum : firmware.enum[j] = record.by
    BY <1>2 DEF GenInv, Recorded
  <2>2. i = j
    BY <1>1, <2>1 DEF GenInv, Installed, Distinct
  <2> QED
    BY <2>1, <2>2
<1> QED
  BY <1>1, <1>2

\* Whatever the modules and their parameters are called, a saved value reaches
\* another parameter only in a later build and only if the two full names are
\* one (generate_params.py:29-62, param_manager.hpp:16, param_manager.cpp:68).
THEOREM SavedValuesTraced == ParamSpec => []SavedValuesStrayOnlyByCollision
<1>1. ParamSpec => []GenInv
  BY GenInvInit, GenInvNext, PTL DEF ParamSpec
<1> QED
  BY <1>1, GenInvImplies, PTL

(***************************************************************************)
(* srimb/generate_topic.py                                                 *)
(***************************************************************************)
\* The names that have been read in this run, and those that are left.
Listed == data_types_lines
Left   == IF tg_pc = "header" THEN Tail(tg_todo) ELSE tg_todo

\* The lists are those of a run under way or of the last one, which ended well.
Current == tg_pc # "idle" \/ tg_result = "ok"

\* What can be said of a topic.
Descriptions == {generate_metadata(name, parse_msg_file(content)) :
                    name \in TopicNames, content \in TopicContents}
Usings       == {Alias(name, parse_msg_file(content)) :
                    name \in TopicNames, content \in TopicContents}

\* The types.
TopicTypes ==
    /\ topic_files \in [TopicNames -> TopicContents \cup {Missing}]
    /\ topic_seen \in [TopicNames -> SUBSET (TopicContents \cup {Missing})]
    /\ tg_pc \in {"idle", "files", "header", "write"}
    /\ tg_todo \in Seq(TopicNames) /\ Listed \in Seq(TopicNames)
    /\ metadata \in Seq(Descriptions) /\ Len(metadata) = Len(Listed)
    /\ aliases \in Seq(Usings) /\ Len(aliases) = Len(Listed)
    /\ headers = [name \in HeaderNames |-> headers[name]]
    /\ outputs = [file \in {"TopicMetadata", "DataTypes", "TopicTypes"} |-> outputs[file]]
    /\ outputs["DataTypes"] \in Seq(TopicNames) \cup {Missing, Empty}

\* Where the run stands.
Progress ==
    /\ tg_out \in 1 .. 3
    /\ tg_pc # "idle" => tg_result = "none"
    /\ tg_pc = "header" =>
          tg_out = 1 /\ tg_todo # << >> /\ Listed # << >> /\ Last(Listed) = Head(tg_todo)
    /\ tg_pc = "write" => tg_todo = << >>
    /\ tg_pc = "files" /\ tg_out > 1 => tg_todo = << >>
    /\ tg_pc = "idle" /\ tg_result = "ok" => tg_todo = << >>
    /\ tg_pc # "idle" => \A name \in TopicNames : topic_files[name] \in topic_seen[name]

\* Each file is read once, and none that was there throughout is passed over.
EachOnce ==
    Current =>
        /\ IsInjective(Listed) /\ IsInjective(Left)
        /\ \A i \in DOMAIN Listed, j \in DOMAIN Left : Listed[i] # Left[j]
        /\ \A name \in TopicNames :
              Missing \notin topic_seen[name] => name \in Range(Listed) \cup Range(Left)

\* What was generated from a file is from one content of it.
From(i, content) ==
    LET parsed == parse_msg_file(content)
    IN  /\ Parses(content)
        /\ metadata[i] = generate_metadata(Listed[i], parsed)
        /\ aliases[i] = Alias(Listed[i], parsed)
        /\ IF tg_pc = "header" /\ i = Len(Listed)
             THEN tg_parsed = parsed
             ELSE headers[Listed[i]] = generate_header(Listed[i], parsed)

OneContent ==
    Current =>
        \A i \in DOMAIN Listed : \E content \in topic_seen[Listed[i]] \ {Missing} : From(i, content)

\* The files about all topics that have been written.
Written(k) == outputs[Output[k].file] = Output[k].text

OutputsWritten ==
    /\ tg_pc # "idle" => \A k \in 1 .. tg_out - 1 : Written(k)
    /\ tg_pc = "idle" /\ tg_result = "ok" => \A k \in 1 .. 3 : Written(k)

\* A header that is included, or is going to be, is there.
HeadersThere ==
    /\ Current => \A i \in DOMAIN Listed : headers[Listed[i]] # Missing
    /\ IncludedHeadersExist

TopicInv == TopicTypes /\ Progress /\ EachOnce /\ OneContent /\ OutputsWritten /\ HeadersThere

-----------------------------------------------------------------------------
\* os.listdir yields each file that is there once.
LEMMA AllListed ==
    ASSUME topic_files \in [TopicNames -> TopicContents \cup {Missing}],
           NEW names \in SetToSeqs(Present)
    PROVE  /\ names \in Seq(TopicNames) /\ IsInjective(names)
           /\ \A name \in Present : name \in Range(names)
<1> DEFINE n == Cardinality(Present)
<1>1. IsFiniteSet(Present) /\ n \in Nat
  <2>1. Present \in SUBSET TopicNames
    BY DEF Present
  <2> QED
    BY <2>1, TopicNamesAssumption, FS_Subset, FS_CardinalityType
<1>2. names \in [1 .. n -> Present] /\ IsInjective(names)
  BY DEF SetToSeqs, IsInjective
<1>3. names \in Injection(1 .. n, Present)
  BY <1>2 DEF Injection
<1>4. Cardinality(1 .. n) = n
  BY <1>1, FS_Interval
<1>5. names \in Surjection(1 .. n, Present)
  BY <1>1, <1>3, <1>4, FS_Injection
<1>6. names \in Seq(TopicNames)
  <2>1. names \in [1 .. n -> TopicNames]
    BY <1>2 DEF Present
  <2> QED
    BY <1>1, <2>1
<1>7. ASSUME NEW name \in Present PROVE name \in Range(names)
  BY <1>5 DEF Surjection, Range
<1> QED
  BY <1>2, <1>6, <1>7

\* What ReadTopic reads and lists.
LEMMA Reads ==
    ASSUME TopicTypes, Progress, ReadTopic
    PROVE  \E name \in TopicNames, content \in TopicContents :
              /\ name = Head(tg_todo) /\ tg_todo = <<name>> \o Tail(tg_todo)
              /\ Tail(tg_todo) \in Seq(TopicNames)
              /\ content = topic_files[name] /\ content \in topic_seen[name] \ {Missing}
              /\ Parses(content)
              /\ tg_parsed' = parse_msg_file(content)
              /\ Listed' = Append(Listed, name)
              /\ metadata' = Append(metadata, generate_metadata(name, parse_msg_file(content)))
              /\ aliases' = Append(aliases, Alias(name, parse_msg_file(content)))
              /\ headers' = [headers EXCEPT ![name] = Empty]
<1> DEFINE name == Head(tg_todo)
           content == topic_files[name]
<1>1. /\ tg_todo \in Seq(TopicNames) /\ tg_todo # << >>
      /\ name \in TopicNames /\ Tail(tg_todo) \in Seq(TopicNames)
      /\ tg_todo = <<name>> \o Tail(tg_todo)
  BY DEF TopicTypes, ReadTopic
<1>2. content \in TopicContents /\ content \in topic_seen[name] \ {Missing}
  BY <1>1 DEF TopicTypes, Progress, ReadTopic
<1> QED
  BY <1>1, <1>2 DEF ReadTopic, HeaderName, Listed
-----------------------------------------------------------------------------
\* What Append does to a sequence.
LEMMA AppendTo ==
    ASSUME NEW S, NEW s \in Seq(S), NEW e \in S
    PROVE  /\ Append(s, e) \in Seq(S) /\ Append(s, e) # << >>
           /\ Len(Append(s, e)) = Len(s) + 1
           /\ \A i \in 1 .. Len(s) : Append(s, e)[i] = s[i]
           /\ Append(s, e)[Len(s) + 1] = e /\ Last(Append(s, e)) = e
           /\ DOMAIN Append(s, e) = DOMAIN s \cup {Len(s) + 1}
  BY DEF Last

\* The three files about all topics.
LEMMA OutputIs ==
    /\ Len(Output) = 3
    /\ Output[1] = [file |-> "TopicMetadata", text |-> metadata]
    /\ Output[2] = [file |-> "DataTypes", text |-> Listed]
    /\ Output[3] = [file |-> "TopicTypes", text |-> aliases]
  BY DEF Output, Listed


\* The invariant before the first run.
LEMMA TopicInvInit == TopicInit => TopicInv
<1> SUFFICES ASSUME TopicInit PROVE TopicInv
  OBVIOUS
<1>1. TopicTypes
  BY DEF TopicInit, TopicTypes, Listed
<1>2. Progress
  BY DEF TopicInit, Progress
<1>3. EachOnce /\ OneContent /\ OutputsWritten
  BY DEF TopicInit, EachOnce, OneContent, OutputsWritten, Current
<1>4. HeadersThere
  BY DEF TopicInit, HeadersThere, Current, IncludedHeadersExist
<1> QED
  BY <1>1, <1>2, <1>3, <1>4 DEF TopicInv

\* The types after a step.
LEMMA NextTopicTypes == TopicTypes /\ Progress /\ [TopicNext]_tgVars => TopicTypes'
<1> SUFFICES ASSUME TopicTypes, Progress, [TopicNext]_tgVars PROVE TopicTypes'
  OBVIOUS
<1> USE DEF TopicTypes, Listed
<1>1. CASE StartTopics
  <2>1. tg_todo' \in Seq(TopicNames)
    BY <1>1, AllListed DEF StartTopics
  <2>2. topic_seen' \in [TopicNames -> SUBSET (TopicContents \cup {Missing})]
    BY <1>1 DEF StartTopics
  <2> QED
    BY <1>1, <2>1, <2>2 DEF StartTopics
<1>2. CASE ReadTopic
  <2>1. PICK name \in TopicNames, content \in TopicContents :
           /\ Listed' = Append(Listed, name)
           /\ metadata' = Append(metadata, generate_metadata(name, parse_msg_file(content)))
           /\ aliases' = Append(aliases, Alias(name, parse_msg_file(content)))
           /\ headers' = [headers EXCEPT ![name] = Empty]
    BY <1>2, Reads
  <2>2. /\ generate_metadata(name, parse_msg_file(content)) \in Descriptions
        /\ Alias(name, parse_msg_file(content)) \in Usings
    BY DEF Descriptions, Usings
  <2>3. Listed' \in Seq(TopicNames) /\ Len(Listed') = Len(Listed) + 1
    BY <2>1
  <2>4. metadata' \in Seq(Descriptions) /\ Len(metadata') = Len(metadata) + 1
    <3> HIDE DEF Listed
    <3> QED
      BY <2>1, <2>2, AppendTo
  <2>5. aliases' \in Seq(Usings) /\ Len(aliases') = Len(aliases) + 1
    <3> HIDE DEF Listed
    <3> QED
      BY <2>1, <2>2, AppendTo
  <2> QED
    BY <1>2, <2>1, <2>3, <2>4, <2>5 DEF ReadTopic
<1>3. CASE WriteHeader
  <2>1. tg_todo' \in Seq(TopicNames)
    BY <1>3 DEF WriteHeader, Progress
  <2> QED
    BY <1>3, <2>1 DEF WriteHeader, tgLists
<1>4. CASE OpenOutput
  BY <1>4 DEF OpenOutput, tgLists, Output, Progress
<1>5. CASE WriteOutput
  <2>1. /\ outputs' = [file \in {"TopicMetadata", "DataTypes", "TopicTypes"} |-> outputs'[file]]
        /\ outputs'["DataTypes"] \in {outputs["DataTypes"], Listed}
    <3>1. CASE tg_out = 1
      <4>1. outputs' = [outputs EXCEPT !["TopicMetadata"] = metadata]
        BY <1>5, <3>1, OutputIs DEF WriteOutput
      <4> QED
        BY <4>1
    <3>2. CASE tg_out = 2
      <4>1. outputs' = [outputs EXCEPT !["DataTypes"] = Listed]
        BY <1>5, <3>2, OutputIs DEF WriteOutput
      <4> QED
        BY <4>1
    <3>3. CASE tg_out = 3
      <4>1. outputs' = [outputs EXCEPT !["TopicTypes"] = aliases]
        BY <1>5, <3>3, OutputIs DEF WriteOutput
      <4> QED
        BY <4>1
    <3> QED
      BY <3>1, <3>2, <3>3 DEF Progress
  <2> QED
    BY <1>5, <2>1 DEF WriteOutput, tgLists
<1>6. CASE TopicsStopped
  BY <1>6 DEF TopicsStopped, tgLists
<1>7. ASSUME NEW name \in TopicNames, NEW content \in TopicContents \cup {Missing},
             EditTopic(name, content)
      PROVE  TopicTypes'
  <2>1. topic_seen' \in [TopicNames -> SUBSET (TopicContents \cup {Missing})]
    BY <1>7 DEF EditTopic
  <2> QED
    BY <1>7, <2>1 DEF EditTopic, tgLists
<1>8. CASE UNCHANGED tgVars
  BY <1>8 DEF tgVars, tgLists
<1> QED
  BY <1>1, <1>2, <1>3, <1>4, <1>5, <1>6, <1>7, <1>8 DEF TopicNext

\* Where the run stands after a step.
LEMMA NextProgress == TopicTypes /\ Progress /\ [TopicNext]_tgVars => Progress'
<1> SUFFICES ASSUME TopicTypes, Progress, [TopicNext]_tgVars PROVE Progress'
  OBVIOUS
<1> USE DEF Progress
<1>1. CASE StartTopics
  BY <1>1 DEF StartTopics, TopicTypes
<1>2. CASE ReadTopic
  <2>1. PICK name \in TopicNames, content \in TopicContents :
           name = Head(tg_todo) /\ Listed' = Append(Listed, name)
    BY <1>2, Reads
  <2>2. Listed' # << >> /\ Last(Listed') = name
    BY <2>1, AppendTo DEF TopicTypes
  <2> QED
    BY <1>2, <2>1, <2>2 DEF ReadTopic, TopicTypes
<1>3. CASE WriteHeader
  <2>1. tg_todo' \in Seq(TopicNames)
    BY <1>3 DEF WriteHeader, TopicTypes
  <2>2. tg_pc' = "files" /\ tg_pc = "header" /\ tg_out' = tg_out
    BY <1>3 DEF WriteHeader
  <2> QED
    BY <1>3, <2>1, <2>2 DEF WriteHeader, tgLists, TopicTypes
<1>4. CASE OpenOutput
  BY <1>4 DEF OpenOutput, tgLists, TopicTypes
<1>5. CASE WriteOutput
  BY <1>5, OutputIs DEF WriteOutput, tgLists, TopicTypes
<1>6. CASE TopicsStopped
  BY <1>6 DEF TopicsStopped, tgLists, TopicTypes
<1>7. ASSUME NEW name \in TopicNames, NEW content \in TopicContents \cup {Missing},
             EditTopic(name, content)
      PROVE  Progress'
  BY <1>7 DEF EditTopic, tgLists, TopicTypes, Listed
<1>8. CASE UNCHANGED tgVars
  BY <1>8 DEF tgVars, tgLists, Listed
<1> QED
  BY <1>1, <1>2, <1>3, <1>4, <1>5, <1>6, <1>7, <1>8 DEF TopicNext

\* A step that changes neither the lists nor what was in the files keeps
\* EachOnce.
LEMMA EachOnceKept ==
    ASSUME EachOnce, Listed' = Listed, Left' = Left, Current' => Current,
           \A name \in TopicNames : topic_seen[name] \subseteq topic_seen'[name]
    PROVE  EachOnce'
<1> SUFFICES ASSUME Current' PROVE EachOnce'
  BY DEF EachOnce
<1>1. Current
  OBVIOUS
<1> HIDE DEF Listed, Left, Current
<1> QED
  BY <1>1 DEF EachOnce

\* Each file is read once, after a step.
LEMMA NextEachOnce ==
    TopicTypes /\ Progress /\ EachOnce /\ [TopicNext]_tgVars => EachOnce'
<1> SUFFICES ASSUME TopicTypes, Progress, EachOnce, [TopicNext]_tgVars PROVE EachOnce'
  OBVIOUS
<1>1. CASE StartTopics
  <2>1. /\ IsInjective(tg_todo') /\ tg_todo' \in Seq(TopicNames)
        /\ \A name \in Present : name \in Range(tg_todo')
    BY <1>1, AllListed DEF StartTopics, TopicTypes
  <2>2. Listed' = << >> /\ Left' = tg_todo' /\ IsInjective(Listed')
    BY <1>1 DEF StartTopics, Listed, Left, IsInjective
  <2>3. ASSUME NEW name \in TopicNames, Missing \notin topic_seen'[name]
        PROVE  name \in Range(Left')
    BY <1>1, <2>1, <2>2, <2>3 DEF StartTopics, Present
  <2> HIDE DEF Listed, Left
  <2> QED
    BY <2>1, <2>2, <2>3 DEF EachOnce
<1>2. CASE ReadTopic
  <2>1. PICK name \in TopicNames :
           /\ tg_todo = <<name>> \o Tail(tg_todo) /\ Tail(tg_todo) \in Seq(TopicNames)
           /\ Listed' = Append(Listed, name)
    BY <1>2, Reads
  <2>2. Left = tg_todo /\ Left' = Tail(tg_todo) /\ Current
    BY <1>2 DEF ReadTopic, Left, Current
  <2> DEFINE n == Len(Listed)
             t == Tail(tg_todo)
  <2>3. /\ n \in Nat /\ Listed \in Seq(TopicNames) /\ DOMAIN Listed = 1 .. n
        /\ DOMAIN Listed' = 1 .. n + 1 /\ Listed'[n + 1] = name
        /\ \A i \in 1 .. n : Listed'[i] = Listed[i]
    BY <2>1, AppendTo DEF TopicTypes
  <2>4. /\ Left[1] = name /\ 1 \in DOMAIN Left
        /\ DOMAIN t = 1 .. Len(t) /\ Len(t) \in Nat
        /\ \A j \in DOMAIN t : j + 1 \in DOMAIN Left /\ Left[j + 1] = t[j]
        /\ \A j \in DOMAIN Left : j = 1 \/ (j - 1 \in DOMAIN t /\ Left[j] = t[j - 1])
    BY <2>1, <2>2 DEF TopicTypes
  <2>5. /\ IsInjective(Listed) /\ IsInjective(Left)
        /\ \A i \in DOMAIN Listed, j \in DOMAIN Left : Listed[i] # Left[j]
        /\ \A other \in TopicNames :
              Missing \notin topic_seen[other] => other \in Range(Listed) \cup Range(Left)
    BY <2>2 DEF EachOnce
  <2> HIDE DEF Listed, Left, t, n
  <2>6. IsInjective(Listed')
    <3> SUFFICES ASSUME NEW i \in 1 .. n + 1, NEW j \in 1 .. n + 1, Listed'[i] = Listed'[j]
                 PROVE  i = j
      BY <2>3 DEF IsInjective
    <3>1. CASE i \in 1 .. n /\ j \in 1 .. n
      BY <2>3, <2>5, <3>1 DEF IsInjective
    <3>2. CASE i = n + 1 \/ j = n + 1
      BY <2>3, <2>4, <2>5, <3>2
    <3> QED
      BY <2>3, <3>1, <3>2
  <2>7. IsInjective(t)
    <3> SUFFICES ASSUME NEW i \in DOMAIN t, NEW j \in DOMAIN t, t[i] = t[j]
                 PROVE  i = j
      BY DEF IsInjective
    <3>1. i + 1 = j + 1
      BY <2>4, <2>5 DEF IsInjective
    <3> QED
      BY <2>4, <3>1
  <2>8. ASSUME NEW i \in 1 .. n + 1, NEW j \in DOMAIN t PROVE Listed'[i] # t[j]
    <3>1. CASE i \in 1 .. n
      BY <2>3, <2>4, <2>5, <3>1
    <3>2. CASE i = n + 1
      <4>1. j + 1 # 1
        BY <2>4
      <4> QED
        BY <2>3, <2>4, <2>5, <3>2, <4>1 DEF IsInjective
    <3> QED
      BY <2>3, <3>1, <3>2
  <2>9. ASSUME NEW other \in TopicNames, Missing \notin topic_seen'[other]
        PROVE  other \in Range(Listed') \cup Range(t)
    <3>1. other \in Range(Listed) \cup Range(Left)
      BY <1>2, <2>5, <2>9 DEF ReadTopic
    <3>2. CASE other \in Range(Listed)
      BY <2>3, <3>2 DEF Range
    <3>3. ASSUME NEW j \in DOMAIN Left, other = Left[j]
          PROVE  other \in Range(Listed') \cup Range(t)
      <4>1. CASE j = 1
        <5>1. n + 1 \in DOMAIN Listed' /\ Listed'[n + 1] = other
          BY <2>3, <2>4, <3>3, <4>1
        <5> QED
          BY <5>1 DEF Range
      <4>2. CASE j - 1 \in DOMAIN t /\ Left[j] = t[j - 1]
        BY <3>3, <4>2 DEF Range
      <4> QED
        BY <2>4, <4>1, <4>2
    <3> QED
      BY <3>1, <3>2, <3>3 DEF Range
  <2>10. Left' = t
    BY <2>2 DEF t
  <2> QED
    BY <2>3, <2>6, <2>7, <2>8, <2>9, <2>10 DEF EachOnce
<1>3. CASE WriteHeader
  BY <1>3, EachOnceKept DEF WriteHeader, tgLists, Listed, Left, Current, Progress
<1>4. CASE OpenOutput
  BY <1>4, EachOnceKept DEF OpenOutput, tgLists, Listed, Left, Current
<1>5. CASE WriteOutput
  BY <1>5, EachOnceKept, OutputIs DEF WriteOutput, tgLists, Listed, Left, Current
<1>6. CASE TopicsStopped
  BY <1>6 DEF TopicsStopped, EachOnce, Current
<1>7. ASSUME NEW name \in TopicNames, NEW content \in TopicContents \cup {Missing},
             EditTopic(name, content)
      PROVE  EachOnce'
  <2>1. \A other \in TopicNames : topic_seen[other] \subseteq topic_seen'[other]
    BY <1>7 DEF EditTopic, TopicTypes
  <2> QED
    BY <1>7, <2>1, EachOnceKept DEF EditTopic, tgLists, Listed, Left, Current
<1>8. CASE UNCHANGED tgVars
  BY <1>8, EachOnceKept DEF tgVars, tgLists, Listed, Left, Current
<1> QED
  BY <1>1, <1>2, <1>3, <1>4, <1>5, <1>6, <1>7, <1>8 DEF TopicNext

\* What was generated stays from that content, if neither the lists nor the
\* headers of the listed names change.
LEMMA FromKept ==
    ASSUME TopicTypes, OneContent, Current' => Current, NEW i \in DOMAIN Listed',
           i \in DOMAIN Listed, Listed' = Listed, metadata' = metadata, aliases' = aliases,
           headers' = headers, tg_parsed' = tg_parsed, tg_pc' = "header" <=> tg_pc = "header",
           \A name \in TopicNames : topic_seen[name] \subseteq topic_seen'[name], Current'
    PROVE  \E content \in topic_seen'[Listed'[i]] \ {Missing} : From(i, content)'
<1>1. Listed[i] \in TopicNames
  BY DEF TopicTypes
<1>2. PICK content \in topic_seen[Listed[i]] \ {Missing} : From(i, content)
  BY DEF OneContent
<1>3. content \in topic_seen'[Listed'[i]] \ {Missing}
  BY <1>1, <1>2
<1>4. From(i, content)'
  <2> HIDE DEF Listed
  <2> QED
    BY <1>2 DEF From
<1> QED
  BY <1>3, <1>4

\* The same of all of them.
LEMMA OneContentKept ==
    ASSUME TopicTypes, OneContent, Current' => Current,
           Listed' = Listed, metadata' = metadata, aliases' = aliases,
           headers' = headers, tg_parsed' = tg_parsed, tg_pc' = "header" <=> tg_pc = "header",
           \A name \in TopicNames : topic_seen[name] \subseteq topic_seen'[name]
    PROVE  OneContent'
<1> SUFFICES ASSUME Current', NEW i \in DOMAIN Listed'
             PROVE  \E content \in topic_seen'[Listed'[i]] \ {Missing} : From(i, content)'
  BY DEF OneContent
<1>1. i \in DOMAIN Listed
  OBVIOUS
<1> QED
  BY <1>1, FromKept

\* What a step makes of the files that were read comes from one content each.
LEMMA NextOneContent ==
    TopicTypes /\ Progress /\ EachOnce /\ OneContent /\ [TopicNext]_tgVars => OneContent'
<1> SUFFICES ASSUME TopicTypes, Progress, EachOnce, OneContent, [TopicNext]_tgVars
             PROVE  OneContent'
  OBVIOUS
<1>1. CASE StartTopics
  BY <1>1 DEF StartTopics, OneContent, Listed
<1>2. CASE ReadTopic
  <2>1. PICK name \in TopicNames, content \in TopicContents :
           /\ name = Head(tg_todo) /\ tg_todo = <<name>> \o Tail(tg_todo)
           /\ content \in topic_seen[name] \ {Missing} /\ Parses(content)
           /\ tg_parsed' = parse_msg_file(content)
           /\ Listed' = Append(Listed, name)
           /\ metadata' = Append(metadata, generate_metadata(name, parse_msg_file(content)))
           /\ aliases' = Append(aliases, Alias(name, parse_msg_file(content)))
           /\ headers' = [headers EXCEPT ![name] = Empty]
    BY <1>2, Reads
  <2>2. tg_pc = "files" /\ tg_pc' = "header" /\ Current /\ topic_seen' = topic_seen
    BY <1>2 DEF ReadTopic, Current
  <2> DEFINE n == Len(Listed)
             parsed == parse_msg_file(content)
  <2>3. /\ generate_metadata(name, parsed) \in Descriptions /\ Alias(name, parsed) \in Usings
    BY DEF Descriptions, Usings
  <2>4. /\ n \in Nat /\ Listed \in Seq(TopicNames) /\ DOMAIN Listed = 1 .. n
        /\ Len(Listed') = n + 1 /\ DOMAIN Listed' = 1 .. n + 1 /\ Listed'[n + 1] = name
        /\ \A i \in 1 .. n : Listed'[i] = Listed[i]
    BY <2>1, AppendTo DEF TopicTypes
  <2>5. /\ metadata'[n + 1] = generate_metadata(name, parsed)
        /\ \A i \in 1 .. n : metadata'[i] = metadata[i]
    <3> HIDE DEF Listed, parsed
    <3> QED
      BY <2>1, <2>3, AppendTo DEF TopicTypes, parsed
  <2>6. /\ aliases'[n + 1] = Alias(name, parsed)
        /\ \A i \in 1 .. n : aliases'[i] = aliases[i]
    <3> HIDE DEF Listed, parsed
    <3> QED
      BY <2>1, <2>3, AppendTo DEF TopicTypes, parsed
  <2>7. ASSUME NEW i \in 1 .. n PROVE Listed[i] \in TopicNames /\ Listed[i] # name
    <3>1. 1 \in DOMAIN Left /\ Left[1] = name
      BY <2>1, <2>2 DEF Left, TopicTypes
    <3> QED
      BY <2>2, <2>4, <3>1 DEF EachOnce
  <2> HIDE DEF Listed, n
  <2>8. ASSUME NEW i \in 1 .. n + 1
        PROVE  \E c \in topic_seen'[Listed'[i]] \ {Missing} : From(i, c)'
    <3>1. CASE i = n + 1
      <4>1. From(i, content)'
        BY <2>1, <2>2, <2>4, <2>5, <2>6, <3>1 DEF From
      <4> QED
        BY <2>1, <2>2, <2>4, <3>1, <4>1
    <3>2. CASE i \in 1 .. n
      <4>1. PICK c \in topic_seen[Listed[i]] \ {Missing} : From(i, c)
        BY <2>2, <2>4, <3>2 DEF OneContent
      <4>2. headers'[Listed[i]] = headers[Listed[i]] /\ i # n + 1
        BY <2>1, <2>4, <2>7, <3>2 DEF TopicTypes
      <4>3. Listed'[i] = Listed[i] /\ metadata'[i] = metadata[i] /\ aliases'[i] = aliases[i]
        BY <2>4, <2>5, <2>6, <3>2
      <4>4. From(i, c)'
        BY <2>2, <2>4, <4>1, <4>2, <4>3 DEF From
      <4> QED
        BY <2>2, <4>1, <4>3, <4>4
    <3> QED
      BY <2>4, <3>1, <3>2
  <2> QED
    BY <2>4, <2>8 DEF OneContent
<1>3. CASE WriteHeader
  <2> DEFINE n == Len(Listed)
  <2>1. /\ tg_pc = "header" /\ tg_pc' = "files" /\ Current
        /\ Listed' = Listed /\ metadata' = metadata /\ aliases' = aliases
        /\ tg_parsed' = tg_parsed /\ topic_seen' = topic_seen
    BY <1>3 DEF WriteHeader, tgLists, Listed, Current
  <2>2. /\ n \in Nat \ {0} /\ DOMAIN Listed = 1 .. n
        /\ Listed[n] = Head(tg_todo)
        /\ \A i \in 1 .. n : Listed[i] \in TopicNames
    BY <2>1 DEF Progress, TopicTypes, Last
  <2>3. headers' = [headers EXCEPT ![Listed[n]] = generate_header(Listed[n], tg_parsed)]
    BY <1>3, <2>2 DEF WriteHeader, HeaderName
  <2>4. headers'[Listed[n]] = generate_header(Listed[n], tg_parsed)
        /\ \A name \in TopicNames \ {Listed[n]} : headers'[name] = headers[name]
    <3> HIDE DEF Listed
    <3>1. Listed[n] \in HeaderNames /\ TopicNames \subseteq HeaderNames
      BY <2>2, TopicNamesAssumption
    <3> QED
      BY <2>3, <3>1 DEF TopicTypes
  <2>5. IsInjective(Listed)
    BY <2>1 DEF EachOnce
  <2> HIDE DEF Listed
  <2>6. ASSUME NEW i \in 1 .. n
        PROVE  \E c \in topic_seen'[Listed'[i]] \ {Missing} : From(i, c)'
    <3>1. PICK c \in topic_seen[Listed[i]] \ {Missing} : From(i, c)
      BY <2>1, <2>2 DEF OneContent
    <3>2. headers'[Listed[i]] = generate_header(Listed[i], parse_msg_file(c))
      <4>1. CASE i = n
        BY <2>1, <2>4, <3>1, <4>1 DEF From
      <4>2. CASE i # n
        <5>1. Listed[i] # Listed[n]
          <6>1. i \in DOMAIN Listed /\ n \in DOMAIN Listed
            BY <2>2
          <6> HIDE DEF n
          <6> QED
            BY <2>5, <4>2, <6>1 DEF IsInjective
        <5>2. headers[Listed[i]] = generate_header(Listed[i], parse_msg_file(c))
          BY <2>1, <3>1, <4>2 DEF From
        <5> QED
          BY <2>2, <2>4, <5>1, <5>2
      <4> QED
        BY <4>1, <4>2
    <3>3. From(i, c)'
      BY <2>1, <3>1, <3>2 DEF From
    <3> QED
      BY <2>1, <3>1, <3>3
  <2> QED
    BY <2>1, <2>2, <2>6 DEF OneContent
<1>4. CASE OpenOutput
  BY <1>4, OneContentKept DEF OpenOutput, tgLists, Listed, Current
<1>5. CASE WriteOutput
  BY <1>5, OneContentKept, OutputIs DEF WriteOutput, tgLists, Listed, Current
<1>6. CASE TopicsStopped
  BY <1>6 DEF TopicsStopped, OneContent, Current
<1>7. ASSUME NEW name \in TopicNames, NEW content \in TopicContents \cup {Missing},
             EditTopic(name, content)
      PROVE  OneContent'
  <2>1. \A other \in TopicNames : topic_seen[other] \subseteq topic_seen'[other]
    BY <1>7 DEF EditTopic, TopicTypes
  <2> QED
    BY <1>7, <2>1, OneContentKept DEF EditTopic, tgLists, Listed, Current
<1>8. CASE UNCHANGED tgVars
  BY <1>8, OneContentKept DEF tgVars, tgLists, Listed, Current
<1> QED
  BY <1>1, <1>2, <1>3, <1>4, <1>5, <1>6, <1>7, <1>8 DEF TopicNext

\* A file about all topics is the text that the run made for it,
\* before a step and after it.
LEMMA WrittenIs ==
    /\ Written(1) <=> outputs["TopicMetadata"] = metadata
    /\ Written(2) <=> outputs["DataTypes"] = Listed
    /\ Written(3) <=> outputs["TopicTypes"] = aliases
    /\ Written(1)' <=> outputs'["TopicMetadata"] = metadata'
    /\ Written(2)' <=> outputs'["DataTypes"] = Listed'
    /\ Written(3)' <=> outputs'["TopicTypes"] = aliases'
  BY DEF Written, Output, Listed

\* The files about all topics that have been written, after a step.
LEMMA NextOutputsWritten ==
    TopicTypes /\ Progress /\ OutputsWritten /\ [TopicNext]_tgVars => OutputsWritten'
<1> SUFFICES ASSUME TopicTypes, Progress, OutputsWritten, [TopicNext]_tgVars
             PROVE  OutputsWritten'
  OBVIOUS
<1>1. CASE StartTopics
  BY <1>1 DEF StartTopics, OutputsWritten
<1>2. CASE ReadTopic
  BY <1>2 DEF ReadTopic, OutputsWritten, Progress
<1>3. CASE WriteHeader
  BY <1>3 DEF WriteHeader, OutputsWritten, Progress
<1>4. CASE OpenOutput
  <2>1. /\ outputs' = [outputs EXCEPT ![Output[tg_out].file] = Empty] /\ tg_out' = tg_out
        /\ tg_pc = "files" /\ tg_pc' = "write"
        /\ Listed' = Listed /\ metadata' = metadata /\ aliases' = aliases
    BY <1>4 DEF OpenOutput, tgLists, Listed
  <2>2. ASSUME NEW k \in 1 .. tg_out - 1 PROVE Written(k)'
    <3>1. Written(k)
      BY <2>1 DEF OutputsWritten
    <3>2. k \in {1, 2} /\ (tg_out = 3 \/ (k = 1 /\ tg_out = 2))
      BY DEF Progress
    <3> HIDE DEF Listed
    <3> QED
      BY <2>1, <3>1, <3>2, WrittenIs, OutputIs DEF TopicTypes
  <2> QED
    BY <2>1, <2>2 DEF OutputsWritten
<1>5. CASE WriteOutput
  <2>1. /\ outputs' = [outputs EXCEPT ![Output[tg_out].file] = Output[tg_out].text]
        /\ tg_pc = "write"
        /\ \/ tg_out < 3 /\ tg_out' = tg_out + 1 /\ tg_pc' = "files"
           \/ tg_out = 3 /\ tg_pc' = "idle"
        /\ Listed' = Listed /\ metadata' = metadata /\ aliases' = aliases
    BY <1>5, OutputIs DEF WriteOutput, tgLists, Listed, Progress
  <2>2. ASSUME NEW k \in 1 .. tg_out PROVE Written(k)'
    <3>1. k = tg_out \/ Written(k)
      BY <2>1 DEF OutputsWritten, Progress
    <3>2. k \in {1, 2, 3} /\ tg_out \in {1, 2, 3}
      BY DEF Progress
    <3> HIDE DEF Listed
    <3>3. CASE tg_out = 1
      BY <2>1, <3>1, <3>2, <3>3, WrittenIs, OutputIs DEF TopicTypes
    <3>4. CASE tg_out = 2
      BY <2>1, <3>1, <3>2, <3>4, WrittenIs, OutputIs DEF TopicTypes
    <3>5. CASE tg_out = 3
      BY <2>1, <3>1, <3>2, <3>5, WrittenIs, OutputIs DEF TopicTypes
    <3> QED
      BY <3>2, <3>3, <3>4, <3>5
  <2>3. tg_pc' # "idle" => \A k \in 1 .. tg_out' - 1 : Written(k)'
    BY <2>1, <2>2 DEF Progress
  <2>4. tg_pc' = "idle" => \A k \in 1 .. 3 : Written(k)'
    BY <2>1, <2>2
  <2> QED
    BY <2>3, <2>4 DEF OutputsWritten
<1>6. CASE TopicsStopped
  BY <1>6 DEF TopicsStopped, OutputsWritten
<1>7. ASSUME NEW name \in TopicNames, NEW content \in TopicContents \cup {Missing},
             EditTopic(name, content)
      PROVE  OutputsWritten'
  BY <1>7 DEF EditTopic, tgLists, OutputsWritten, Written, Output
<1>8. CASE UNCHANGED tgVars
  BY <1>8 DEF tgVars, tgLists, OutputsWritten, Written, Output
<1> QED
  BY <1>1, <1>2, <1>3, <1>4, <1>5, <1>6, <1>7, <1>8 DEF TopicNext

\* A header that is there stays, and one that is not missing is there.
LEMMA HeadersStay ==
    ASSUME TopicTypes, Progress, OneContent, [TopicNext]_tgVars, NEW name \in TopicNames,
           headers[name] # Missing
    PROVE  headers'[name] # Missing
<1> USE MarksAssumption, TopicNamesAssumption
<1>1. CASE ReadTopic
  <2>1. PICK other \in TopicNames : headers' = [headers EXCEPT ![other] = Empty]
    BY <1>1, Reads
  <2> QED
    BY <2>1 DEF TopicTypes
<1>2. CASE WriteHeader
  <2> DEFINE n == Len(Listed)
  <2>1. /\ n \in DOMAIN Listed /\ Listed[n] = Head(tg_todo) /\ Listed[n] \in TopicNames
        /\ tg_pc = "header"
    BY <1>2 DEF WriteHeader, Progress, TopicTypes, Last
  <2>2. PICK content \in topic_seen[Listed[n]] \ {Missing} : From(n, content)
    BY <2>1 DEF OneContent, Current
  <2>3. content \in TopicContents /\ Parses(content) /\ tg_parsed = parse_msg_file(content)
    BY <2>1, <2>2 DEF From, TopicTypes
  <2>4. headers' = [headers EXCEPT ![Listed[n]] = generate_header(Listed[n], tg_parsed)]
    BY <1>2, <2>1 DEF WriteHeader, HeaderName
  <2> HIDE DEF Listed, n
  <2>5. Missing # generate_header(Listed[n], tg_parsed)
    BY <2>1, <2>3
  <2> QED
    BY <2>4, <2>5 DEF TopicTypes
<1>3. CASE ~ReadTopic /\ ~WriteHeader
  <2>1. headers' = headers
    BY <1>3 DEF TopicNext, tgVars, StartTopics, OpenOutput, WriteOutput, TopicsStopped,
                EditTopic
  <2> QED
    BY <2>1
<1> QED
  BY <1>1, <1>2, <1>3

\* Every step leaves DataTypes.h as it is, empties it, or fills it with the
\* names listed.
LEMMA DataTypesAfter ==
    ASSUME TopicTypes, Progress, [TopicNext]_tgVars
    PROVE  \/ outputs'["DataTypes"] = outputs["DataTypes"]
           \/ outputs'["DataTypes"] = Empty
           \/ outputs'["DataTypes"] = Listed /\ Current
<1>1. CASE OpenOutput
  BY <1>1, OutputIs DEF OpenOutput, TopicTypes, Progress
<1>2. CASE WriteOutput
  <2>1. Current /\ tg_out \in {1, 2, 3}
    BY <1>2 DEF WriteOutput, Current, Progress
  <2>2. outputs' = [outputs EXCEPT ![Output[tg_out].file] = Output[tg_out].text]
    BY <1>2 DEF WriteOutput
  <2>3. DOMAIN outputs = {"TopicMetadata", "DataTypes", "TopicTypes"}
    BY DEF TopicTypes
  <2> HIDE DEF Listed
  <2> QED
    BY <2>1, <2>2, <2>3, OutputIs
<1>3. CASE ~OpenOutput /\ ~WriteOutput
  BY <1>3 DEF TopicNext, tgVars, StartTopics, ReadTopic, WriteHeader, TopicsStopped, EditTopic
<1> QED
  BY <1>1, <1>2, <1>3

\* A header that is included, or is going to be, is there after a step.
LEMMA NextHeadersThere ==
    TopicTypes /\ Progress /\ OneContent /\ HeadersThere /\ [TopicNext]_tgVars => HeadersThere'
<1> SUFFICES ASSUME TopicTypes, Progress, OneContent, HeadersThere, [TopicNext]_tgVars
             PROVE  HeadersThere'
  OBVIOUS
<1>1. \A i \in DOMAIN Listed : Listed[i] \in TopicNames
  BY DEF TopicTypes
<1>2. \/ Listed' = Listed /\ (Current' => Current)
      \/ Listed' = << >>
      \/ \E name \in TopicNames :
            Listed' = Append(Listed, name) /\ Current /\ headers'[name] # Missing
  <2>1. CASE StartTopics
    BY <2>1 DEF StartTopics, Listed
  <2>2. CASE ReadTopic
    <3>1. PICK name \in TopicNames :
             Listed' = Append(Listed, name) /\ headers' = [headers EXCEPT ![name] = Empty]
      BY <2>2, Reads
    <3>2. headers'[name] # Missing
      BY <3>1, MarksAssumption, TopicNamesAssumption DEF TopicTypes
    <3>3. Current
      BY <2>2 DEF ReadTopic, Current
    <3> QED
      BY <3>1, <3>2, <3>3
  <2>3. CASE WriteHeader \/ OpenOutput \/ WriteOutput
    BY <2>3 DEF WriteHeader, OpenOutput, WriteOutput, tgLists, Listed, Current
  <2>4. CASE TopicsStopped
    BY <2>4 DEF TopicsStopped, tgLists, Listed, Current
  <2>5. ASSUME NEW name \in TopicNames, NEW content \in TopicContents \cup {Missing},
               EditTopic(name, content)
        PROVE  Listed' = Listed /\ (Current' => Current)
    BY <2>5 DEF EditTopic, tgLists, Listed, Current
  <2>6. CASE UNCHANGED tgVars
    BY <2>6 DEF tgVars, tgLists, Listed, Current
  <2> QED
    BY <2>1, <2>2, <2>3, <2>4, <2>5, <2>6 DEF TopicNext
<1>3. ASSUME Current, NEW i \in DOMAIN Listed PROVE headers'[Listed[i]] # Missing
  BY <1>1, <1>3, HeadersStay DEF HeadersThere
<1>4. ASSUME Current', NEW i \in DOMAIN Listed' PROVE headers'[Listed'[i]] # Missing
  <2>1. CASE Listed' = Listed /\ (Current' => Current)
    BY <1>3, <1>4, <2>1
  <2>2. CASE Listed' = << >>
    BY <1>4, <2>2
  <2>3. ASSUME NEW name \in TopicNames, Listed' = Append(Listed, name), Current,
               headers'[name] # Missing
        PROVE  headers'[Listed'[i]] # Missing
    <3>1. Listed \in Seq(TopicNames)
      BY DEF TopicTypes
    <3>2. (i \in 1 .. Len(Listed) /\ Listed'[i] = Listed[i]) \/ Listed'[i] = name
      BY <1>4, <2>3, <3>1, AppendTo
    <3> QED
      BY <1>3, <2>3, <3>1, <3>2
  <2> QED
    BY <1>2, <2>1, <2>2, <2>3
<1>5. IncludedHeadersExist'
  <2> SUFFICES ASSUME outputs'["DataTypes"] \notin {Missing, Empty},
                      NEW i \in DOMAIN outputs'["DataTypes"]
               PROVE  headers'[outputs'["DataTypes"][i]] # Missing
    BY DEF IncludedHeadersExist
  <2>1. CASE outputs'["DataTypes"] = outputs["DataTypes"]
    <3>1. outputs["DataTypes"] \in Seq(TopicNames) /\ i \in DOMAIN outputs["DataTypes"]
      BY <2>1 DEF TopicTypes
    <3>2. outputs["DataTypes"][i] \in TopicNames
      BY <3>1
    <3>3. headers[outputs["DataTypes"][i]] # Missing
      BY <2>1, <3>1 DEF HeadersThere, IncludedHeadersExist
    <3> QED
      BY <2>1, <3>2, <3>3, HeadersStay
  <2>2. CASE outputs'["DataTypes"] = Listed /\ Current
    BY <1>3, <2>2
  <2> QED
    BY <2>1, <2>2, DataTypesAfter
<1> QED
  BY <1>4, <1>5 DEF HeadersThere

\* Every step keeps TopicInv.
LEMMA TopicInvNext == TopicInv /\ [TopicNext]_tgVars => TopicInv'
  BY NextTopicTypes, NextProgress, NextEachOnce, NextOneContent, NextOutputsWritten,
     NextHeadersThere DEF TopicInv

\* The invariant holds always.
LEMMA TopicInvAlways == TopicSpec => []TopicInv
  BY TopicInvInit, TopicInvNext, PTL DEF TopicSpec

\* After a run that ended well, the four kinds of headers agree.
LEMMA TopicInvImplies == TopicInv => TopicHeadersAgree
<1> SUFFICES ASSUME TopicInv, tg_result = "ok" PROVE TopicHeadersAgree
  BY DEF TopicHeadersAgree
<1>1. tg_pc = "idle" /\ Current
  BY DEF TopicInv, Progress, Current
<1>2. /\ outputs["TopicMetadata"] = metadata /\ outputs["DataTypes"] = Listed
      /\ outputs["TopicTypes"] = aliases
  BY <1>1, WrittenIs DEF TopicInv, OutputsWritten
<1>3. /\ Listed \in Seq(TopicNames) /\ Len(metadata) = Len(Listed)
      /\ Len(aliases) = Len(Listed) /\ Left = << >>
  BY <1>1 DEF TopicInv, TopicTypes, Progress, Left
<1>4. /\ IsInjective(Listed)
      /\ \A name \in TopicNames : Missing \notin topic_seen[name] => name \in Range(Listed)
  BY <1>1, <1>3 DEF TopicInv, EachOnce, Range
<1>5. ASSUME NEW i \in DOMAIN Listed
      PROVE  \E content \in topic_seen[Listed[i]] \ {Missing} :
                /\ Parses(content)
                /\ metadata[i] = generate_metadata(Listed[i], parse_msg_file(content))
                /\ headers[Listed[i]] = generate_header(Listed[i], parse_msg_file(content))
                /\ aliases[i].struct = Listed[i]
                /\ aliases[i].queued = (metadata[i].QUEUE_LENGTH # None)
  <2>1. PICK content \in topic_seen[Listed[i]] \ {Missing} : From(i, content)
    BY <1>1 DEF TopicInv, OneContent
  <2> DEFINE parsed == parse_msg_file(content)
  <2>2. /\ Parses(content) /\ metadata[i] = generate_metadata(Listed[i], parsed)
        /\ aliases[i] = Alias(Listed[i], parsed)
        /\ headers[Listed[i]] = generate_header(Listed[i], parsed)
    BY <1>1, <2>1 DEF From
  <2> HIDE DEF parsed
  <2>3. /\ aliases[i].struct = Listed[i] /\ aliases[i].queued = (parsed.queue_len # None)
        /\ metadata[i].QUEUE_LENGTH = parsed.queue_len
    BY <2>2 DEF Alias, generate_metadata
  <2> QED
    BY <2>2, <2>3 DEF parsed
<1> HIDE DEF Listed
<1> QED
  BY <1>2, <1>3, <1>4, <1>5 DEF TopicHeadersAgree

\* After a run that ended well, the struct, the metadata and the alias of every
\* topic come from one content of its file, whatever was edited or deleted in
\* the meantime (generate_topic.py:131, :133, :136, :144).
THEOREM TopicHeadersCorrect == TopicSpec => []TopicHeadersAgree
  BY TopicInvAlways, TopicInvImplies, PTL

\* Every header that DataTypes.h includes is on disk, at every moment of every
\* run, because main writes it after the last of them (generate_topic.py:143,
\* :155).
THEOREM IncludesThere == TopicSpec => []IncludedHeadersExist
<1>1. TopicInv => IncludedHeadersExist
  BY DEF TopicInv, HeadersThere
<1> QED
  BY <1>1, TopicInvAlways, PTL
=============================================================================
