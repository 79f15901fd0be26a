---------------------------- MODULE GazeboBridge ----------------------------
(***************************************************************************)
(* scripts/simulation/gazebo/infinity_gazebo_bridge.py: the process        *)
(* between the simulator, which publishes sensor messages and takes motor  *)
(* speeds, and the autopilot, which takes HIL_SENSOR, HIL_GPS and          *)
(* DISTANCE_SENSOR and sends HIL_ACTUATOR_CONTROLS, over UDP.              *)
(*                                                                         *)
(* Three threads: main constructs the bridge, starts the receiver and      *)
(* waits for Ctrl-C; the receiver answers heartbeats and forwards motor    *)
(* commands; Gazebo's transport delivers sensor messages, one after the    *)
(* other, in a thread of its own, from the moment a topic is subscribed.   *)
(* A sensor message is a number, counted per sensor; conversions of units  *)
(* keep it recognisable and are left out, except where a value may be too  *)
(* large for the field it is sent in: the time and the distance of         *)
(* DISTANCE_SENSOR.  (HIL_SENSOR and HIL_GPS have 64 bits for the time,    *)
(* and HIL_GPS room for 327 m/s.)                                          *)
(***************************************************************************)
EXTENDS Integers, Sequences

CONSTANTS
    NUM_MOTORS,      \* motors of the model
    FULL,            \* the control 1.0, in the unit of the model
    Controls,        \* the values a control may have, NaN or an integer
    NaN,             \* not a number
    LaserScans,      \* scans of the lidar: sequences of distances in cm or NotFinite
    EpochTimes,      \* what the host's clock may show, in units of 2^16 ms since 1970
    NotFinite,       \* a distance of inf or nan
    Nothing,         \* None
    MaxMessages,     \* bound on the messages from Gazebo
    MaxArrivals,     \* bound on the MAVLink messages that arrive
    MaxInbox         \* the socket's buffer

ASSUME MotorAssumption == NUM_MOTORS \in Nat /\ FULL \in Nat
ASSUME ControlAssumption == NaN \notin Int /\ Controls \subseteq Int \cup {NaN}
ASSUME BoundAssumption == MaxMessages \in Nat /\ MaxArrivals \in Nat /\ MaxInbox \in Nat
ASSUME ScanAssumption ==
    /\ NotFinite \notin Int
    /\ LaserScans \subseteq Seq(Int \cup {NotFinite})
ASSUME TimeAssumption == EpochTimes \subseteq Nat

Motors == 1 .. NUM_MOTORS

\* The sensors in the order of their subscriptions.
GZ_TOPICS == <<"imu", "gps", "baro", "mag", "lidar">>

\* What arrives from the autopilot.  Messages of other types are discarded by
\* recv_match.
Heartbeat == [type |-> "HEARTBEAT"]
Other     == [type |-> "OTHER"]
Commands  == [type : {"HIL_ACTUATOR_CONTROLS"}, controls : [Motors -> Controls]]
Messages  == {Heartbeat, Other} \cup Commands

VARIABLES
    alive,           \* the process runs
    _running,        \* self._running
    main,            \* "connect" (wait_heartbeat), "subscribe", "run", "stopped"
    subscribed,      \* how many topics are subscribed
    peer,            \* the address of the autopilot is known
    inbox,           \* the socket's buffer
    rx, rx_msg,      \* the receiver: "none", "loop", "recv", "handle", "ended"
    motors,          \* the speeds published last
    cb,              \* the transport thread: "idle" or the next read of _send_hil_sensor
    _imu, _mag, _baro,     \* the cached samples
    field, pressure, \* locals of _send_hil_sensor: mx, my, mz; abs_pressure_pa
    frame,           \* the HIL_SENSOR sent last
    gps, distance,   \* what HIL_GPS and DISTANCE_SENSOR carried last
    range_lost,      \* history: a finite distance was not sent
    heard, answered, \* heartbeats that arrived and that were answered
    arrivals, messages,    \* counters for the bounds
    unaddressed,     \* history: something was sent without an address
    after_stop       \* history: messages handled after Ctrl-C

mainVars == <<_running, main, subscribed>>
linkVars == <<peer, inbox, heard, arrivals>>
rxVars   == <<rx, rx_msg, motors, answered, after_stop>>
hilVars  == <<cb, _imu, field, pressure, frame>>
gzVars   == <<_mag, _baro, gps, distance, range_lost, messages>>
vars     == <<alive, mainVars, linkVars, rxVars, hilVars, gzVars, unaddressed>>

Field(n) == [axis \in 1 .. 3 |-> n]
NoFrame  == [imu |-> 0, mag |-> Field(0), baro |-> 0]

Init ==
    /\ alive = TRUE /\ _running = TRUE /\ main = "connect" /\ subscribed = 0
    /\ peer = FALSE /\ inbox = << >>
    /\ rx = "none" /\ rx_msg = Nothing /\ motors = Nothing
    /\ cb = "idle" /\ _imu = 0 /\ _mag = 0 /\ _baro = 0
    /\ field = Field(0) /\ pressure = 0
    /\ frame = NoFrame /\ gps = 0 /\ distance = Nothing /\ range_lost = FALSE
    /\ heard = 0 /\ answered = 0 /\ arrivals = 0 /\ messages = 0
    /\ unaddressed = FALSE /\ after_stop = 0

\* A message is written to the socket: without an address it is dropped.
Sends == unaddressed' = (unaddressed \/ ~peer)

(***************************************************************************)
(* The socket                                                              *)
(***************************************************************************)

\* A message arrives; nothing promises that every message does, or in order.
Arrive(m) ==
    /\ alive
    /\ arrivals < MaxArrivals /\ Len(inbox) < MaxInbox
    /\ arrivals' = arrivals + 1
    /\ inbox' = Append(inbox, m)
    /\ heard' = IF m = Heartbeat THEN heard + 1 ELSE heard
    /\ UNCHANGED <<alive, mainVars, peer, rxVars, hilVars, gzVars, unaddressed>>

\* recv_msg takes the next message and remembers its sender.
Receives ==
    /\ inbox # << >>
    /\ inbox' = Tail(inbox)
    /\ peer' = TRUE
    /\ UNCHANGED <<heard, arrivals>>

(***************************************************************************)
(* The main thread                                                         *)
(***************************************************************************)

\* wait_heartbeat: everything before the first heartbeat is discarded, and
\* the heartbeat is not answered.
WaitHeartbeat ==
    /\ alive /\ main = "connect"
    /\ Receives
    /\ main' = IF Head(inbox) = Heartbeat THEN "subscribe" ELSE "connect"
    /\ UNCHANGED <<alive, _running, subscribed, rxVars, hilVars, gzVars, unaddressed>>

\* Mutant: the topics are subscribed without waiting for the autopilot.
Subscribe_AtOnce ==
    /\ alive /\ main \in {"connect", "subscribe"}
    /\ subscribed < Len(GZ_TOPICS)
    /\ subscribed' = subscribed + 1
    /\ UNCHANGED <<alive, _running, main, linkVars, rxVars, hilVars, gzVars, unaddressed>>

\* self.gz.subscribe, one topic after the other.
Subscribe ==
    /\ alive /\ main = "subscribe"
    /\ subscribed < Len(GZ_TOPICS)
    /\ subscribed' = subscribed + 1
    /\ UNCHANGED <<alive, _running, main, linkVars, rxVars, hilVars, gzVars, unaddressed>>

\* run starts the receiver.
StartReceiver ==
    /\ alive /\ main = "subscribe" /\ subscribed = Len(GZ_TOPICS)
    /\ main' = "run"
    /\ rx' = "loop"
    /\ UNCHANGED <<alive, _running, subscribed, linkVars, rx_msg, motors, answered, after_stop,
                   hilVars, gzVars, unaddressed>>

\* Ctrl-C in the waiting loop is caught.
Interrupted ==
    /\ alive /\ main = "run"
    /\ main' = "stopped"
    /\ _running' = FALSE
    /\ UNCHANGED <<alive, subscribed, linkVars, rxVars, hilVars, gzVars, unaddressed>>

\* The process ends: run has returned, or Ctrl-C came in the constructor.  The
\* receiver is a daemon thread and ends with it, wherever it is.
ProcessEnds ==
    /\ alive /\ main # "run"
    /\ alive' = FALSE
    /\ UNCHANGED <<mainVars, linkVars, rxVars, hilVars, gzVars, unaddressed>>

(***************************************************************************)
(* The receiver                                                            *)
(***************************************************************************)

\* Mutant: the flag is not tested.
RxLoop_Forever ==
    /\ alive /\ rx = "loop"
    /\ rx' = "recv"
    /\ UNCHANGED <<alive, mainVars, linkVars, rx_msg, motors, answered, after_stop, hilVars,
                   gzVars, unaddressed>>

\* while self._running.
RxLoop ==
    /\ alive /\ rx = "loop"
    /\ rx' = IF _running THEN "recv" ELSE "ended"
    /\ UNCHANGED <<alive, mainVars, linkVars, rx_msg, motors, answered, after_stop, hilVars,
                   gzVars, unaddressed>>

\* Mutant: messages of any type are returned.
RxReceives_AnyType ==
    /\ alive /\ rx = "recv"
    /\ Receives
    /\ rx' = "handle" /\ rx_msg' = Head(inbox)
    /\ UNCHANGED <<alive, mainVars, motors, answered, after_stop, hilVars, gzVars, unaddressed>>

\* Mutant: only commands are returned.
RxReceives_NoHeartbeat ==
    /\ alive /\ rx = "recv"
    /\ Receives
    /\ IF Head(inbox) \notin Commands THEN UNCHANGED <<rx, rx_msg>>
                                       ELSE rx' = "handle" /\ rx_msg' = Head(inbox)
    /\ UNCHANGED <<alive, mainVars, motors, answered, after_stop, hilVars, gzVars, unaddressed>>

\* recv_match returns a message of the two types, or discards another.
RxReceives ==
    /\ alive /\ rx = "recv"
    /\ Receives
    /\ IF Head(inbox) = Other THEN UNCHANGED <<rx, rx_msg>>
                              ELSE rx' = "handle" /\ rx_msg' = Head(inbox)
    /\ UNCHANGED <<alive, mainVars, motors, answered, after_stop, hilVars, gzVars, unaddressed>>

\* The second is over.
RxTimesOut ==
    /\ alive /\ rx = "recv" /\ inbox = << >>
    /\ rx' = "loop"
    /\ UNCHANGED <<alive, mainVars, linkVars, rx_msg, motors, answered, after_stop, hilVars,
                   gzVars, unaddressed>>

\* Python's comparison, min and max: a comparison with NaN is false, and the
\* first argument wins unless the second is strictly better.
Less(a, b)  == a # NaN /\ b # NaN /\ a < b
py_min(a, b) == IF Less(b, a) THEN b ELSE a
py_max(a, b) == IF Less(a, b) THEN b ELSE a

\* Mutant: the value first, then the limits.
Norm_ValueFirst(control) == py_max(py_min(control, FULL), 0)

\* max(0.0, min(1.0, control)).
Norm(control) == py_max(0, py_min(FULL, control))

\* _send_motor_speeds.
RxCommand ==
    /\ alive /\ rx = "handle" /\ rx_msg # Heartbeat
    /\ motors' = [i \in Motors |-> Norm(rx_msg.controls[i])]
    /\ rx' = "loop"
    /\ rx_msg' = Nothing
    /\ after_stop' = IF _running THEN after_stop ELSE after_stop + 1
    /\ UNCHANGED <<alive, mainVars, linkVars, answered, hilVars, gzVars, unaddressed>>

\* heartbeat_send.
RxHeartbeat ==
    /\ alive /\ rx = "handle" /\ rx_msg = Heartbeat
    /\ Sends
    /\ answered' = answered + 1
    /\ rx' = "loop"
    /\ rx_msg' = Nothing
    /\ after_stop' = IF _running THEN after_stop ELSE after_stop + 1
    /\ UNCHANGED <<alive, mainVars, linkVars, motors, hilVars, gzVars>>

(***************************************************************************)
(* The transport thread                                                    *)
(***************************************************************************)

\* A message on a subscribed topic is handed to its callback, if the thread is
\* not in one.
Delivers(sensor) ==
    /\ alive /\ cb = "idle"
    /\ \E i \in 1 .. subscribed : GZ_TOPICS[i] = sensor
    /\ messages < MaxMessages
    /\ messages' = messages + 1
    /\ UNCHANGED <<mainVars, linkVars, rxVars>>

\* _on_imu, up to the test of self._mag.
OnImu ==
    /\ Delivers("imu")
    /\ _imu' = _imu + 1
    /\ cb' = "mag"
    /\ UNCHANGED <<alive, _mag, _baro, field, pressure, frame, gps, distance, range_lost,
                   unaddressed>>

\* Mutant: the barometer triggers HIL_SENSOR, too.
OnBaro_Sends ==
    /\ Delivers("baro")
    /\ _baro' = _baro + 1
    /\ cb' = "mag"
    /\ UNCHANGED <<alive, _imu, _mag, field, pressure, frame, gps, distance, range_lost,
                   unaddressed>>

OnBaro ==
    /\ Delivers("baro")
    /\ _baro' = _baro + 1
    /\ UNCHANGED <<alive, hilVars, _mag, gps, distance, range_lost, unaddressed>>

OnMag ==
    /\ Delivers("mag")
    /\ _mag' = _mag + 1
    /\ UNCHANGED <<alive, hilVars, _baro, gps, distance, range_lost, unaddressed>>

\* _on_gps: HIL_GPS.
OnGps ==
    /\ Delivers("gps")
    /\ gps' = gps + 1
    /\ Sends
    /\ UNCHANGED <<alive, hilVars, _mag, _baro, distance, range_lost>>

\* The reading in the middle of a scan.
Middle(ranges) == ranges[Len(ranges) \div 2 + 1]

\* Otherwise _on_lidar returns without sending anything.
Usable(ranges) == ranges # << >> /\ Middle(ranges) # NotFinite

\* struct.pack: time_boot_ms has 32 bits, current_distance 16.
Packs(time, dist_cm) == time < 2 ^ 16 /\ dist_cm \in 0 .. 2 ^ 16 - 1

\* _on_lidar: DISTANCE_SENSOR.  What does not fit raises struct.error before
\* anything is sent, and whether the process survives an exception in a
\* callback is up to the transport.
OnLidar(ranges, time) ==
    /\ Delivers("lidar")
    /\ \/ /\ ~Usable(ranges)
          /\ UNCHANGED <<alive, distance, range_lost, unaddressed>>
       \/ /\ Usable(ranges) /\ Packs(time, Middle(ranges))
          /\ distance' = Middle(ranges)
          /\ Sends
          /\ UNCHANGED <<alive, range_lost>>
       \/ /\ Usable(ranges) /\ ~Packs(time, Middle(ranges))
          /\ range_lost' = TRUE
          /\ alive' \in BOOLEAN
          /\ UNCHANGED <<distance, unaddressed>>
    /\ UNCHANGED <<hilVars, _mag, _baro, gps>>

\* Each component of the field is read from self._mag anew.
ReadMag(step, axis, next) ==
    /\ alive /\ cb = step
    /\ field' = [field EXCEPT ![axis] = _mag]
    /\ cb' = next
    /\ UNCHANGED <<alive, mainVars, linkVars, rxVars, _imu, pressure, frame, gzVars, unaddressed>>

ReadMagX == _mag # 0 /\ ReadMag("mag", 1, "mag y")
ReadMagY == ReadMag("mag y", 2, "mag z")
ReadMagZ == ReadMag("mag z", 3, "baro")

\* The simulated field.
NoMag ==
    /\ alive /\ cb = "mag" /\ _mag = 0
    /\ field' = Field(0)
    /\ cb' = "baro"
    /\ UNCHANGED <<alive, mainVars, linkVars, rxVars, _imu, pressure, frame, gzVars, unaddressed>>

\* self._baro.pressure, or the pressure at sea level.
ReadBaro ==
    /\ alive /\ cb = "baro"
    /\ pressure' = _baro
    /\ cb' = "send"
    /\ UNCHANGED <<alive, mainVars, linkVars, rxVars, _imu, field, frame, gzVars, unaddressed>>

SendHilSensor ==
    /\ alive /\ cb = "send"
    /\ frame' = [imu |-> _imu, mag |-> field, baro |-> pressure]
    /\ Sends
    /\ cb' = "idle"
    /\ UNCHANGED <<alive, mainVars, linkVars, rxVars, _imu, field, pressure, gzVars>>

(***************************************************************************)
(* The specification                                                       *)
(***************************************************************************)
Main     == WaitHeartbeat \/ Subscribe \/ StartReceiver
Receiver == RxLoop \/ RxReceives \/ RxTimesOut \/ RxCommand \/ RxHeartbeat
Sender   == ReadMagX \/ ReadMagY \/ ReadMagZ \/ NoMag \/ ReadBaro \/ SendHilSensor
Callback ==
    \/ OnImu \/ OnBaro \/ OnMag \/ OnGps
    \/ \E ranges \in LaserScans, time \in EpochTimes : OnLidar(ranges, time)

Next ==
    \/ Main \/ Interrupted \/ ProcessEnds
    \/ Receiver
    \/ Sender
    \/ Callback
    \/ \E m \in Messages : Arrive(m)

\* The constructor and the receiver's loop go on when they can; nobody is
\* obliged to send anything or to press Ctrl-C.
Fairness == WF_vars(Main) /\ WF_vars(Receiver)

Spec == Init /\ [][Next]_vars /\ Fairness

-----------------------------------------------------------------------------
Fields == [1 .. 3 -> Nat]
Frames == [imu : Nat, mag : Fields, baro : Nat]

\* Type invariant.
TypeOK ==
    /\ alive \in BOOLEAN /\ _running \in BOOLEAN
    /\ main \in {"connect", "subscribe", "run", "stopped"}
    /\ subscribed \in 0 .. Len(GZ_TOPICS)
    /\ peer \in BOOLEAN
    /\ inbox \in Seq(Messages) /\ Len(inbox) <= MaxInbox
    /\ rx \in {"none", "loop", "recv", "handle", "ended"}
    /\ rx = "handle" => rx_msg \in {Heartbeat} \cup Commands
    /\ cb \in {"idle", "mag", "mag y", "mag z", "baro", "send"}
    /\ _imu \in Nat /\ _mag \in Nat /\ _baro \in Nat
    /\ field \in Fields /\ pressure \in Nat
    /\ frame \in Frames
    /\ after_stop \in Nat

\* The messages HIL_SENSOR are a HilSensorStream: although each reading of the
\* caches is a step of its own (infinity_gazebo_bridge.py:127-145) and topics
\* are subscribed one by one, there is exactly one message per IMU sample, its
\* field is of one magnetometer sample, and no sample is older than another
\* that had arrived.  That no other callback comes between the readings is not
\* shown but assumed (cb = "idle" in Delivers: the transport has one thread).
Stream == INSTANCE HilSensorStream WITH mag <- _mag, baro <- _baro
HilSensorStreamSpec == Stream!Spec

\* Whatever the autopilot commands, out of range or not a number, a motor is
\* told a speed between 0 and MAX_RADS (infinity_gazebo_bridge.py:267).
MotorsWithinLimits == motors = Nothing \/ \A i \in Motors : motors[i] \in 0 .. FULL

\* Nothing is sent before the autopilot's address is known: a callback that
\* runs as soon as its topic is subscribed, while the constructor goes on with
\* the next one, does not write into the void.
EverythingAddressed == ~unaddressed

\* After Ctrl-C the receiver handles at most the one message it has in hand or
\* is waiting for: no stream of commands keeps the motors turning at will.
StopsWithinOneMessage == after_stop <= 1

\* infinity_gazebo_bridge.py:203 says that a scan is converted into a
\* DISTANCE_SENSOR: every scan with a finite reading in its middle.
ScansForwarded == ~range_lost

\* Every heartbeat after the first is answered, through any mixture of other
\* messages, unless the bridge is stopped.
HeartbeatsAnswered ==
    \A k \in 1 .. MaxArrivals :
        heard > k ~> answered >= k \/ ~_running \/ ~alive
=============================================================================
