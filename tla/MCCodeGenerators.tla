-------------------------- MODULE MCCodeGenerators --------------------------
(***************************************************************************)
(* The three code generators of the repository: topics, parameters, and    *)
(* the functions of the EKF.  They share no file and no state, so one of   *)
(* them runs in each behaviour.                                            *)
(***************************************************************************)
EXTENDS TopicGenerator, ParamGenerator, EkfFunctions

CONSTANT Seeds    \* one argument of the EKF's functions for each

VARIABLE generator    \* the generator of this behaviour

MCBeginning ==
    [key \in {"#", "QUEUE_LENGTH", "TOPIC_NAME"} |->
        CASE key = "#"            -> {"#", "#QUEUE_LENGTH"}
          [] key = "QUEUE_LENGTH" -> {"QUEUE_LENGTH", "QUEUE_LENGTH_MAX"}
          [] key = "TOPIC_NAME"   -> {"TOPIC_NAME"}]

\* A queued topic under another name; an unqueued one with comments, a blank
\* line, a type of its own and a line of one word; a length given twice, the
\* second time by a longer word; a keyword without its argument.
MCTopicContents ==
    {<< <<"QUEUE_LENGTH", "8">>, <<"TOPIC_NAME", "b">>, <<"float32", "x">> >>,
     << <<"#", "QUEUE_LENGTH">>, <<"#QUEUE_LENGTH", "2">>, << >>, <<"Pose", "p">>, <<"lonely">> >>,
     << <<"QUEUE_LENGTH", "8">>, <<"uint8", "id">>, <<"QUEUE_LENGTH_MAX", "4">> >>,
     << <<"QUEUE_LENGTH">> >>}

MCUpper == [ekf |-> "EKF", Ekf |-> "EKF", imu |-> "IMU", unknown |-> "UNKNOWN"]

\* A module with two parameters, which may change places; one whose name and
\* parameter, in other letters, come to the same as one of them; two modules
\* without a name.
MCYamlContents ==
    {[module |-> 1, module_name |-> <<"ekf">>,
      definitions |-> << <<"ROLL", "P">>, <<"IMU", "GAIN">> >>],
     [module |-> 1, module_name |-> <<"ekf">>,
      definitions |-> << <<"IMU", "GAIN">>, <<"ROLL", "P">> >>],
     [module |-> 2, module_name |-> <<"Ekf", "imu">>, definitions |-> << <<"GAIN">> >>],
     [module |-> 3, module_name |-> << >>, definitions |-> << <<"ROLL", "P">> >>],
     [module |-> 4, module_name |-> << >>, definitions |-> << <<"ROLL", "P">> >>]}

\* A number of the field for each place of an argument.
Pick(seed, i) ==
    ((((seed * seed * 37 + 11 * i * i + 5) % Prime) * ((i * 29 + seed * 13 + 7) % Prime))
        + i * 101) % Prime

MCEkfArguments ==
    {[state     |-> [i \in Storage |-> Pick(seed, i)],
      P         |-> [i \in Tangent |-> [j \in Tangent |-> Pick(seed, 100 + 15 * i + j)]],
      accel     |-> [i \in Axes |-> Pick(seed, 20 + i)],
      accel_var |-> [i \in Axes |-> Pick(seed, 23 + i)],
      gyro      |-> [i \in Axes |-> Pick(seed, 26 + i)],
      gyro_var  |-> Pick(seed, 29),
      dt        |-> Pick(seed, 30),
      meas      |-> [i \in Axes |-> Pick(seed, 31 + i)],
      mag_ref   |-> [i \in Axes |-> Pick(seed, 34 + i)],
      R         |-> Pick(seed, 37)] : seed \in Seeds}

MCInit ==
    /\ generator \in {"topics", "parameters", "ekf"}
    /\ TopicInit /\ ParamInit /\ EkfInit
    /\ generator = "topics"     \/ topic_files = [name \in TopicNames |-> Missing]
    /\ generator = "parameters" \/ yaml_files = [path \in YamlPaths |-> NoFile]
    /\ generator = "ekf"        \/ ekf_arg = CHOOSE arg \in EkfArguments : TRUE

MCNext ==
    /\ UNCHANGED generator
    /\ \/ generator = "topics" /\ TopicNext /\ UNCHANGED <<pgVars, ekfVars>>
       \/ generator = "parameters" /\ ParamNext /\ UNCHANGED <<tgVars, ekfVars>>
       \/ generator = "ekf" /\ EkfNext /\ UNCHANGED <<tgVars, pgVars>>
=============================================================================
