# Infinity-Autopilot in TLA+

TLA+ modules of Infinity-Autopilot (a flight controller on Zephyr): its
middleware, its code generators and its bridge to the simulator; the TLC
configurations that check them on small instances, and proofs for the TLA+
proof system of what holds for every instance.  Paths are relative
to the repository.

## 1. The system

Sensors raise interrupts; an interrupt submits a *work item* to a work queue;
the queue's thread runs the item's handler, which reads the sensor and
*publishes* a message on a *topic*.  A topic keeps messages and wakes the work
items registered with it; their handlers, and periodic tasks, *poll* the topic
through a subscriber object.  Everything else (HAL, scheduler, parameters,
logger) starts or configures these threads, or moves data in and out.

Two generators run when the firmware is built: one writes the topics' C++
types from `.topic` files, the other the numbering and the table of the
parameters from the modules' `module.yaml`.  A third writes the functions of
the EKF from a derivation in symforce.  In simulation a bridge process stands
between Gazebo and the autopilot.

    ISR --submit--> fast_sensors_wq --publish--> RawAcc/RawGyro topic
                                                   |  ring of messages
                                                   +--submit--> ImuPreprocessor
    task --publish--> SRIMBTopic --submit--> handlers --poll--> SRIMBTopic

| component | state | operations | interacts through | what is hard | what makes it correct |
|---|---|---|---|---|---|
| `lib/ringbuffer/RingBuffer.hpp` | storage, `_head`, `_tail`, `_count`, mutex | `push`, `pop`, `get`, `push_batch`, `drain`, `drain_all`, `peek`, `reset`, `reallocate` | calls from any thread | two-part copies over the end of the array, eviction, failing allocation, a read after the unlock | head, tail and count agree; a bounded FIFO that forgets its oldest elements |
| `lib/ringbuffer/SPSCRingBuffer.hpp` | `head_`, `tail_` (atomics), slots | `push`, `pop` | one producer, one consumer, no lock | stale indices under acquire/release | the threads never share a slot; bounded FIFO |
| `SRIMB/SRIMBQueueTopic.hpp` | ring of (message, generation), newest and oldest generation, work items with counters | `publish`, `poll`, `updated`, `register_work_item`, `set_required_updates` | mutex; submits to work queues; `SRIMBSub` objects | index arithmetic from generations, overtaken subscribers, merged notifications | readers see the published log in order and learn of gaps; no wake-up is lost |
| `SRIMB/SRIMB.hpp` | newest message, generation, work items | `publish`, `poll`, `updated`, `register_work_item` | mutex; submits after the unlock | publishers, submit loops and handlers interleave | whole, newest messages; no lost wake-up; delivery |
| `scheduler/WorkItem.hpp`, `WorkQueue.hpp` | Zephyr `k_work`, `k_work_q` | `submit`, `submitTo`, `start` | queue threads | a submit is absorbed while the item is queued, not while it runs | see the topics |
| `scheduler/Scheduler.hpp`, `ITask.hpp` | task table | `addTask`, `initAllTasks`, `start`, `suspendAll`, `resumeAll` | threads | creation before `_tid`, self-suspension, a suspended mutex holder | every initialised task can be suspended and resumed |
| `params_manager/*` | RAM cache, flash | `init`, `get`, `set`, `load` | Zephyr settings and its callback | failing saves, restarts, short records | after a restart a parameter has its saved value or its default |
| `src/drivers/HAL.*` | arrays of driver instances | `register_*`, `get_*_instance`, `init` | drivers | limits, unregistered slots | counts stay within the arrays, init touches only registered drivers |
| BMI088 drivers | configuration, work items | ISR, handler, `init` | interrupt, topics | absorbed submits, failing fetch | a published sample is a fetched one; every interrupt is followed by a fetch |
| IMU manager, preprocessor | subscribers, registrations | constructor, handler | topics | boot order | the registrations fit the topics |
| `scripts/srimb/generate_topic.py` | the headers on disk, lists of the run | parse, write one header per topic and three about all | the `.topic` files, the compiler | files edited during a run, a run that stops half-way | the headers agree; none includes a missing one |
| `scripts/params/generate_params.py` | all parameters, two files | collect, write enum and table | `module.yaml` files, the compiler, records in flash | the numbering changes with every build, the records outlive it; names may collide | a saved value reaches another parameter only if both have one full name, in two builds |
| `src/modules/EKF/python` | - | derivation, six generated functions | symforce | long generated expressions, two definitions of the error | the functions compute the derivation; both errors are one |
| `scripts/simulation/gazebo` (bridge) | cached samples, `_running`, address of the autopilot | constructor, `run`, five callbacks, `_rx_loop` | Gazebo's transport thread, UDP | callbacks run before the constructor ends; caches are replaced while a message is assembled; Ctrl-C anywhere | one whole, newest HIL_SENSOR per IMU sample; motors in range; prompt stop |
| logger, log backends, telemetry, SITL, EKF (C++), filters, test modules | - | - | - | - | section 8 |

## 2. The modules

| module | what it is |
|---|---|
| `RingBufferOps` | the methods of `RingBuffer` as operators on a ring record |
| `RingBuffer` | the class with its callers, one action per method |
| `OverwritingQueue` | abstract: a bounded FIFO queue that forgets its oldest elements |
| `SRIMBQueueTopic` | the queued topic; its ring is a `RingBufferOps` ring |
| `TopicLog` | abstract: a log of messages and a cursor per subscriber |
| `SRIMBTopic` | the latest-value topic with publishers, tasks and work queue threads |
| `LatestValue` | abstract: a read hands out the newest message, at most once |
| `SPSCRingBuffer` | the lock-free buffer, one action per memory access |
| `BoundedFifo` | abstract: a bounded FIFO between two threads |
| `ParamManager` | the parameters: cache, flash, settings subsystem, losses of power |
| `TopicGenerator` | the topic generator, file by file |
| `ParamGenerator` | the parameter generator, the firmware built from it, and the records in flash |
| `DualNumbers`, `EkfState`, `EkfDerivation` | the arithmetic, the layout of the state, and the derivation of the EKF |
| `EkfGenerated` | the six generated functions |
| `EkfFunctions` | calls of the generated functions beside the derivation |
| `GazeboBridge` | the bridge: main, receiver and transport thread |
| `HilSensorStream` | abstract: the stream of HIL_SENSOR messages the autopilot relies on |
| `ScriptProofs` | lemmas and theorems about `GazeboBridge`, `ParamGenerator` and `TopicGenerator` |
| `EkfProofs` | lemmas and theorems about `EkfFunctions` and the modules it extends |
| other `*Proofs` | lemmas and theorems about the module they are named after |
| `MC*` | instances for TLC |

### How state and actions correspond to the code

**RingBuffer.**  The record `rb` is the class's fields without underscores.
Every method locks the ring's mutex over all its accesses, so a method is one
action; the early returns are actions of their own (`PopEmpty`) or conditions
in the operator (`drain`).  `CopyIn` and `CopyOut` keep the split into two
`memcpy`s.  `drain_all` is two actions, since it reads `_count` after the
unlock.  `_allocate` may fail: the ring may start without storage (`Init`) and
lose it (`ReallocateFails`).  No method tests `check()`.  The reads return early
when `_count` is 0, with storage or without, and so do their actions
(`Readable`).  What would follow a null pointer or divide by 0 has no next
state: a push without storage, and a read without storage while `_count` still
has the old number.  Neither has a batch longer than the storage, which
`push_batch` would copy past the array.  These calls are the callers'
obligation, guards of the actions, and `QueueSpec` says nothing of them; that
`_count` can have an old number is shown by `ring_count`.  One
caller at a time is in the window of `drain_all`; more would be independent of
each other, since the window writes nothing.

**SRIMBQueueTopic.**  All methods run under the topic's mutex, the submits of
`publish` included, so each is one action.  `Publish` pushes, reads the oldest
generation back from the tail slot, counts the update for every work item and
submits the due ones.  `PollMessage` computes the slot as the code does, from
the subscriber's generation, `oldest_generation` and the tail.  Generations are
64-bit and do not wrap in the lifetime of a vehicle; `updates_count` is 8-bit
and does (`% 256`).  The k_work of an item is one bit: queued or not;
`StartItem` is the queue's thread taking it.  `published`, `since` and
`started` are history variables: they guard nothing.

**SRIMBTopic.**  Here the interleaving is the point: `publish` is lock and
first word, second word and unlock, then one step per submit, without the lock.
A message is two words, so a torn copy would be visible.  `poll` is likewise
two steps under the mutex.  A work queue thread takes its first item, polls
once, as the handler of Test2 does, and returns in a step of its own; an item
is absorbed while it is queued and queued again while its handler runs.  `register_work_item` takes no lock but is
called from constructors of static objects only: `Register` needs `~booted`.

**SPSCRingBuffer.**  `heads` and `tails` hold the values each atomic took, so
that an acquire load can return any value from the last one seen to the newest.
The thread that writes an index reads its own newest value.

**ParamManager.**  `set` is three steps, since it takes no lock: it writes the
cache, lets `settings_save_one` store *what the cache holds at that moment*
(which may fail), and returns.  Keys are short sequences, so that which records
`settings_load_subtree` finds is decided as in the code: `set` saves under
`params/<name>`, `load` asks for `<name>`.  `Boot` is `init`: defaults, then
everything from flash.  `Crash` can come at any step.  What flash holds at the
very first start is arbitrary, records too short for their type included.
`newer`, `allowed` and `unsaved` are history variables.  A save is atomic with
respect to a loss of power: the flash circular buffer behind the settings
subsystem ignores an entry without a valid checksum.

**TopicGenerator.**  `os.listdir` is one step, each file is read in a step of
its own, and opening a file, which empties it, and writing it are two.  An
editor may change or delete a `.topic` file between any two steps, and the run
may stop at any step, on a line it cannot parse or from outside
(`TopicsStopped`); the next run starts on what is left.  A file is a sequence
of lines, a line a sequence of words.  `startswith` needs no blank after a
keyword: `Beginning` gives the words that begin with it, `QUEUE_LENGTH_MAX`
among them.  What is kept of the generated text is
what it says (struct and fields, name and length, alias).  `topic_seen`
records what each file held during the run.

**ParamGenerator.**  The same for the `module.yaml` files, in sorted order,
and then what depends on the result: `Install` is a firmware built from the
two files, if they compile (the `static_assert` included) and the last run
succeeded; `SaveParam` stores a record under the key that the installed table
has for an enumerator.  Names are joined and upper-cased as in the code, so two
parameters may get one.  An entry carries its owner, the module and parameter it
was written for, and a record the entry and the build it was saved by; no
action reads them.

**EKF.**  `ekf_derivation.py` works with symbolic expressions.  Here its
kinematics and measurement models are *evaluated*, on integers modulo a prime:
sums, products and the factor 1/2 are exact there.  A derivative is found by
evaluating with an infinitesimal part (`EPS`, and `TAU` for the interval, whose
square the derivation drops); that is what symforce's `jacobian` followed by
the substitution of zero comes to.  `EkfGenerated` is a
transcription of the generated Python functions, with their common
subexpressions gathered into the matrices and vectors they form.  It gives, entry by
entry, what the Python functions give in the same arithmetic.

**GazeboBridge.**  Gazebo delivers messages one at a time in a thread of its
own, from the moment their topic is subscribed, while `__init__` goes on to the
next topic and before `run` starts the receiver.  `_send_hil_sensor` is one
step per reading of a cached sample, the components of the magnetic field
included.  A sensor message is a number, counted per sensor, so a mixture of
two would be visible.  A callback begins when none runs (`Delivers`): the
transport's single thread is an assumption, and with it no other callback can
replace a cache between two readings, so `HilSensorStreamSpec` does not show
that.  `OnLidar` keeps the widths of the fields: time in units of 2^16 ms, so
that 32 bits of milliseconds are 16 of the model, and the distance in cm.  What
does not fit raises an exception; whether the process survives it is left open.
`wait_heartbeat` takes and discards messages until the first
heartbeat; a socket holds what has arrived and not been received.  `Norm` is
Python's `max` and `min` with their treatment of NaN.  Ctrl-C is caught in
`run`'s loop only; anywhere in the constructor it ends the process.
`unaddressed`, `after_stop`, `range_lost`, `heard` and `answered` are history variables.

## 3. Runs

| run | instance | what it shows |
|---|---|---|
| `ring_buffers` | `RingBuffer`: sizes 1, 2, 3, two elements, arrays up to 3; `SPSCRingBuffer`: two slots and the sentinel, 6 pushes | `TypeOK`, `IndicesAgree`, and the ring implements `OverwritingQueue`; `SpscTypeOK`, `NoDataRace`, and the lock-free buffer implements `BoundedFifo` |
| `ring_drain_all` (violated) | as above | `drain_all`'s result is not about the caller's array |
| `ring_count` (violated) | as above | after a failed `reallocate`, `_count` counts elements that are gone |
| `queue_topic` | ring of 3, 7 publishes; two subscribers and two messages, or two items, requirements 0, 1, 4 and one message | `TypeOK`, `RingHoldsNewest`, `HoldsWhatItRecorded`, `NotifiedInTime`, and the topic implements `TopicLog` |
| `latest_value_topic` | two publishers with a message each, one task, two items on two queues, 2 publishes | `TypeOK`, `NoLostWakeUp`, implements `LatestValue`, `Delivered` (liveness) |
| `params` | two parameters, three values, two threads | `TypeOK`, `RestartChangesNothing`, `SuccessIsKept` |
| `params_load` (violated) | as above | `load` reloads nothing |
| `code_generators` | two topics, four contents, one edit; two paths, five contents of four modules, two edits, two installations; twelve arguments of the EKF | `TopicHeadersAgree`, `IncludedHeadersExist`, `SavedValuesStrayOnlyByCollision`, `PredictionIsLinearised`, `OneErrorState`, `MeasurementsAreDerived` |
| `param_collision` (violated) | one path, the same contents, one edit, two installations | `SavedValuesKeepTheirOwner` is false: full names collide across two builds |
| `ekf_quaternion` (violated) | as above | `Data()` writes the quaternion in another order than the functions read |
| `gazebo_bridge` | one motor, four sensor messages, three arrivals, Ctrl-C anywhere | `TypeOK`, `MotorsWithinLimits`, `EverythingAddressed`, `StopsWithinOneMessage`, implements `HilSensorStream`, `HeartbeatsAnswered` (liveness) |
| `gazebo_lidar` (violated) | a right clock, a near distance | no lidar reading is forwarded |

The properties:

- `IndicesAgree`: `_head` is `_count` slots after `_tail`, through all wraps.
- `QueueSpec`: each call does to the content what a bounded overwriting queue
  does, and hands out what the queue would.
- `CountsElements` (violated): `_count` is the number of elements there are.
- `RingHoldsNewest`: the topic's ring is the last `QUEUE_LEN` published
  messages in order, `oldest_generation_` names the first.
- `HoldsWhatItRecorded`: after a successful poll the subscriber holds the
  message of the generation it recorded.
- `LogSpec`: in order, no repetition, and `missed_` is raised exactly at gaps.
- `NotifiedInTime`: a work item that has not started since `required_updates`
  messages ago is queued.
- `NoLostWakeUp`: a registered item behind the newest generation is queued,
  about to be submitted, or in a poll.
- `LatestSpec`, `Delivered`: polls return the newest message whole; every item
  eventually sees each message or a newer one.
- `NoDataRace`, `FifoSpec`: the two threads of the lock-free buffer are never
  at one slot, and the buffer is a FIFO queue of `Size` elements.
- `RestartChangesNothing`: unless a save is outstanding or the last one failed,
  cache and what a restart would restore are the same.
- `SuccessIsKept`: a set that returned 0 is undone only by sets that began after
  it, through failing saves and losses of power.

- `TopicHeadersAgree`: after a run that ended well, struct, metadata and alias
  of each topic come from one content its file had during the run, and a file
  that was there throughout is among them.
- `IncludedHeadersExist`: whatever `DataTypes.h` includes is on disk, in the
  middle of a run and after a failed one.
- `SavedValuesStrayOnlyByCollision`: a value is restored by the build that saved
  it into the same parameter of the same module, and by a later build only into
  a parameter whose full name is the one it was saved under.
  `SavedValuesKeepTheirOwner`, which the code's comment claims and which is
  false, has the first half for every build.
- `PredictionIsLinearised`, `MeasurementsAreDerived`: the generated functions
  return what the derivation says, for all 120 entries of the covariance and
  for innovation, variance and Jacobian of the five measurements.
- `OneErrorState`: the Jacobian of a measurement, which the code finds through
  the 16 numbers of the state and a chain rule, is the derivative along the
  very error that the prediction propagates.
- `HilSensorStreamSpec`: one HIL_SENSOR per IMU sample, with one whole magnetic
  field, the newest, and the newest pressure of one moment, from the first
  subscription on; that samples do not mix follows from the single transport
  thread that is assumed.
- `ScansForwarded` (violated): every finite lidar reading is sent.
- `MotorsWithinLimits`: whatever is commanded, NaN included.
- `EverythingAddressed`: nothing is sent before the autopilot's address is
  known.
- `StopsWithinOneMessage`, `HeartbeatsAnswered`: after Ctrl-C at most the
  message in hand is handled; until then every heartbeat after the first is
  answered.

### Bounds, and why they are enough

- Rings of one slot (every index wraps at once), two and three (a batch splits
  before, at and after the end of the array); arrays up to the largest size, so
  every eviction count from none to all occurs.  Section 5 has every size.
- `MaxGeneration` 7 with a ring of 3 wraps it twice, so a subscriber can be
  behind by less than, exactly, and more than the ring from every tail
  position.  The proofs of section 5 remove this bound.
- Requirements 0 (the code treats it as 1), 1 and 4 (more than the ring holds)
  with 7 publishes: an item is due, restarts, and is due again.
- In `latest_value_topic` two publishes are enough for two submit loops to
  overlap with each other and with handlers of both queues; `MAX_WORK_ITEM` 2
  lets the registration limit be reached and one item be registered twice.
  Each publisher has a message of its own, so the words of two publishers are
  told apart.  Two publishes are enough for a submit to be absorbed by a queued
  item, and to meet a handler that has polled and not returned.
  Section 5 removes these bounds for the safety properties.
- `params`: two threads are enough for a slow save to meet a newer one; with
  three values both differ from the one that was there.  Section 5 removes the
  bounds.
- `SPSCRingBuffer`: six pushes go round the three slots twice.  Section 5 has any size
  and any number of pushes.
- `code_generators`: two topics, of which the second is read after the first was
  written; the contents differ in everything a header tells (queue length or
  none, another name, fields) and one does not parse; one edit can meet the run
  at any step.  Two modules at a time, out of: one whose two
  parameters may change places, one whose name and parameter come to a full name of
  the first, two without a name; two installations are the least that lets a
  record outlive its firmware.  The generators share nothing, so a behaviour runs one
  of them.  The numbers of the EKF are integers modulo 10007: the functions and
  the derivation are polynomials of a degree of about 10 in up to 301 numbers,
  so two that differ agree at an arbitrary point with a probability of about
  one in a thousand, and at twelve practically never.
- `gazebo_bridge`: a HIL_SENSOR takes five steps after its IMU sample, and four
  sensor messages are enough for samples before, during and after it; three
  arrivals with a buffer of two for a heartbeat in front of, behind and between
  commands, and for Ctrl-C in each interval.  The scans are empty, without a
  finite reading in the middle, with one, and too far for 16 bits of cm; the
  clock shows 1970 or January 2026.  Section 5 removes the bounds for
  the safety properties.

The two buffers, the three generators, and the subscribers and work items of a
queued topic do not affect each other.  Each of these groups has one run, in which a
behaviour is about one of the group (`class`, `generator`, `clients`).

`MaxGeneration` and `MaxPushes` are guards on publishing and pushing alone.
`SRIMBTopic` stops when they are reached and all is delivered: `Quiescent`
makes that state no deadlock.  Deadlock is checked in every run but
`gazebo_bridge`, where the process ends.

### Fairness

`SRIMBTopic`: a thread inside a call and a work queue thread
with queued items are weakly fair: publishers and handlers sleep or end between
calls, so lower-priority threads get the processor.  Taking the mutex is
strongly fair: `k_mutex_unlock` hands the mutex over to a waiting thread, so
other threads that keep locking it cannot keep one out for ever.  Nothing
obliges a thread to publish or a task to poll.

`GazeboBridge`: the constructor and the receiver are threads of a running
process and go on when they can (weak fairness of each).  Nobody is obliged to
send anything, in either direction, or to press Ctrl-C.

## 4. Disagreements between code and comments

With a run that shows them:

- `RingBuffer.hpp:201` says when `drain_all` returns false; it evaluates
  `_count == 0` after the unlock, so the answer may be that of a later moment
  (run `ring_drain_all`).
- `param_manager.hpp:74` says that `load` forces the value to be read again from
  flash; it looks under a key that nothing is saved under (run `params_load`).
- `RingBuffer.hpp:20` calls `_count` the number of elements in the buffer; after
  a failed `reallocate` it still has the old number, and the reads, which test
  nothing else, follow a null pointer (run `ring_count`).
- `generate_params.py:18` says that the prefix avoids collisions; a module `EKF`
  with `IMU_GAIN` and a module `EKF_IMU` with `GAIN` still collide, as do modules
  without a name (run `param_collision`).
- `infinity_gazebo_bridge.py:203` says that a scan is converted into a
  DISTANCE_SENSOR; the time passed since 1970 does not fit the message, so the
  callback raises an exception (run `gazebo_lidar`).
- `code_generation.py:75` says that the generated struct mirrors the state, and
  `ekf_derivation.py:69` that the flat vector has the quaternion as w, x, y, z;
  the struct's `Data()` writes x, y, z, w (run `ekf_quaternion`).

Met while reading, without a run:

- `ekf_derivation.py:153` says that the constraint of a unit quaternion is used;
  the squared norm is still a factor in them (`_tmp23` of `predict_covariance`).
- `infinity_gazebo_bridge.py:24` prints advice when Gazebo's Python modules are
  missing; the annotations of the callbacks name their types, so the script
  ends with a `NameError` before anything could follow the advice.

## 5. Proofs

The queued topic, for every `QUEUE_LEN` in 1..255, every set of messages, subscribers and
work items, every `MAX_WORK_ITEM`, requirements in 0..255, and any
`MaxGeneration` (`QueueLenAssumption`, `MaxWorkItemAssumption`,
`RequiredAssumption`, `MaxGenAssumption`; these are what the C++ types say).

`RingBufferOpsProofs` proves what a push does: the indices stay in range, head
and tail keep their distance, and `PushContents`: the content is the old one
with the new element appended and, when the ring was full, the oldest removed.
Modular arithmetic is met only through `Wrap`: `WrapRange` and `WrapOnce` (an
index below twice the size wraps by at most one subtraction) are all the other
proofs know of `%`.

`SRIMBQueueTopicProofs`:

- `TypeCorrect`: `TypeOK`, which is inductive.
- `RingCorrect`, `PollCorrect`: `LogInv` is the conjunction of `TypeOK`,
  `RingHoldsNewest` and `HoldsWhatItRecorded`.  `HoldsWhatItRecorded` is not
  inductive alone, since what a poll hands out depends on the ring, and
  `RingHoldsNewest` states head, tail and count as well as the messages because
  a publish overwrites by them.  `Publish` needs the case split of a push (ring
  full or not); `PollMessage` shows that the computed slot is that of the
  generation the log demands next.
- `ImplementsLog`: by `LogInv`, every action is an action of `TopicLog` or
  leaves its variables alone.
- `WakeUpsKept`: `NotifiedInTime` is not inductive, since it does not know the
  counters.  `CountsUntold` adds that an entry's counter is below its
  requirement, and that as long as its item is not queued the counter covers
  every message published since its count began or its handler last started.

`ParamManagerProofs`, for any parameters, values and threads (assumed: the
defaults are values, the marks for records are not, no parameter is called
"params"): `ParamTypeCorrect`, `CacheAndFlashAgree` (`RestartChangesNothing`)
and `SetIsDurable` (`SuccessIsKept`).  Neither of the last two is inductive:
nothing in them says what a set that is still under way will save or has saved.
`SetsInOrder` does: while a thread is inside `set`, the cache holds its value or
that of a set that began later, and after its save so does flash.  It is
preserved because a save reads the cache, not its argument.  `LoadNothing`
shows from the keys that `load` leaves the cache alone.

`ScriptProofs` on the parameter generator, for any paths, edits and
installations, and for modules and parameters of any names, colliding ones
included, under `YamlAssumption` (what a `module.yaml` is): `SavedValuesTraced`
(`SavedValuesStrayOnlyByCollision`).  The invariant behind it: whenever the last
run succeeded, the two files on disk are of one list (`Generated`); an installed
table is that of its enum, whose names are distinct because the firmware
compiled (`Installed`, `Distinct`); and a record has the full name of its entry
as its key, an entry of the installed enum if the installed build saved it
(`Recorded`).  So a key found is the name of the row, and within one build
equal names are one row.

`ScriptProofs` on the bridge, for any number of motors, controls, scans and messages
(`MotorAssumption`, `ControlAssumption`, `BoundAssumption`, `ScanAssumption`,
`TimeAssumption`), exceptions in the lidar's callback included:
`BridgeTypeCorrect`, `MotorsSafe` (from `NormRange`: the clamp of a number or of
NaN is in range), `AddressKnown`, `StopIsPrompt` and `ImplementsStream`.  Three
strengthenings: `Addressed` (without an address the constructor still waits and
no callback or receiver exists), `Stopping` (as long as the receiver may still
handle a message, none was handled after Ctrl-C), and `Sending` (what has been
read of the caches so far is still what they hold, because no callback runs
beside the one that sends).

`RingBufferProofs`, for rings of every size, any elements, batches of any
length that fit and arrays of any length (`SizesAssumption`,
`MaxLenAssumption`: there is a slot, and room for one element):
`RingTypeCorrect`, `IndicesAlwaysAgree` and `ImplementsQueue`, the refinement of
`OverwritingQueue` by every method.  `IndicesAgree` says
nothing of the slots; `Sound` adds that the `count` slots from the tail on were
written.  The index arithmetic of a batch is reduced to steps round the ring:
`SameStep` (two ways of equal length from a slot end at one slot), `StepOnce`
and `StepRound`.  `BatchSlots` says where the elements that are kept and those
of the batch lie, `CopiedIn` and `CopiedOut` that the two `memcpy`s put them
there and take them from there, wherever the array ends in between.

`SPSCRingBufferProofs`, for every `Size`, any elements and any number of pushes
(`SizeAssumption`; the largest `Size` must leave room for the sentinel in the
`uint32_t` of `size_`): `SpscTypeCorrect`, `NoRace` and `ImplementsFifo`.
`NoDataRace` is about where the threads are now, its invariant about what they
know: `Views` bounds how far each index is from the old value of the other that
its thread acted on, `Distances` says that values at most `Size` steps apart
are told apart in spite of the modulus, and `Slots` what the threads carry.
This is where the sentinel slot is needed: `IndicesDiffer` is false without it.

`SRIMBTopicProofs`, for any publishers, tasks, items, queues and messages of two
words (`QueueOfAssumption`, `DataAssumption`, `ThreadAssumption`,
`BoundAssumption`): `TopicTypeCorrect`, `NoWakeUpIsLost` and `ImplementsLatest`.
The invariant is `TypeOK` with `Exclusive` (who is between the two words of a
message holds the mutex, and what it has copied so far is still there), `Whole`
(outside the two steps of a publish the topic holds the newest message) and
`NotBooted` (nothing is published while items are still registered).
`NoLostWakeUp` is inductive together with it: the wake-up for a new generation
is owed by the publisher's submit loop, then by the queue, then by the handler's
poll, and each hands it on in the step in which it lets go.

`ScriptProofs` on the topic generator, for any finite set of `.topic` files, any
contents and any number of edits, deletions and interrupted runs
(`TopicNamesAssumption`: a directory is finite, a topic's name can name a
header, and none is `DataTypes`; `MarksAssumption`: "missing" and "empty" are told apart from contents):
`TopicHeadersCorrect` (`TopicHeadersAgree`) and `IncludesThere`
(`IncludedHeadersExist`).  Both are about what is on disk, the first only after
a run that ended well; `TopicInv` says what holds in the middle.  `EachOnce`: the
names that were read and those that are left are disjoint, have no duplicates,
and between them are all the files that were there throughout.  `OneContent`:
each entry of the three lists, and each struct already on disk, come from one
content that its file had since `os.listdir`, and an edit only adds to what a
file had.  `OutputsWritten`: the three headers about all topics are copies of the lists
as far as the run has come.  `HeadersThere` is kept because a struct once
written is never removed and `DataTypes.h` is only written when all are.

`EkfProofs`, for every odd modulus (`PrimeAssumption`; a prime is not needed,
only that 2 can be halved) and every argument of the right shape
(`EkfArgumentsAssumption`): `MeasurementsCorrect` (`MeasurementsAreDerived`),
`ErrorStatesAgree` (`OneErrorState`) and `PredictionCorrect`
(`PredictionIsLinearised`).  They remove the chance that remains with twelve
arguments: innovation, variance and Jacobian of all five sensors, and all entries
of the predicted covariance, are those of `ekf_derivation.py` as polynomials,
whatever the state, without assuming a unit quaternion or a symmetric covariance.
`EkfInv` and `PredictionInv` are simple (a result is that of the last call, the
Jacobians are those of the argument); the work is in the functions.  Residues and their
infinitesimal parts are taken as reductions of integers (`ModHom`: reduction
commutes with the operations), and the polynomials are compared before they are
reduced.  `FieldAlong` gives the field in the body frame and its
change for any change of the quaternion; with `TrueIs` (the true state along an
error turns the quaternion by half an angle) it is `HIsDerivative`, and with
`ColumnIs` (the columns of `dx_derror` are the same changes) `ChainIsGenerated`:
the two ways to H meet in the generated rows.  `SumSingle` and `SumFew` reduce
the sums over 15 errors to the one or three where a row is not zero.

The prediction is larger: the new attitude error is a product of products of
quaternions, and the entries of A P A^T are sums of 225 products.  Three
layers of lemmas keep each calculation small.  `Has` states the value and the
derivative of a number, `Layers` (`QuatLayers`) splits a quaternion into four of
integers, one per part of a number, so that products of attitudes are products
of integer quaternions (`Ham`), which `TurnsCancel` and `TurnFromWorld` relate to
rotations.  `ThetaRow`, `VelocityChange`, `PositionChange` and `BiasChange` give one step of
each error along any error and noise; for one error or one noise at a time these
are the columns of A and G in the generated function's own coefficients
(`ErrorCoefficients`, `NoiseCoefficients`).  A column has at most seven entries that are
not zero, so `AttitudeWeighted`, `VelocityWeighted` and `OtherWeighted` shorten the sums
over 15 errors, `NoiseSums` those over the noise, and `PredictedEntry` compares each
entry with the generated one.

Only model-checked: every liveness property (liveness under fairness is not
proved here).  Every safety invariant and action property of the passing runs
is a theorem.

## 6. What the models take for granted

- Callers of a `RingBuffer` test `check()` before they push, do not read a ring
  that lost its storage while it held elements, and pass batches that fit.
- The ring of a queued topic was allocated.  The code does not test this; with
  an empty heap the first `publish` would write through a null pointer.
- `k_mutex`, `k_work` and work queues behave as Zephyr documents them.
- The two threads of a `SPSCRingBuffer` are one producer and one consumer.
  (No code at this commit uses the class.)
- Gazebo's transport calls the callbacks one at a time, in one thread.  That no
  callback replaces a cache while HIL_SENSOR is assembled rests on this.
- No topic is called `DataTypes`: its struct and the list of all structs would
  be one file, written by both, and no firmware compiles from it.
- Two threads of the bridge may send at once on one pymavlink connection; its
  sequence number and buffer are pymavlink's affair, a send is one step.
- A firmware is built from a run of the generators that succeeded.
- `params::init` has returned before a parameter is set.  (`main` does not call
  it at this commit, and no module has parameters yet.)

## 7. Plan

When the code they need is there:

1. `ImuPipeline`: interrupt, `fast_sensors_wq` and its start in `main`, the BMI088
   handlers with failing fetches, the raw topics (through `SRIMBQueueTopic`'s
   operators) and the preprocessor's registrations.  Properties: an interrupt
   after boot is followed by a fetch (liveness), no sample is published that
   was not fetched, the registrations fit.  It needs drivers that compile and a
   preprocessor with a handler.
2. `Scheduler`: the task table, thread start against `_tid`, `suspendAll` by a
   task, a suspended mutex holder.  It needs a `main` that starts tasks and a
   caller of `suspendAll`.
3. `HAL`: registration limits and `init`.
4. Proofs of the invariants of these.

The instances stay of the size of those above; every new run is to end within
a minute or two.

## 8. Not modelled, and why

- `RingBufferTimestamp`, `WorkItemDelayable`, `Logger`, `SDWriter`, the ICM42688P
  driver: they do not compile at this commit, and nothing uses them.
- The BMI088 drivers: neither compiles at this commit, since they name a member
  `id_` that their classes do not have (`Bmi088_acc_driver.cpp:24`,
  `Bmi088_gyro_driver.cpp:10`).  With them the HAL's registrations and the
  preprocessor, whose handler is empty, have nothing to move.
- The scheduler: the calls of `addTask` and `start` are commented out
  (`entry.cpp:71`, `entry.cpp:86`), and nothing calls `suspendAll` or
  `resumeAll`.  Whether a task may suspend itself half-way, or be suspended with
  a topic's mutex, is decided by a caller that does not exist yet; PROJECT.json
  lists these hazards.
- Telemetry and the SITL sensors are empty files; the SITL radio is one UART
  call.
- The C++ EKF: a skeleton that calls none of the generated functions; the C++
  header of these functions is printed by symforce from the same expressions as
  the Python ones and is in no build.
- Filters, vector types: floating-point arithmetic without control flow.
- Log backends and pools: formatting and output.
- CMake, Kconfig, device tree: build time, without state.
- `isEmpty`, `isFull`, `updated` and the other pure queries: they change nothing.
